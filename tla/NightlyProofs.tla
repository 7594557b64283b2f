----------------------------- MODULE NightlyProofs -----------------------------
(***************************************************************************)
(* Nobody loses a deposit unwarned and no acknowledged event is lost, for  *)
(* any number of requests, rentals, events, days and faults, on either     *)
(* database.                                                               *)
(***************************************************************************)
EXTENDS NightlyJob, TLAPS

-----------------------------------------------------------------------------
(* Part one, the store: both adapters keep the promise of the port, whatever *)
(* the callbacks do, for any number of clients, operations and attempts.     *)

\* What a transaction under way relies on.  Its snapshot is the database as long as the revision
\* has not moved; a lock is only held on such a snapshot; D1 writes only what its callback accepted.
TxOK(c) ==
  /\ tx[c] = Transaction(tx[c].op, tx[c].attempt, tx[c].phase, tx[c].before, tx[c].seen, tx[c].told)
  /\ tx[c].phase # "none" => Pending(c) /\ tx[c].op \in Ops
  /\ tx[c].seen \in Nat /\ tx[c].seen <= version
  /\ tx[c].phase \in {"waiting", "read", "locked"} /\ Unchanged(c) => tx[c].before = data
  /\ In(c, "read") => ~Throws(c)
  /\ In(c, "locked") <=> lock = c
  /\ In(c, "locked") => Unchanged(c) /\ backend = "postgres"
  /\ In(c, "read") => backend = "d1"
Inv ==
  /\ version \in Nat
  /\ tx = [c \in Clients |-> tx[c]]
  /\ \A c \in Clients : TxOK(c)

\* A transaction looks like a call of the port.
LEMMA CallsAre == \A c \in Clients : Calls[c] = [op |-> tx[c].op, told |-> tx[c].told]
  BY DEF Calls

\* The invariant holds at first.
LEMMA InitInv == Init => Inv
  BY NoneAssumption DEF Init, Inv, TxOK, Idle, Transaction, Pending, In, Throws, Unchanged

-----------------------------------------------------------------------------
(* A step of the client c rewrites its own transaction only.                 *)

\* What becomes of the other transactions when c writes nothing, or commits with a current snapshot.
LEMMA OthersKeep ==
  ASSUME Inv, backend' = backend, NEW c \in Clients, NEW d \in Clients, d # c, tx'[d] = tx[d],
         \/ UNCHANGED <<data, version>>
         \/ version' = version + 1 /\ lock # d,
         lock' = d <=> lock = d
  PROVE  TxOK(d)'
  BY DEF Inv, TxOK, Transaction, Pending, In, Throws, Unchanged

\* The invariant after a step of c, given what the step leaves of its transaction.
LEMMA InvAfter ==
  ASSUME Inv, backend' = backend, NEW c \in Clients, NEW record, To(c, record), TxOK(c)',
         \/ UNCHANGED <<data, version>>
         \/ version' = version + 1 /\ \A d \in Clients \ {c} : lock # d,
         \A d \in Clients \ {c} : lock' = d <=> lock = d
  PROVE  Inv'
<1>1. version' \in Nat
  BY DEF Inv
<1>2. tx' = [d \in Clients |-> tx'[d]] /\ \A d \in Clients \ {c} : tx'[d] = tx[d]
  BY DEF Inv, To
<1>3. ASSUME NEW d \in Clients PROVE TxOK(d)'
  BY <1>2, OthersKeep
<1> QED
  BY <1>1, <1>2, <1>3 DEF Inv

\* What the port sees of a step of c.
LEMMA Rewritten ==
  ASSUME Inv, NEW c \in Clients, NEW record, To(c, record)
  PROVE  /\ tx'[c] = record
         /\ Calls' = [Calls EXCEPT ![c] = Atomic!Called(record.op, record.told)]
  BY DEF Inv, To, Calls, Atomic!Called

\* What the transaction under way of c is known to be.
LEMMA UnderWay ==
  ASSUME Inv, NEW c \in Clients, tx[c].phase # "none"
  PROVE  /\ Pending(c) /\ Atomic!Pending(c)
         /\ tx[c].op \in Ops /\ Calls[c].op = tx[c].op
  BY DEF Inv, TxOK, Pending, Atomic!Pending, Calls

Refines == Atomic!Next \/ UNCHANGED Atomic!vars

\* The steps of the port are steps of its specification.
LEMMA PortSteps ==
  ASSUME NEW c \in Clients,
         Atomic!Ask(c) \/ Atomic!Do(c) \/ Atomic!Refuse(c) \/ Atomic!Fail(c) \/ Atomic!Return(c)
  PROVE  Refines
  BY DEF Refines, Atomic!Next

\* A step that leaves what c is told and the rows alone is invisible.
LEMMA Stutters ==
  ASSUME Inv, NEW c \in Clients, NEW record, To(c, record),
         record.op = tx[c].op, record.told = tx[c].told, data' = data
  PROVE  Refines
<1>1. Calls' = Calls
  BY DEF Inv, To, Calls
<1> QED
  BY <1>1 DEF Refines, Atomic!vars

-----------------------------------------------------------------------------
(* One lemma per step. *)

LEMMA AskStep ==
  ASSUME Inv, NEW c \in Clients, NEW op \in Ops, Ask(c, op)
  PROVE  Inv' /\ Refines
<1> DEFINE record == Transaction(op, 1, "asked", None, 0, "pending")
<1>1. To(c, record) /\ UNCHANGED <<backend, data, version, lock>> /\ ~Pending(c)
  BY DEF Ask, Asked
<1>2. tx'[c] = record /\ Calls' = [Calls EXCEPT ![c] = Atomic!Called(op, "pending")]
  BY <1>1, Rewritten DEF Transaction
<1>3. lock # c
  BY <1>1 DEF Inv, TxOK, In
<1>4. TxOK(c)'
  BY <1>1, <1>2, <1>3 DEF Inv, TxOK, Transaction, Pending, In, Throws, Unchanged
<1>5. Inv'
  BY <1>1, <1>4, InvAfter
<1>6. Calls'[c] = Atomic!Called(op, "pending") /\ Calls[c].told # "pending"
  BY <1>1, <1>2 DEF Calls, Pending
<1>7. Atomic!Ask(c)
  BY <1>1, <1>2, <1>6 DEF Atomic!Ask, Atomic!Pending, Atomic!Requests
<1> QED
  BY <1>5, <1>7, PortSteps

\* Taking a snapshot, or the lock on one that is still current.
LEMMA TakeStep ==
  ASSUME Inv, backend' = backend, NEW c \in Clients, NEW phase \in {"waiting", "read", "locked"},
         tx[c].phase # "none", To(c, Taken(c, phase)), UNCHANGED <<data, version>>,
         phase = "read" => Accepts(tx[c].op, data) /\ backend = "d1",
         lock' = IF phase = "locked" THEN c ELSE lock,
         phase = "locked" => lock = None /\ backend = "postgres", phase # "locked" => lock # c
  PROVE  Inv' /\ Refines
<1>1. tx'[c] = Taken(c, phase)
  BY Rewritten
<1>2. TxOK(c)'
  BY <1>1, UnderWay DEF Inv, TxOK, Taken, Transaction, Pending, In, Throws, Unchanged
<1>3. \A d \in Clients \ {c} : lock' = d <=> lock = d
  BY NoneAssumption
<1>4. Inv'
  BY <1>2, <1>3, InvAfter
<1>5. Refines
  BY UnderWay, Stutters DEF Taken, Transaction, Pending
<1> QED
  BY <1>4, <1>5

\* Telling c an answer ends its transaction and gives its lock back.
LEMMA TellInv ==
  ASSUME Inv, backend' = backend, NEW c \in Clients, NEW answer \in Answers, Tell(c, answer), lock' # c,
         \A d \in Clients \ {c} : lock' = d <=> lock = d,
         \/ UNCHANGED <<data, version>>
         \/ version' = version + 1 /\ \A d \in Clients \ {c} : lock # d
  PROVE  /\ Inv'
         /\ Calls' = [Calls EXCEPT ![c] = Atomic!Called(Calls[c].op, answer)]
<1> DEFINE record == Transaction(tx[c].op, 0, "none", None, 0, answer)
<1>1. To(c, record)
  BY DEF Tell
<1>2. tx'[c] = record /\ Calls' = [Calls EXCEPT ![c] = Atomic!Called(tx[c].op, answer)]
  BY <1>1, Rewritten DEF Transaction
<1>3. version' \in Nat
  BY DEF Inv
<1>4. TxOK(c)'
  BY <1>2, <1>3 DEF TxOK, Transaction, Pending, In, Throws, Unchanged
<1>5. Inv'
  BY <1>1, <1>4, InvAfter
<1> QED
  BY <1>2, <1>5 DEF Calls

LEMMA RefuseStep ==
  ASSUME Inv, backend' = backend, NEW c \in Clients, tx[c].phase # "none", Tell(c, "refused"), lock' # c,
         \A d \in Clients \ {c} : lock' = d <=> lock = d,
         UNCHANGED <<data, version>>, ~Accepts(tx[c].op, data)
  PROVE  Inv' /\ Refines
<1>1. Inv' /\ Calls' = [Calls EXCEPT ![c] = Atomic!Called(Calls[c].op, "refused")]
  BY TellInv DEF Answers
<1>2. Atomic!Refuse(c)
  BY <1>1, UnderWay DEF Atomic!Refuse, Atomic!Tell
<1> QED
  BY <1>1, <1>2, PortSteps

LEMMA FailStep ==
  ASSUME Inv, backend' = backend, NEW c \in Clients, tx[c].phase # "none", NEW answer \in {"conflict", "error"},
         Tell(c, answer), lock' # c, \A d \in Clients \ {c} : lock' = d <=> lock = d,
         UNCHANGED <<data, version>>
  PROVE  Inv' /\ Refines
<1>1. Inv' /\ Calls' = [Calls EXCEPT ![c] = Atomic!Called(Calls[c].op, answer)]
  BY TellInv DEF Answers
<1>2. Atomic!Fail(c)
  BY <1>1, UnderWay DEF Atomic!Fail, Atomic!Tell
<1> QED
  BY <1>1, <1>2, PortSteps

\* The heart of it: what is written follows from what the rows are now, although it was computed on
\* the snapshot.
LEMMA WriteStep ==
  ASSUME Inv, backend' = backend, NEW c \in Clients, CanWrite(c), Write(c), NEW answer \in {"ok", "error"},
         Tell(c, answer), lock' # c, \A d \in Clients \ {c} : lock' = d <=> lock = d,
         \A d \in Clients \ {c} : lock # d
  PROVE  Inv' /\ Refines
<1>1. Inv' /\ Calls' = [Calls EXCEPT ![c] = Atomic!Called(Calls[c].op, answer)]
  BY TellInv DEF Answers, Write
<1>2. tx[c].phase # "none" /\ tx[c].before = data /\ ~Throws(c)
  BY DEF CanWrite, In, Inv, TxOK
<1>3. Accepts(Calls[c].op, data) /\ data' = Mutate(Calls[c].op, data) /\ Atomic!Pending(c)
  BY <1>2, UnderWay DEF Write, Throws
<1>4. Atomic!Do(c)
  BY <1>1, <1>3 DEF Atomic!Do, Atomic!Tell
<1> QED
  BY <1>1, <1>4, PortSteps

\* A lost race is a stutter of the port, or the conflict that ends the last attempt.
LEMMA RetryStep ==
  ASSUME Inv, backend' = backend, NEW c \in Clients, tx[c].phase # "none", Retry(c), lock # c,
         UNCHANGED <<data, version, lock>>
  PROVE  Inv' /\ Refines
<1>1. CASE tx[c].attempt < Attempts
  <2> DEFINE record == Transaction(tx[c].op, tx[c].attempt + 1, "asked", None, 0, "pending")
  <2>1. To(c, record)
    BY <1>1 DEF Retry, Asked
  <2>2. tx'[c] = record
    BY <2>1, Rewritten
  <2>3. TxOK(c)'
    BY <2>2, UnderWay DEF Inv, TxOK, Transaction, Pending, In, Throws, Unchanged
  <2>4. Inv'
    BY <2>1, <2>3, InvAfter
  <2>5. Refines
    BY <2>1, UnderWay, Stutters DEF Transaction, Pending
  <2> QED
    BY <2>4, <2>5
<1>2. CASE ~(tx[c].attempt < Attempts)
  BY <1>2, FailStep DEF Retry
<1> QED
  BY <1>1, <1>2

-----------------------------------------------------------------------------
(* Every step, and the theorem. *)

LEMMA LeaveStep ==
  ASSUME Inv, NEW c \in Clients, Leave(c)
  PROVE  Inv' /\ Refines
<1>1. To(c, Idle) /\ lock' = Unlocked(c) /\ UNCHANGED <<backend, data, version>>
  BY DEF Leave
<1>2. tx'[c] = Idle /\ Calls' = [Calls EXCEPT ![c] = Atomic!Idle]
  BY <1>1, Rewritten DEF Idle, Transaction, Atomic!Idle
<1>3. lock' # c /\ \A d \in Clients \ {c} : lock' = d <=> lock = d
  BY <1>1, NoneAssumption DEF Unlocked
<1>4. TxOK(c)'
  BY <1>1, <1>2, <1>3 DEF Inv, TxOK, Idle, Transaction, Pending, In, Throws, Unchanged
<1>5. Inv'
  BY <1>1, <1>3, <1>4, InvAfter
<1>6. Atomic!Return(c)
  BY <1>1, <1>2 DEF Atomic!Return
<1> QED
  BY <1>5, <1>6, PortSteps

\* Where a transaction that may write stands among the locks.
LEMMA Alone ==
  ASSUME Inv, NEW c \in Clients, CanWrite(c)
  PROVE  \A d \in Clients \ {c} : lock # d
  BY DEF Inv, TxOK, CanWrite, In

LEMMA BrokenStep ==
  ASSUME Inv, NEW c \in Clients, Broken(c)
  PROVE  Inv' /\ Refines
<1>1. Tell(c, "error") /\ backend' = backend /\ lock' # c /\ \A d \in Clients \ {c} : lock' = d <=> lock = d
  BY NoneAssumption DEF Broken, Unlocked
<1>2. CASE Keep
  <2>1. Calls' = [Calls EXCEPT ![c] = Atomic!Called(Calls[c].op, "error")] /\ Inv'
    BY <1>1, <1>2, TellInv DEF Keep, Answers
  <2>2. Atomic!Fail(c)
    BY <1>2, <2>1 DEF Broken, Keep, Pending, Calls, Atomic!Pending, Atomic!Fail, Atomic!Tell
  <2> QED
    BY <2>1, <2>2, PortSteps
<1>3. CASE CanWrite(c) /\ Write(c)
  BY <1>1, <1>3, Alone, WriteStep
<1> QED
  BY <1>2, <1>3 DEF Broken

LEMMA StepsStep ==
  ASSUME Inv, NEW c \in Clients, Steps(c)
  PROVE  Inv' /\ Refines
<1>1. CASE Load(c)
  <2>1. lock # c /\ tx[c].phase # "none"
    BY <1>1 DEF Load, In, Inv, TxOK
  <2> QED
    BY <1>1, <2>1, TakeStep DEF Load
<1>2. CASE Snapshot(c)
  <2>1. lock # c /\ tx[c].phase # "none" /\ UNCHANGED <<backend, data, version, lock>> /\ backend = "d1"
    BY <1>2 DEF Snapshot, In, Inv, TxOK
  <2>2. CASE Accepts(tx[c].op, data)
    BY <1>2, <2>1, <2>2, TakeStep DEF Snapshot
  <2>3. CASE ~Accepts(tx[c].op, data)
    BY <1>2, <2>1, <2>3, RefuseStep DEF Snapshot
  <2> QED
    BY <2>2, <2>3
<1>3. CASE Lock(c)
  <2>1. tx[c].phase # "none" /\ UNCHANGED <<backend, data, version>> /\ lock = None /\ backend = "postgres"
    BY <1>3 DEF Lock, In
  <2>2. CASE Unchanged(c)
    BY <1>3, <2>1, <2>2, TakeStep DEF Lock
  <2>3. CASE ~Unchanged(c)
    BY <1>3, <2>1, <2>3, RetryStep, NoneAssumption DEF Lock
  <2> QED
    BY <2>2, <2>3
<1>4. CASE Save(c)
  <2>1. lock = c /\ lock' = None /\ tx[c].phase # "none" /\ backend' = backend
    BY <1>4 DEF Save, In, Inv, TxOK
  <2>2. lock' # c /\ \A d \in Clients \ {c} : lock' = d <=> lock = d
    BY <2>1, NoneAssumption
  <2>3. CASE Throws(c)
    <3>1. ~Accepts(tx[c].op, data)
      BY <1>4, <2>3 DEF Save, Throws, In, Inv, TxOK
    <3> QED
      BY <1>4, <2>1, <2>2, <2>3, <3>1, RefuseStep DEF Save, Keep
  <2>4. CASE ~Throws(c)
    <3>1. CanWrite(c) /\ Write(c) /\ Tell(c, "ok")
      BY <1>4, <2>4 DEF Save, CanWrite
    <3> QED
      BY <2>1, <2>2, <3>1, Alone, WriteStep
  <2> QED
    BY <2>3, <2>4
<1>5. CASE CompareAndSwap(c)
  <2>1. lock # c /\ tx[c].phase # "none" /\ UNCHANGED <<backend, lock>>
    BY <1>5 DEF CompareAndSwap, In, Inv, TxOK
  <2>2. CASE Unchanged(c)
    <3>1. CanWrite(c) /\ Write(c) /\ Tell(c, "ok")
      BY <1>5, <2>2 DEF CompareAndSwap, CanWrite
    <3> QED
      BY <2>1, <3>1, Alone, WriteStep
  <2>3. CASE ~Unchanged(c)
    BY <1>5, <2>1, <2>3, RetryStep DEF CompareAndSwap, Keep
  <2> QED
    BY <2>2, <2>3
<1> QED
  BY <1>1, <1>2, <1>3, <1>4, <1>5 DEF Steps

\* A step of the adapters keeps the invariant, and is a step of the port or invisible to it.
LEMMA NextStep ==
  ASSUME Inv, [Next]_vars
  PROVE  Inv' /\ Refines
<1>1. CASE UNCHANGED vars
  <2>1. Inv'
    BY <1>1 DEF vars, Inv, TxOK, Transaction, Pending, In, Throws, Unchanged
  <2>2. UNCHANGED Atomic!vars
    BY <1>1 DEF vars, Atomic!vars, Calls
  <2> QED
    BY <2>1, <2>2 DEF Refines
<1>2. CASE Next
  <2>1. PICK c \in Clients : (\E op \in Ops : Ask(c, op)) \/ Steps(c) \/ Broken(c) \/ Leave(c)
    BY <1>2 DEF Next
  <2> QED
    BY <2>1, AskStep, StepsStep, BrokenStep, LeaveStep
<1> QED
  BY <1>1, <1>2

LEMMA InitRefines == Init => Atomic!Init
  BY DEF Init, Idle, Transaction, Calls, Atomic!Init, Atomic!Idle, Atomic!Called

\* The snapshot and lock discipline of both adapters is never broken.
THEOREM StoreInvariant == Spec => []Inv
<1>1. Inv /\ [Next]_vars => Inv'
  BY NextStep
<1> QED
  BY <1>1, InitInv, PTL DEF Spec

\* repository.ts and d1-repository.ts implement the port: every transaction takes effect whole, at
\* one instant and at most once, and its caller is told the truth about it.
THEOREM StoreImplementsPort == Spec => StoreIsAtomic
<1>1. Inv /\ [Next]_vars => [Atomic!Next]_Atomic!vars
  BY NextStep DEF Refines
<1>2. Spec => []Inv
  BY StoreInvariant
<1> QED
  BY <1>1, <1>2, InitRefines, PTL DEF Spec, StoreIsAtomic, Atomic!Spec

-----------------------------------------------------------------------------
(* Part two, the jobs of the night and the webhooks that use the store.      *)

\* The store is used by these jobs: its operations are theirs, on the night's database.
Wired ==
  /\ Ops = Operations /\ Databases = {Fresh}
  /\ \A op, d : Accepts(op, d) = Accepted(op, d) /\ Mutate(op, d) = Mutated(op, d)

-----------------------------------------------------------------------------
(* The invariant. *)

Maybe(S) == S \cup {None}
RentalStates == {"ACTIVE", "OVERDUE", "COMPLETED", "LOST"}
Entries == [status : {"RECEIVED", "PROCESSED", "FAILED", "UNTRUSTED"}, at : Times]
Rows == [state  : [Rentals -> RentalStates],
         closed : [Rentals -> Maybe(Times)],
         notice : [Rentals -> [Kinds -> Maybe(Times)]],
         ledger : [Events -> Maybe(Entries)],
         effect : SUBSET Events]
Notices == [rental : Rentals, kind : Kinds]
RunningJobs == [step  : {"refreshing", "returning", "plan", "plan again", "mailing", "mailing again",
                         "candidates", "losing"},
                does  : Jobs \cup {"return"},
                about : Rentals \cup {None}, at : Times, todo : SUBSET (Notices \cup Rentals)]
StripeDeliveries == [step  : {"look up", "receiving", "applying", "settling", "failing"},
                     does  : {"stripe/webhook"}, about : Events \ Bajie]
Notifications == [step : {"inserting", "reconciling"}, does : {"manufacturer/webhook"}, about : Bajie]

\* A mail was taken by the provider, early enough for a deposit to be due at t.
Warned(r, t) == \E m \in mailed : m.rental = r /\ m.kind = "OVERDUE_WARNING" /\ m.at + Lead <= t
\* A notice is only recorded for a mail that was taken, at its date.
NoticesTrue ==
  \A r \in Rentals, k \in Kinds : NoticeAlreadySent(data, r, k) =>
    [rental |-> r, kind |-> k, at |-> data.notice[r][k]] \in mailed
LossDue(r) == data.closed[r] \in Times /\ data.closed[r] >= Grace /\ Warned(r, data.closed[r])
LossesDue == \A r \in Rentals : data.state[r] = "LOST" => LossDue(r)
\* A processed event of Stripe has had its effect.
ProcessedApplied == \A e \in Events \ Bajie : Duplicate(e) => e \in data.effect
RowsOK == data \in Rows /\ NoticesTrue /\ LossesDue /\ ProcessedApplied

\* What makes a transaction rightful, whenever the store comes to do it.
Justified(op) ==
  /\ op.do = "record" => [rental |-> op.rental, kind |-> op.kind, at |-> op.at] \in mailed
  /\ op.do = "lose" => op.at >= Grace /\ Warned(op.rental, op.at)
  /\ op.do = "settle" => op.event \in Bajie \cup data.effect
AskedOK(c) == Pending(c) => tx[c].op \in Operations /\ Justified(tx[c].op)
\* A job lives within a day; it takes deposits from those warned long enough.
JobOK(c) ==
  /\ run[c] \in RunningJobs
  /\ run[c].at = clock
  /\ run[c].does = "return" => run[c].about \in Rentals
  /\ run[c].step \in {"mailing", "mailing again"} => run[c].todo \subseteq Notices
  /\ run[c].step = "losing" =>
       \A r \in run[c].todo : r \in Rentals /\ run[c].at >= Grace /\ Warned(r, run[c].at)
\* A delivery settles its event once the rows reflect it.
StripeOK(c) ==
  /\ run[c] \in StripeDeliveries
  /\ run[c].step = "applying" /\ Pending(c) => tx[c].op = [do |-> "apply", event |-> run[c].about]
  /\ run[c].step = "applying" /\ tx[c].told = "ok" => run[c].about \in data.effect
  /\ run[c].step = "settling" => run[c].about \in data.effect
RunOK(c) == run[c] = Rest \/ JobOK(c) \/ StripeOK(c) \/ run[c] \in Notifications
ClientsOK == \A c \in Clients : AskedOK(c) /\ RunOK(c)
NightInv ==
  /\ Inv
  /\ clock \in Times
  /\ run = [c \in Clients |-> run[c]]
  /\ RowsOK /\ ClientsOK
  /\ AcknowledgedIsApplied

LEMMA ClockTypes == clock \in Times => clock \in Nat
  BY NightAssumption DEF Times
LEMMA NightTypes == Lead \in Nat /\ Grace \in Nat /\ MaxTime \in Nat /\ Bajie \subseteq Events
  BY NightAssumption

\* It holds at first.
LEMMA NightInitInv == ASSUME Wired, NightInit PROVE NightInv
<1>1. Inv /\ data = Fresh /\ tx = [c \in Clients |-> Idle] /\ run = [c \in Clients |-> Rest] /\ acked = {} /\ clock = 0
  BY InitInv DEF NightInit, Init, Wired
<1>2. RowsOK
  BY <1>1 DEF RowsOK, Rows, Fresh, RentalStates, Maybe, NoticesTrue, NoticeAlreadySent, LossesDue,
     ProcessedApplied, Duplicate
<1>3. ClientsOK
  BY <1>1 DEF ClientsOK, AskedOK, RunOK, Pending, Idle, Transaction
<1>4. clock \in Times
  BY <1>1, NightTypes DEF Times
<1> QED
  BY <1>1, <1>2, <1>3, <1>4 DEF NightInv, AcknowledgedIsApplied

-----------------------------------------------------------------------------
(* What a step leaves alone stays true. *)

\* A step of c: the rest of the requests and transactions are as before, nothing is forgotten.
OthersStand(c) ==
  /\ tx' = [d \in Clients |-> tx'[d]] /\ run' = [d \in Clients |-> run'[d]]
  /\ \A d \in Clients \ {c} : tx'[d] = tx[d] /\ run'[d] = run[d]
  /\ mailed \subseteq mailed' /\ data.effect \subseteq data'.effect
  /\ clock' = clock

LEMMA OtherClients ==
  ASSUME NightInv, NEW c \in Clients, OthersStand(c), NEW d \in Clients \ {c}
  PROVE  (AskedOK(d) /\ RunOK(d))'
<1>1. tx'[d] = tx[d] /\ run'[d] = run[d] /\ AskedOK(d) /\ RunOK(d)
  BY DEF NightInv, ClientsOK, OthersStand
<1>2. \A r, t : Warned(r, t) => Warned(r, t)'
  BY DEF Warned, OthersStand
<1>3. AskedOK(d)'
  BY <1>1, <1>2 DEF AskedOK, Justified, Pending, OthersStand
<1>4. RunOK(d)'
  BY <1>1, <1>2 DEF RunOK, JobOK, StripeOK, Pending, OthersStand
<1> QED
  BY <1>3, <1>4

\* The rows are true while nobody writes them.
LEMMA RowsStand ==
  ASSUME RowsOK, data' = data, mailed \subseteq mailed'
  PROVE  RowsOK'
<1>1. \A r, t : Warned(r, t) => Warned(r, t)'
  BY DEF Warned
<1>2. NoticesTrue' /\ ProcessedApplied'
  BY DEF RowsOK, NoticesTrue, ProcessedApplied, NoticeAlreadySent, Duplicate
<1>3. LossesDue'
  BY <1>1 DEF RowsOK, LossesDue, LossDue
<1> QED
  BY <1>2, <1>3 DEF RowsOK

\* The invariant after a step of c that writes no row.
LEMMA AfterStep ==
  ASSUME NightInv, NEW c \in Clients, OthersStand(c), data' = data, Inv',
         AskedOK(c)', RunOK(c)', AcknowledgedIsApplied'
  PROVE  NightInv'
<1>1. ClientsOK'
  BY OtherClients DEF ClientsOK
<1>2. RowsOK'
  BY RowsStand DEF NightInv, OthersStand
<1> QED
  BY <1>1, <1>2 DEF NightInv, OthersStand

-----------------------------------------------------------------------------
(* The transactions, as the store comes to do them. *)

\* What the store does for c in a step: it writes the rows as asked, or answers no ok.
Moves(c) ==
  /\ tx' = [d \in Clients |-> tx'[d]]
  /\ \A d \in Clients \ {c} : tx'[d] = tx[d]
  /\ Pending(c) /\ tx'[c].op = tx[c].op
  /\ \/ data' = data /\ tx'[c].told # "ok"
     \/ Accepts(tx[c].op, data) /\ data' = Mutate(tx[c].op, data)

LEMMA ToClient ==
  ASSUME Inv, NEW c \in Clients, NEW record, To(c, record)
  PROVE  /\ tx' = [d \in Clients |-> tx'[d]] /\ \A d \in Clients \ {c} : tx'[d] = tx[d]
         /\ tx'[c] = record
  BY DEF Inv, To

LEMMA TellMoves ==
  ASSUME Inv, NEW c \in Clients, NEW answer, Tell(c, answer), Pending(c),
         \/ data' = data /\ answer # "ok"
         \/ Accepts(tx[c].op, data) /\ data' = Mutate(tx[c].op, data)
  PROVE  Moves(c)
<1> DEFINE record == Transaction(tx[c].op, 0, "none", None, 0, answer)
<1>1. To(c, record) /\ record.op = tx[c].op /\ record.told = answer
  BY DEF Tell, Transaction
<1> QED
  BY <1>1, ToClient DEF Moves

LEMMA ToMoves ==
  ASSUME Inv, NEW c \in Clients, NEW record, To(c, record), Pending(c), data' = data,
         record.op = tx[c].op, record.told = "pending"
  PROVE  Moves(c)
  BY ToClient DEF Moves

LEMMA WriteMoves ==
  ASSUME Inv, NEW c \in Clients, NEW answer, Tell(c, answer), CanWrite(c), Write(c)
  PROVE  Moves(c)
<1>1. Pending(c) /\ tx[c].before = data /\ ~Throws(c)
  BY DEF CanWrite, In, Inv, TxOK
<1> QED
  BY <1>1, TellMoves DEF Write, Throws

LEMMA RetryMoves ==
  ASSUME Inv, NEW c \in Clients, Retry(c), Pending(c), data' = data
  PROVE  Moves(c)
<1>1. CASE tx[c].attempt < Attempts
  <2> DEFINE record == Transaction(tx[c].op, tx[c].attempt + 1, "asked", None, 0, "pending")
  <2>1. To(c, record) /\ record.op = tx[c].op /\ record.told = "pending"
    BY <1>1 DEF Retry, Asked, Transaction
  <2> QED
    BY <2>1, ToMoves
<1>2. CASE ~(tx[c].attempt < Attempts)
  BY <1>2, TellMoves DEF Retry
<1> QED
  BY <1>1, <1>2

LEMMA TakeMoves ==
  ASSUME Inv, NEW c \in Clients, NEW phase, To(c, Taken(c, phase)), Pending(c), data' = data
  PROVE  Moves(c)
<1>1. Taken(c, phase).op = tx[c].op /\ Taken(c, phase).told = "pending"
  BY DEF Taken, Transaction
<1> QED
  BY <1>1, ToMoves

LEMMA StoreMoves ==
  ASSUME Inv, NEW c \in Clients, Steps(c) \/ Broken(c)
  PROVE  Moves(c)
<1>1. Pending(c)
  BY DEF Steps, Load, Snapshot, Lock, Save, CompareAndSwap, Broken, In, Inv, TxOK
<1>2. CASE Load(c)
  BY <1>1, <1>2, TakeMoves DEF Load
<1>3. CASE Snapshot(c)
  BY <1>1, <1>3, TakeMoves, TellMoves DEF Snapshot
<1>4. CASE Lock(c)
  BY <1>1, <1>4, TakeMoves, RetryMoves DEF Lock
<1>5. CASE Save(c)
  BY <1>1, <1>5, TellMoves, WriteMoves DEF Save, Keep, CanWrite
<1>6. CASE CompareAndSwap(c)
  BY <1>1, <1>6, WriteMoves, RetryMoves DEF CompareAndSwap, Keep, CanWrite
<1>7. CASE Broken(c)
  BY <1>1, <1>7, TellMoves, WriteMoves DEF Broken, Keep
<1> QED
  BY <1>2, <1>3, <1>4, <1>5, <1>6, <1>7 DEF Steps

-----------------------------------------------------------------------------
(* What each callback leaves of the rows. *)

\* A transaction that leaves the rentals alone, and processes no event before its effect.
LEMMA LedgerWritten ==
  ASSUME RowsOK, data' \in Rows, mailed \subseteq mailed',
         data'.state = data.state, data'.closed = data.closed, data'.notice = data.notice, ProcessedApplied'
  PROVE  RowsOK'
<1>1. \A r, t : Warned(r, t) => Warned(r, t)'
  BY DEF Warned
<1>2. NoticesTrue'
  BY DEF RowsOK, NoticesTrue, NoticeAlreadySent
<1>3. LossesDue'
  BY <1>1 DEF RowsOK, LossesDue, LossDue
<1> QED
  BY <1>2, <1>3 DEF RowsOK

\* A transaction that leaves notices and events alone, and loses no deposit that is not due.
LEMMA RentalWritten ==
  ASSUME RowsOK, data' \in Rows, mailed \subseteq mailed',
         data'.ledger = data.ledger, data'.effect = data.effect, data'.notice = data.notice, LossesDue'
  PROVE  RowsOK'
  BY DEF RowsOK, NoticesTrue, NoticeAlreadySent, ProcessedApplied, Duplicate

LEMMA RefreshRows ==
  ASSUME RowsOK, NEW now \in Times, mailed \subseteq mailed',
         data' = RefreshOverdue(data, now) \/ data' = Swept(data, now)
  PROVE  RowsOK' /\ data'.effect = data.effect
<1>1. data \in Rows
  BY DEF RowsOK
<1>2. data'.closed = data.closed /\ data'.notice = data.notice /\ data'.effect = data.effect
      /\ data'.ledger \in {data.ledger, Purged(data, now)}
      /\ data'.state = [r \in Rentals |-> IF data.state[r] = "ACTIVE" /\ now > 0 THEN "OVERDUE" ELSE data.state[r]]
  <2>1. RefreshOverdue(data, now).ledger = data.ledger /\ RefreshOverdue(data, now).closed = data.closed
        /\ RefreshOverdue(data, now).notice = data.notice /\ RefreshOverdue(data, now).effect = data.effect
        /\ RefreshOverdue(data, now).state =
             [r \in Rentals |-> IF data.state[r] = "ACTIVE" /\ now > 0 THEN "OVERDUE" ELSE data.state[r]]
    BY <1>1 DEF RefreshOverdue, Rows
  <2>2. RefreshOverdue(data, now) \in [DOMAIN data -> {RefreshOverdue(data, now)[f] : f \in DOMAIN data}]
        /\ "ledger" \in DOMAIN data
    BY <1>1 DEF RefreshOverdue, Rows
  <2> QED
    BY <1>1, <2>1, <2>2 DEF Swept, Rows
<1>3. Purged(data, now) \in [Events -> Maybe(Entries)]
  BY <1>1 DEF Purged, Rows, Maybe
<1>4. data'.state \in [Rentals -> RentalStates] /\ \A r \in Rentals : data'.state[r] = "LOST" => data.state[r] = "LOST"
  BY <1>1, <1>2 DEF Rows, RentalStates
<1>5. data' \in Rows
  BY <1>1, <1>2, <1>3, <1>4 DEF RefreshOverdue, Swept, Rows
<1>6. \A r, t : Warned(r, t) => Warned(r, t)'
  BY DEF Warned
<1>7. LossesDue'
  BY <1>2, <1>4, <1>6 DEF RowsOK, LossesDue, LossDue
<1>8. NoticesTrue'
  BY <1>2 DEF RowsOK, NoticesTrue, NoticeAlreadySent
<1>9. ProcessedApplied'
  BY <1>2 DEF RowsOK, ProcessedApplied, Duplicate, Purged
<1> QED
  BY <1>2, <1>5, <1>7, <1>8, <1>9 DEF RowsOK

LEMMA ClosedRows ==
  ASSUME RowsOK, NEW r \in Rentals, NEW now \in Times, NEW state \in {"COMPLETED", "LOST"},
         data' = Closed(data, r, state, now), mailed' = mailed,
         state = "LOST" => now >= Grace /\ Warned(r, now)
  PROVE  RowsOK' /\ data'.effect = data.effect
<1>1. data \in Rows
  BY DEF RowsOK
<1>2. /\ data'.notice = data.notice /\ data'.effect = data.effect /\ data'.ledger = data.ledger
      /\ data'.state = [data.state EXCEPT ![r] = state] /\ data'.closed = [data.closed EXCEPT ![r] = now]
  BY <1>1 DEF Closed, Rows
<1>3. data' \in Rows
  BY <1>1 DEF Closed, Rows, RentalStates, Maybe
<1>4. LossesDue'
  BY <1>1, <1>2 DEF RowsOK, LossesDue, LossDue, Warned, Rows
<1> QED
  BY <1>2, <1>3, <1>4, RentalWritten

LEMMA RecordedRows ==
  ASSUME RowsOK, NEW r \in Rentals, NEW kind \in Kinds, NEW now \in Times,
         data' = Recorded(data, r, kind, now), mailed' = mailed,
         [rental |-> r, kind |-> kind, at |-> now] \in mailed
  PROVE  RowsOK' /\ data'.effect = data.effect
<1>1. data \in Rows
  BY DEF RowsOK
<1>2. CASE NoticeAlreadySent(data, r, kind)
  BY <1>2, RowsStand DEF Recorded
<1>3. CASE ~NoticeAlreadySent(data, r, kind)
  <2>1. data' = [data EXCEPT !.notice[r][kind] = now]
    BY <1>3 DEF Recorded
  <2>2. /\ data'.closed = data.closed /\ data'.state = data.state
        /\ data'.effect = data.effect /\ data'.ledger = data.ledger
    BY <1>1, <2>1 DEF Rows
  <2>3. data'.notice = [data.notice EXCEPT ![r][kind] = now]
    BY <1>1, <2>1 DEF Rows
  <2>4. data' \in Rows
    <3> DEFINE sent == [data.notice[r] EXCEPT ![kind] = now]
    <3>1. sent \in [Kinds -> Maybe(Times)]
      BY <1>1 DEF Rows, Maybe
    <3>2. data' = [data EXCEPT !.notice = [data.notice EXCEPT ![r] = sent]]
      BY <1>1, <2>1 DEF Rows
    <3> HIDE DEF sent
    <3>3. [data.notice EXCEPT ![r] = sent] \in [Rentals -> [Kinds -> Maybe(Times)]]
      BY <1>1, <3>1 DEF Rows
    <3> QED
      BY <1>1, <3>2, <3>3 DEF Rows
  <2>5. NoticesTrue'
    BY <1>1, <2>3 DEF RowsOK, NoticesTrue, NoticeAlreadySent, Rows
  <2>6. LossesDue' /\ ProcessedApplied'
    BY <2>2 DEF RowsOK, LossesDue, LossDue, Warned, ProcessedApplied, Duplicate
  <2> QED
    BY <2>2, <2>4, <2>5, <2>6 DEF RowsOK
<1> QED
  BY <1>2, <1>3

\* An entry of the ledger is made or marked; a processed one only for an event that is applied.
LEMMA EntryRows ==
  ASSUME RowsOK, NEW e \in Events, NEW entry \in Entries, data' = [data EXCEPT !.ledger[e] = entry],
         mailed' = mailed, entry.status = "PROCESSED" => e \in Bajie \cup data.effect
  PROVE  RowsOK' /\ data'.effect = data.effect
<1>1. data \in Rows
  BY DEF RowsOK
<1>2. /\ data'.closed = data.closed /\ data'.state = data.state /\ data'.notice = data.notice
      /\ data'.effect = data.effect /\ data'.ledger = [data.ledger EXCEPT ![e] = entry]
  BY <1>1 DEF Rows
<1>3. data' \in Rows
  BY <1>1 DEF Rows, Maybe
<1>4. ProcessedApplied'
  BY <1>1, <1>2 DEF RowsOK, ProcessedApplied, Duplicate, Rows
<1> QED
  BY <1>2, <1>3, <1>4, LedgerWritten

LEMMA MarkedRows ==
  ASSUME RowsOK, NEW e \in Events, NEW status \in {"PROCESSED", "FAILED"}, data' = Marked(data, e, status),
         mailed' = mailed, status = "PROCESSED" => e \in Bajie \cup data.effect
  PROVE  RowsOK' /\ data'.effect = data.effect
<1>1. data \in Rows
  BY DEF RowsOK
<1>2. CASE data.ledger[e] = None
  BY <1>2, RowsStand DEF Marked
<1>3. CASE data.ledger[e] # None
  <2> DEFINE entry == [data.ledger[e] EXCEPT !.status = status]
  <2>1. entry \in Entries /\ entry.status = status
    BY <1>1, <1>3 DEF Rows, Maybe, Entries
  <2>2. data' = [data EXCEPT !.ledger[e] = entry]
    BY <1>1, <1>3 DEF Marked, Rows
  <2> QED
    BY <2>1, <2>2, EntryRows
<1> QED
  BY <1>2, <1>3

LEMMA NotedRows ==
  ASSUME RowsOK, NEW e \in Events, NEW now \in Times, data' = Noted(data, e, now), mailed' = mailed
  PROVE  RowsOK' /\ data'.effect = data.effect
<1>1. data \in Rows
  BY DEF RowsOK
<1> DEFINE entry == IF data.ledger[e] = None THEN Entry("RECEIVED", now)
                    ELSE [data.ledger[e] EXCEPT !.status = "RECEIVED"]
<1>2. entry \in Entries /\ entry.status = "RECEIVED"
  BY <1>1 DEF Rows, Maybe, Entries, Entry
<1>3. data' = [data EXCEPT !.ledger[e] = entry]
  <2>1. CASE data.ledger[e] = None
    BY <1>1, <2>1 DEF Noted, Rows
  <2>2. CASE data.ledger[e] # None
    BY <1>1, <2>2 DEF Noted, Rows
  <2> QED
    BY <2>1, <2>2
<1> QED
  BY <1>2, <1>3, EntryRows

LEMMA AppliedRows ==
  ASSUME RowsOK, NEW e \in Events, data' = [data EXCEPT !.effect = @ \cup {e}], mailed' = mailed
  PROVE  RowsOK' /\ data'.effect = data.effect \cup {e}
<1>1. data \in Rows
  BY DEF RowsOK
<1>2. /\ data'.closed = data.closed /\ data'.state = data.state /\ data'.notice = data.notice
      /\ data'.effect = data.effect \cup {e} /\ data'.ledger = data.ledger
  BY <1>1 DEF Rows
<1>3. data' \in Rows
  BY <1>1 DEF Rows
<1>4. ProcessedApplied'
  BY <1>2 DEF RowsOK, ProcessedApplied, Duplicate
<1> QED
  BY <1>2, <1>3, <1>4, LedgerWritten

LEMMA MutatedRows ==
  ASSUME RowsOK, NEW op \in Operations, Justified(op), Accepted(op, data), data' = Mutated(op, data), mailed' = mailed
  PROVE  /\ RowsOK' /\ data.effect \subseteq data'.effect
         /\ op.do = "apply" => op.event \in data'.effect
<1>1. CASE op.do \in {"refresh", "sweep"}
  <2>1. op.at \in Times /\ (data' = RefreshOverdue(data, op.at) \/ data' = Swept(data, op.at))
    BY <1>1 DEF Operations, Mutated
  <2> QED
    BY <1>1, <2>1, RefreshRows
<1>2. CASE op.do = "lose"
  <2>1. op.at \in Times /\ op.rental \in Rentals /\ op.at >= Grace /\ Warned(op.rental, op.at)
    BY <1>2 DEF Operations, Justified
  <2>2. data' = data \/ data' = Closed(data, op.rental, "LOST", op.at)
    BY <1>2 DEF Mutated
  <2> QED
    BY <1>2, <2>1, <2>2, RowsStand, ClosedRows
<1>3. CASE op.do = "return"
  <2>1. op.at \in Times /\ op.rental \in Rentals /\ data' = Closed(data, op.rental, "COMPLETED", op.at)
    BY <1>3 DEF Operations, Mutated
  <2> QED
    BY <1>3, <2>1, ClosedRows
<1>4. CASE op.do = "record"
  <2>1. op.at \in Times /\ op.rental \in Rentals /\ op.kind \in Kinds
    BY <1>4 DEF Operations
  <2>2. data' = Recorded(data, op.rental, op.kind, op.at)
    BY <1>4 DEF Mutated
  <2> QED
    BY <1>4, <2>1, <2>2, RecordedRows DEF Justified
<1>5. CASE op.do = "receive"
  <2>1. op.at \in Times /\ op.event \in Events /\ data' = Noted(data, op.event, op.at)
    BY <1>5 DEF Operations, Mutated
  <2> QED
    BY <1>5, <2>1, NotedRows
<1>6. CASE op.do = "insert"
  <2>1. op.at \in Times /\ op.event \in Events /\ data' = [data EXCEPT !.ledger[op.event] = Entry("UNTRUSTED", op.at)]
    BY <1>6 DEF Operations, Mutated
  <2>2. Entry("UNTRUSTED", op.at) \in Entries /\ Entry("UNTRUSTED", op.at).status = "UNTRUSTED"
    BY <2>1 DEF Entry, Entries
  <2> QED
    BY <1>6, <2>1, <2>2, EntryRows
<1>7. CASE op.do = "apply"
  <2>1. op.event \in Events /\ data' = [data EXCEPT !.effect = @ \cup {op.event}]
    BY <1>7 DEF Operations, Mutated
  <2> QED
    BY <2>1, AppliedRows
<1>8. CASE op.do = "settle"
  <2>1. op.event \in Events /\ data' = Marked(data, op.event, "PROCESSED")
    BY <1>8 DEF Operations, Mutated
  <2> QED
    BY <1>8, <2>1, MarkedRows DEF Justified
<1>9. CASE op.do = "fail"
  <2>1. op.event \in Events /\ data' = Marked(data, op.event, "FAILED")
    BY <1>9 DEF Operations, Mutated
  <2> QED
    BY <1>9, <2>1, MarkedRows
<1>10. op.do \in {"refresh", "sweep", "lose", "return", "record", "receive", "insert", "apply", "settle", "fail"}
  BY DEF Operations
<1> QED
  BY <1>1, <1>2, <1>3, <1>4, <1>5, <1>6, <1>7, <1>8, <1>9, <1>10

\* The store does what c asked for, or breaks off, while every request waits.
LEMMA StoreStep ==
  ASSUME Wired, NightInv, NEW c \in Clients, Steps(c) \/ Broken(c), UNCHANGED <<clock, run, mailed, acked>>
  PROVE  NightInv'
<1>1. Moves(c) /\ AskedOK(c) /\ RunOK(c)
  BY StoreMoves DEF NightInv, ClientsOK
<1>2. Inv'
  BY StepsStep, BrokenStep DEF NightInv
<1>3. tx[c].op \in Operations /\ Justified(tx[c].op)
  BY <1>1 DEF Moves, AskedOK
<1>4. CASE data' = data /\ tx'[c].told # "ok"
  <2>1. AskedOK(c)'
    BY <1>1, <1>3, <1>4 DEF Moves, AskedOK, Justified, Warned
  <2>2. RunOK(c)'
    BY <1>1, <1>4 DEF Moves, RunOK, JobOK, StripeOK, Warned, Pending
  <2>3. OthersStand(c)
    BY <1>1, <1>4 DEF Moves, OthersStand, NightInv
  <2> QED
    BY <1>2, <1>4, <2>1, <2>2, <2>3, AfterStep DEF NightInv, AcknowledgedIsApplied
<1>5. CASE Accepts(tx[c].op, data) /\ data' = Mutate(tx[c].op, data)
  <2>1. Accepted(tx[c].op, data) /\ data' = Mutated(tx[c].op, data)
    BY <1>5 DEF Wired
  <2>2. /\ RowsOK' /\ data.effect \subseteq data'.effect
        /\ tx[c].op.do = "apply" => tx[c].op.event \in data'.effect
    BY <1>3, <2>1, MutatedRows DEF NightInv
  <2>3. AskedOK(c)'
    BY <1>1, <1>3, <2>2 DEF Moves, AskedOK, Justified, Warned
  <2>4. RunOK(c)'
    <3>1. CASE run[c] = Rest \/ run[c] \in Notifications
      BY <3>1 DEF RunOK
    <3>2. CASE JobOK(c)
      BY <3>2 DEF RunOK, JobOK, Warned
    <3>3. CASE StripeOK(c)
      BY <1>1, <2>2, <3>3 DEF Moves, RunOK, StripeOK, Pending
    <3> QED
      BY <1>1, <3>1, <3>2, <3>3 DEF RunOK
  <2>5. OthersStand(c)
    BY <1>1, <2>2 DEF Moves, OthersStand, NightInv
  <2>6. ClientsOK'
    BY <2>3, <2>4, <2>5, OtherClients DEF ClientsOK
  <2> QED
    BY <1>2, <2>2, <2>6 DEF NightInv, AcknowledgedIsApplied
<1> QED
  BY <1>1, <1>4, <1>5 DEF Moves

-----------------------------------------------------------------------------
(* The steps of a request: it asks the store, takes its answer, or goes on without. *)

\* What a step that changes the request of c only leaves of the others.
LEMMA RunsOthers ==
  ASSUME NightInv, NEW c \in Clients, NEW request, run' = [run EXCEPT ![c] = request]
  PROVE  /\ run' = [d \in Clients |-> run'[d]] /\ \A d \in Clients \ {c} : run'[d] = run[d]
         /\ run'[c] = request
  BY DEF NightInv

LEMMA OpAsked ==
  ASSUME Wired, NightInv, NEW c \in Clients, NEW op \in Operations, Ask(c, op)
  PROVE  /\ Inv' /\ data' = data
         /\ tx' = [d \in Clients |-> tx'[d]] /\ \A d \in Clients \ {c} : tx'[d] = tx[d]
         /\ tx'[c].op = op /\ tx'[c].told = "pending" /\ Pending(c)'
<1> DEFINE record == Transaction(op, 1, "asked", None, 0, "pending")
<1>1. To(c, record) /\ data' = data /\ record.op = op /\ record.told = "pending"
  BY DEF Ask, Asked, Transaction
<1>2. Inv'
  BY AskStep DEF Wired, NightInv
<1> QED
  BY <1>1, <1>2, ToClient DEF NightInv, Pending

LEMMA OpLeft ==
  ASSUME NightInv, NEW c \in Clients, Leave(c)
  PROVE  /\ Inv' /\ data' = data
         /\ tx' = [d \in Clients |-> tx'[d]] /\ \A d \in Clients \ {c} : tx'[d] = tx[d]
         /\ tx'[c].told = "idle" /\ ~Pending(c)'
<1>1. To(c, Idle) /\ data' = data /\ Idle.told = "idle"
  BY DEF Leave, Idle, Transaction
<1>2. Inv'
  BY LeaveStep DEF NightInv
<1> QED
  BY <1>1, <1>2, ToClient DEF NightInv, Pending

\* A request asks for a rightful transaction.
LEMMA AskingStep ==
  ASSUME Wired, NightInv, NEW c \in Clients, NEW op \in Operations, Ask(c, op),
         NEW request, run' = [run EXCEPT ![c] = request],
         clock' = clock, mailed \subseteq mailed', Justified(op)', RunOK(c)', AcknowledgedIsApplied'
  PROVE  NightInv'
<1>1. AskedOK(c)'
  BY OpAsked DEF AskedOK
<1>2. OthersStand(c)
  BY OpAsked, RunsOthers DEF OthersStand
<1> QED
  BY <1>1, <1>2, OpAsked, AfterStep

\* A request takes its answer, or dies.
LEMMA LeavingStep ==
  ASSUME NightInv, NEW c \in Clients, Leave(c), NEW request, run' = [run EXCEPT ![c] = request],
         clock' = clock, mailed \subseteq mailed', RunOK(c)', AcknowledgedIsApplied'
  PROVE  NightInv'
<1>1. AskedOK(c)'
  BY OpLeft DEF AskedOK
<1>2. OthersStand(c)
  BY OpLeft, RunsOthers DEF OthersStand
<1> QED
  BY <1>1, <1>2, OpLeft, AfterStep

\* A request reads, or begins, without a transaction.
LEMMA QuietStep ==
  ASSUME NightInv, NEW c \in Clients, UNCHANGED vars, NEW request, run' = [run EXCEPT ![c] = request],
         clock' = clock, mailed \subseteq mailed', RunOK(c)', AcknowledgedIsApplied'
  PROVE  NightInv'
<1>1. UNCHANGED <<data, tx>>
  BY DEF vars
<1>2. tx = [d \in Clients |-> tx[d]] /\ AskedOK(c)
  BY DEF NightInv, Inv, ClientsOK
<1>3. AskedOK(c)'
  BY <1>1, <1>2 DEF AskedOK, Justified, Pending, Warned
<1>4. OthersStand(c)
  BY <1>1, <1>2, RunsOthers DEF OthersStand
<1>5. Inv'
  BY NextStep DEF NightInv
<1> QED
  BY <1>1, <1>3, <1>4, <1>5, AfterStep

LEMMA RestIsOK ==
  ASSUME NightInv, NEW c \in Clients, Ends(c)
  PROVE  RunOK(c)' /\ run' = [run EXCEPT ![c] = Rest]
  BY RunsOthers DEF Ends, RunOK

LEMMA EndingStep ==
  ASSUME NightInv, NEW c \in Clients, Ends(c), Leave(c) \/ UNCHANGED vars, clock' = clock,
         mailed \subseteq mailed', AcknowledgedIsApplied'
  PROVE  NightInv'
  BY RestIsOK, LeavingStep, QuietStep

LEMMA Standing ==
  ASSUME NightInv, UNCHANGED <<data, acked>>
  PROVE  AcknowledgedIsApplied'
  BY DEF NightInv, AcknowledgedIsApplied

\* Which record a request is, by its step.
LEMMA StepsOf ==
  ASSUME NightInv, NEW c \in Clients
  PROVE  /\ RunOK(c)
         /\ run[c] = Rest => run[c].step = "rest"
         /\ JobOK(c) => run[c].step \in {"refreshing", "returning", "plan", "plan again", "mailing",
                                        "mailing again", "candidates", "losing"}
         /\ StripeOK(c) => run[c].step \in {"look up", "receiving", "applying", "settling", "failing"}
         /\ run[c] \in Notifications => run[c].step \in {"inserting", "reconciling"}
<1>1. RunOK(c)
  BY DEF NightInv, ClientsOK
<1>2. run[c] = Rest => run[c].step = "rest"
  BY DEF Rest
<1>3. JobOK(c) => run[c].step \in {"refreshing", "returning", "plan", "plan again", "mailing",
                                  "mailing again", "candidates", "losing"}
  BY DEF JobOK, RunningJobs
<1>4. StripeOK(c) => run[c].step \in {"look up", "receiving", "applying", "settling", "failing"}
  BY DEF StripeOK, StripeDeliveries
<1>5. run[c] \in Notifications => run[c].step \in {"inserting", "reconciling"}
  BY DEF Notifications
<1> QED
  BY <1>1, <1>2, <1>3, <1>4, <1>5

LEMMA JobStep ==
  ASSUME NightInv, NEW c \in Clients,
         run[c].step \in {"refreshing", "returning", "plan", "plan again", "mailing", "mailing again",
                          "candidates", "losing"}
  PROVE  JobOK(c)
  BY StepsOf DEF RunOK

LEMMA StripeStep ==
  ASSUME NightInv, NEW c \in Clients,
         run[c].step \in {"look up", "receiving", "applying", "settling", "failing"}
  PROVE  StripeOK(c)
  BY StepsOf DEF RunOK

LEMMA CabinetStep ==
  ASSUME NightInv, NEW c \in Clients, run[c].step \in {"inserting", "reconciling"}
  PROVE  run[c] \in Notifications
  BY StepsOf DEF RunOK

\* A job goes to a step whose list it has not made yet.
LEMMA JobGoes ==
  ASSUME NightInv, NEW c \in Clients, JobOK(c), NEW step \in {"plan", "plan again", "candidates"},
         Goes(c, step), clock' = clock
  PROVE  RunOK(c)' /\ run' = [run EXCEPT ![c] = [run[c] EXCEPT !.step = step]]
<1> DEFINE request == [run[c] EXCEPT !.step = step]
<1>1. run' = [run EXCEPT ![c] = request]
  BY DEF Goes, NightInv
<1>2. run'[c] = request
  BY <1>1, RunsOthers
<1>3. request \in RunningJobs /\ request.step = step /\ request.at = run[c].at
      /\ request.does = run[c].does /\ request.about = run[c].about
  BY DEF JobOK, RunningJobs
<1>4. JobOK(c)'
  BY <1>2, <1>3 DEF JobOK
<1> QED
  BY <1>1, <1>4 DEF RunOK

-----------------------------------------------------------------------------
(* The jobs. *)

LEMMA StartJobStep ==
  ASSUME Wired, NightInv, NEW c \in Clients, StartJob(c)
  PROVE  NightInv'
<1>1. PICK job \in Jobs : Start(c, Job("refreshing", job, None),
                              [do |-> IF job = "cron" THEN "sweep" ELSE "refresh", at |-> clock])
  BY DEF StartJob
<1> PICK request : request = Job("refreshing", job, None)
  OBVIOUS
<1> PICK op : op = [do |-> IF job = "cron" THEN "sweep" ELSE "refresh", at |-> clock]
  OBVIOUS
<1>2. run' = [run EXCEPT ![c] = request] /\ Ask(c, op) /\ UNCHANGED <<clock, mailed, acked>>
  BY <1>1 DEF Start, Begins
<1>3. op \in Operations /\ Justified(op)'
  BY DEF NightInv, Operations, Justified
<1>4. run'[c] = request
  BY <1>2, RunsOthers
<1>5. /\ request \in RunningJobs /\ request.at = clock /\ request.does = job /\ request.step = "refreshing"
  BY DEF Job, RunningJobs, NightInv
<1>6. RunOK(c)'
  BY <1>2, <1>4, <1>5 DEF RunOK, JobOK, Jobs
<1>7. AcknowledgedIsApplied'
  BY <1>2, <1>3, OpAsked, Standing
<1> QED
  BY <1>2, <1>3, <1>6, <1>7, AskingStep

LEMMA StartReturnStep ==
  ASSUME Wired, NightInv, NEW c \in Clients, StartReturn(c)
  PROVE  NightInv'
<1>1. PICK r \in Rentals : Start(c, Job("returning", "return", r), [do |-> "return", rental |-> r, at |-> clock])
  BY DEF StartReturn
<1> PICK request : request = Job("returning", "return", r)
  OBVIOUS
<1> PICK op : op = [do |-> "return", rental |-> r, at |-> clock]
  OBVIOUS
<1>2. run' = [run EXCEPT ![c] = request] /\ Ask(c, op) /\ UNCHANGED <<clock, mailed, acked>>
  BY <1>1 DEF Start, Begins
<1>3. op \in Operations /\ Justified(op)'
  BY DEF NightInv, Operations, Justified
<1>4. run'[c] = request
  BY <1>2, RunsOthers
<1>5. /\ request \in RunningJobs /\ request.at = clock /\ request.about = r /\ request.step = "returning"
  BY DEF Job, RunningJobs, NightInv
<1>6. RunOK(c)'
  BY <1>2, <1>4, <1>5 DEF RunOK, JobOK
<1>7. AcknowledgedIsApplied'
  BY <1>2, <1>3, OpAsked, Standing
<1> QED
  BY <1>2, <1>3, <1>6, <1>7, AskingStep

\* A job goes on with the answer it has, or ends.
LEMMA GoesOrEnds ==
  ASSUME NightInv, NEW c \in Clients, JobOK(c), NEW step \in {"plan", "plan again", "candidates"},
         Goes(c, step) \/ Ends(c), Takes(c), Outside
  PROVE  NightInv'
<1>1. Leave(c) /\ UNCHANGED <<clock, mailed, acked>>
  BY DEF Takes, Outside
<1>2. AcknowledgedIsApplied'
  BY <1>1, OpLeft, Standing
<1>3. CASE Goes(c, step)
  <2>1. RunOK(c)' /\ run' = [run EXCEPT ![c] = [run[c] EXCEPT !.step = step]]
    BY <1>1, <1>3, JobGoes
  <2> QED
    BY <1>1, <1>2, <2>1, LeavingStep
<1>4. CASE Ends(c)
  BY <1>1, <1>2, <1>4, EndingStep
<1> QED
  BY <1>3, <1>4

LEMMA RefreshedStep ==
  ASSUME NightInv, NEW c \in Clients, Refreshed(c)
  PROVE  NightInv'
<1>1. JobOK(c)
  BY JobStep DEF Refreshed, Answered, At
<1>2. Goes(c, "plan") \/ Goes(c, "candidates") \/ Ends(c)
  BY DEF Refreshed
<1> QED
  BY <1>1, <1>2, GoesOrEnds DEF Refreshed

LEMMA ReturnedStep ==
  ASSUME NightInv, NEW c \in Clients, Returned(c)
  PROVE  NightInv'
<1>1. JobOK(c)
  BY JobStep DEF Returned, Answered, At
<1> QED
  BY <1>1, GoesOrEnds DEF Returned

LEMMA NoticesDoneStep ==
  ASSUME NightInv, NEW c \in Clients, NoticesDone(c)
  PROVE  NightInv'
<1>1. JobOK(c)
  BY JobStep DEF NoticesDone, Mailing
<1> QED
  BY <1>1, GoesOrEnds DEF NoticesDone

LEMMA LossesDoneStep ==
  ASSUME NightInv, NEW c \in Clients, LossesDone(c)
  PROVE  NightInv'
<1>1. JobOK(c)
  BY JobStep DEF LossesDone, Answered, At
<1> QED
  BY <1>1, GoesOrEnds DEF LossesDone

\* A plan only names notices of the rentals it looks at.
LEMMA PlannedNotices ==
  ASSUME NEW d, NEW only \in SUBSET Rentals
  PROVE  PlanCustomerNotices(d, only) \subseteq Notices
<1>1. ASSUME NEW r \in Rentals PROVE Due(d, r) \subseteq Notices
  BY DEF Due, Notices, Kinds
<1> QED
  BY <1>1 DEF PlanCustomerNotices

LEMMA PlanStep ==
  ASSUME NightInv, NEW c \in Clients, Plan(c)
  PROVE  NightInv'
<1>1. JobOK(c) /\ UNCHANGED vars /\ UNCHANGED <<clock, mailed, acked>>
  BY JobStep DEF Plan, Outside
<1> DEFINE only == IF Does(c, "return") THEN {run[c].about} ELSE Rentals
           step == IF run[c].step = "plan" THEN "mailing" ELSE "mailing again"
           todo == PlanCustomerNotices(data, only)
<1> PICK request : request = [run[c] EXCEPT !.step = step, !.todo = todo]
  OBVIOUS
<1>2. todo \subseteq Notices
  BY <1>1, PlannedNotices DEF JobOK, Does
<1>3. run' = [run EXCEPT ![c] = request]
  BY DEF Plan, NightInv
<1> HIDE DEF todo
<1>4. run'[c] = request
  BY <1>3, RunsOthers
<1>5. request \in RunningJobs /\ request.step = step /\ request.at = run[c].at /\ request.todo = todo
      /\ request.does = run[c].does /\ request.about = run[c].about
  BY <1>1, <1>2 DEF JobOK, RunningJobs
<1>6. RunOK(c)'
  <2>1. run'[c] \in RunningJobs /\ run'[c].at = clock' /\ run'[c].step \in {"mailing", "mailing again"}
        /\ run'[c].todo \subseteq Notices /\ (run'[c].does = "return" => run'[c].about \in Rentals)
    BY <1>1, <1>2, <1>4, <1>5 DEF JobOK
  <2> QED
    BY <2>1 DEF RunOK, JobOK
<1>7. AcknowledgedIsApplied'
  BY <1>1, Standing DEF vars
<1> QED
  BY <1>1, <1>3, <1>6, <1>7, QuietStep

\* What is left of the list of a job is as good as the list.
LEMMA WithoutStep ==
  ASSUME NightInv, NEW c \in Clients, JobOK(c), NEW x, Without(c, x), clock' = clock, mailed \subseteq mailed'
  PROVE  RunOK(c)' /\ run' = [run EXCEPT ![c] = [run[c] EXCEPT !.todo = run[c].todo \ {x}]]
<1> DEFINE request == [run[c] EXCEPT !.todo = run[c].todo \ {x}]
<1>1. run' = [run EXCEPT ![c] = request]
  BY DEF Without, NightInv
<1>2. run'[c] = request
  BY <1>1, RunsOthers
<1>3. request \in RunningJobs /\ request.step = run[c].step /\ request.at = run[c].at
      /\ request.todo = run[c].todo \ {x} /\ request.does = run[c].does /\ request.about = run[c].about
  BY DEF JobOK, RunningJobs
<1>4. \A r, t : Warned(r, t) => Warned(r, t)'
  BY DEF Warned
<1>5. JobOK(c)'
  BY <1>2, <1>3, <1>4 DEF JobOK
<1> QED
  BY <1>1, <1>5 DEF RunOK

LEMMA SendNoticeStep ==
  ASSUME Wired, NightInv, NEW c \in Clients, SendNotice(c)
  PROVE  NightInv'
<1>1. PICK n \in run[c].todo :
        /\ Sent(n) /\ Without(c, n)
        /\ Ask(c, [do |-> "record", rental |-> n.rental, kind |-> n.kind, at |-> run[c].at])
  BY DEF SendNotice
<1>2. JobOK(c) /\ UNCHANGED <<clock, acked>>
  BY JobStep DEF SendNotice, Mailing
<1> PICK op : op = [do |-> "record", rental |-> n.rental, kind |-> n.kind, at |-> run[c].at]
  OBVIOUS
<1>3. n \in Notices /\ run[c].at = clock
  BY <1>2 DEF SendNotice, Mailing, JobOK
<1>4. op \in Operations
  BY <1>3 DEF Notices, Operations, NightInv
<1>5. mailed \subseteq mailed' /\ [rental |-> n.rental, kind |-> n.kind, at |-> clock] \in mailed'
  BY <1>1 DEF Sent
<1>6. Justified(op)'
  BY <1>3, <1>5, <1>2 DEF Justified
<1>7. RunOK(c)' /\ run' = [run EXCEPT ![c] = [run[c] EXCEPT !.todo = run[c].todo \ {n}]]
  BY <1>1, <1>2, <1>5, WithoutStep
<1>8. Ask(c, op)
  BY <1>1
<1>9. AcknowledgedIsApplied'
  BY <1>2, <1>4, <1>8, OpAsked, Standing
<1> QED
  BY <1>2, <1>4, <1>5, <1>6, <1>7, <1>8, <1>9, AskingStep

LEMMA SendFailsStep ==
  ASSUME NightInv, NEW c \in Clients, SendFails(c)
  PROVE  NightInv'
<1>1. PICK n \in run[c].todo : (Sent(n) \/ UNCHANGED mailed) /\ Without(c, n)
  BY DEF SendFails
<1>2. JobOK(c) /\ UNCHANGED <<clock, acked>> /\ Leave(c) /\ mailed \subseteq mailed'
  BY <1>1, JobStep DEF SendFails, Mailing, Takes, Sent
<1>3. RunOK(c)' /\ run' = [run EXCEPT ![c] = [run[c] EXCEPT !.todo = run[c].todo \ {n}]]
  BY <1>1, <1>2, WithoutStep
<1>4. AcknowledgedIsApplied'
  BY <1>2, OpLeft, Standing
<1> QED
  BY <1>2, <1>3, <1>4, LeavingStep

\* Whoever is chosen was warned by a mail that left in time.
LEMMA CandidatesStep ==
  ASSUME NightInv, NEW c \in Clients, Candidates(c)
  PROVE  NightInv'
<1>1. JobOK(c) /\ UNCHANGED vars /\ UNCHANGED <<clock, mailed, acked>>
  BY JobStep DEF Candidates, At, Outside
<1> PICK now : now = run[c].at
  OBVIOUS
<1> PICK todo : todo = {r \in Rentals : OverdueLossEligible(data, r, now) /\ WarnedLongEnough(data, r, now)}
  OBVIOUS
<1>2. \A r \in todo : now >= Grace /\ Warned(r, now)
  <2> SUFFICES ASSUME NEW r \in todo PROVE now >= Grace /\ Warned(r, now)
    OBVIOUS
  <2>1. data.notice[r]["OVERDUE_WARNING"] # None /\ data.notice[r]["OVERDUE_WARNING"] + Lead <= now
    BY DEF WarnedLongEnough
  <2>2. [rental |-> r, kind |-> "OVERDUE_WARNING", at |-> data.notice[r]["OVERDUE_WARNING"]] \in mailed
    BY <2>1 DEF NightInv, RowsOK, NoticesTrue, NoticeAlreadySent, Kinds
  <2> QED
    BY <2>1, <2>2 DEF OverdueLossEligible, Warned
<1> PICK request : request = [run[c] EXCEPT !.step = "losing", !.todo = todo]
  OBVIOUS
<1>3. run' = [run EXCEPT ![c] = request]
  BY DEF Candidates, NightInv
<1>4. run'[c] = request
  BY <1>3, RunsOthers
<1>5. todo \subseteq Rentals
  OBVIOUS
<1>6. request \in RunningJobs /\ request.step = "losing" /\ request.at = now /\ request.todo = todo
      /\ request.does = run[c].does /\ request.about = run[c].about
  BY <1>1, <1>5 DEF JobOK, RunningJobs
<1>7. \A r, t : Warned(r, t) => Warned(r, t)'
  BY <1>1 DEF Warned
<1>8. RunOK(c)'
  <2>1. /\ run'[c] \in RunningJobs /\ run'[c].at = clock' /\ run'[c].step = "losing"
        /\ run'[c].does = "return" => run'[c].about \in Rentals
    BY <1>1, <1>4, <1>6 DEF JobOK
  <2>2. \A r \in todo : r \in Rentals /\ now >= Grace /\ Warned(r, now)'
    BY <1>2, <1>5, <1>7
  <2>3. run'[c].todo = todo /\ run'[c].at = now
    BY <1>4, <1>6
  <2> QED
    BY <2>1, <2>2, <2>3 DEF RunOK, JobOK
<1>9. AcknowledgedIsApplied'
  BY <1>1, Standing DEF vars
<1> QED
  BY <1>1, <1>3, <1>8, <1>9, QuietStep

LEMMA CaptureLossStep ==
  ASSUME Wired, NightInv, NEW c \in Clients, CaptureLoss(c)
  PROVE  NightInv'
<1>1. PICK r \in run[c].todo : Without(c, r) /\ Ask(c, [do |-> "lose", rental |-> r, at |-> run[c].at])
  BY DEF CaptureLoss
<1>2. JobOK(c) /\ UNCHANGED <<clock, mailed, acked>>
  BY JobStep DEF CaptureLoss, Answered, At, Outside
<1> PICK op : op = [do |-> "lose", rental |-> r, at |-> run[c].at]
  OBVIOUS
<1>3. r \in Rentals /\ run[c].at >= Grace /\ Warned(r, run[c].at) /\ run[c].at \in Times
  BY <1>2 DEF CaptureLoss, Answered, At, JobOK, NightInv
<1>4. op \in Operations
  BY <1>3 DEF Operations
<1>5. Justified(op)'
  BY <1>2, <1>3 DEF Justified, Warned
<1>6. RunOK(c)' /\ run' = [run EXCEPT ![c] = [run[c] EXCEPT !.todo = run[c].todo \ {r}]]
  BY <1>1, <1>2, WithoutStep
<1>7. Ask(c, op)
  BY <1>1
<1>8. AcknowledgedIsApplied'
  BY <1>2, <1>4, <1>7, OpAsked, Standing
<1> QED
  BY <1>2, <1>4, <1>5, <1>6, <1>7, <1>8, AskingStep

-----------------------------------------------------------------------------
(* The webhooks. *)

LEMMA StartDeliveryStep ==
  ASSUME NightInv, NEW c \in Clients, StartDelivery(c)
  PROVE  NightInv'
<1>1. PICK e \in Events \ Bajie : Begins(c, Delivery("look up", "stripe/webhook", e)) /\ UNCHANGED vars
  BY DEF StartDelivery
<1> PICK request : request = Delivery("look up", "stripe/webhook", e)
  OBVIOUS
<1>2. run' = [run EXCEPT ![c] = request] /\ UNCHANGED <<clock, mailed, acked>>
  BY <1>1 DEF Begins
<1>3. run'[c] = request
  BY <1>2, RunsOthers
<1>4. request \in StripeDeliveries /\ request.step = "look up"
  BY DEF Delivery, StripeDeliveries
<1>5. RunOK(c)'
  BY <1>3, <1>4 DEF RunOK, StripeOK
<1>6. AcknowledgedIsApplied'
  BY <1>1, <1>2, Standing DEF vars
<1> QED
  BY <1>1, <1>2, <1>5, <1>6, QuietStep

LEMMA StartNotificationStep ==
  ASSUME Wired, NightInv, NEW c \in Clients, StartNotification(c)
  PROVE  NightInv'
<1>1. PICK e \in Bajie :
        Start(c, Delivery("inserting", "manufacturer/webhook", e), [do |-> "insert", event |-> e, at |-> clock])
  BY DEF StartNotification
<1> PICK request : request = Delivery("inserting", "manufacturer/webhook", e)
  OBVIOUS
<1> PICK op : op = [do |-> "insert", event |-> e, at |-> clock]
  OBVIOUS
<1>2. run' = [run EXCEPT ![c] = request] /\ Ask(c, op) /\ UNCHANGED <<clock, mailed, acked>>
  BY <1>1 DEF Start, Begins
<1>3. op \in Operations /\ Justified(op)'
  BY NightTypes DEF NightInv, Operations, Justified
<1>4. run'[c] = request
  BY <1>2, RunsOthers
<1>5. request \in Notifications
  BY DEF Delivery, Notifications
<1>6. RunOK(c)'
  BY <1>4, <1>5 DEF RunOK
<1>7. AcknowledgedIsApplied'
  BY <1>2, <1>3, OpAsked, Standing
<1> QED
  BY <1>2, <1>3, <1>6, <1>7, AskingStep

\* A step that tells the sender of an applied event that it is received.
LEMMA AcknowledgedStands ==
  ASSUME NightInv, NEW c \in Clients, Acknowledge(c), data' = data, run[c].about \in Bajie \cup data.effect
  PROVE  AcknowledgedIsApplied'
  BY DEF NightInv, AcknowledgedIsApplied, Acknowledge

\* A delivery goes to its next transaction.
LEMMA DeliveryAsks ==
  ASSUME Wired, NightInv, NEW c \in Clients, StripeOK(c),
         NEW step \in {"receiving", "applying", "settling", "failing"}, Goes(c, step),
         NEW op \in Operations, Ask(c, op), UNCHANGED <<clock, mailed, acked>>,
         step = "applying" => op = [do |-> "apply", event |-> run[c].about],
         step = "settling" => run[c].about \in data.effect,
         op.do \in {"receive", "apply", "fail"} \/ (op.do = "settle" /\ op.event \in data.effect)
  PROVE  NightInv'
<1> PICK request : request = [run[c] EXCEPT !.step = step]
  OBVIOUS
<1>1. run' = [run EXCEPT ![c] = request]
  BY DEF Goes, NightInv
<1>2. run'[c] = request
  BY <1>1, RunsOthers
<1>3. request \in StripeDeliveries /\ request.step = step /\ request.about = run[c].about
  BY DEF StripeOK, StripeDeliveries
<1>4. tx'[c].op = op /\ tx'[c].told = "pending" /\ data' = data
  BY OpAsked
<1>5. RunOK(c)'
  <2>1. /\ run'[c] \in StripeDeliveries
        /\ run'[c].step = "applying" => tx'[c].op = [do |-> "apply", event |-> run'[c].about]
        /\ tx'[c].told # "ok"
        /\ run'[c].step = "settling" => run'[c].about \in data'.effect
    BY <1>2, <1>3, <1>4
  <2> QED
    BY <2>1 DEF RunOK, StripeOK
<1>6. Justified(op)'
  BY <1>4 DEF Justified
<1>7. AcknowledgedIsApplied'
  BY <1>4, Standing
<1> QED
  BY <1>1, <1>5, <1>6, <1>7, AskingStep

LEMMA EventOps ==
  ASSUME NEW e \in Events, NEW t \in Times
  PROVE  /\ [do |-> "receive", event |-> e, at |-> t] \in Operations
         /\ [do |-> "apply", event |-> e] \in Operations
         /\ [do |-> "settle", event |-> e] \in Operations
         /\ [do |-> "fail", event |-> e] \in Operations
  BY DEF Operations

LEMMA LookUpStep ==
  ASSUME Wired, NightInv, NEW c \in Clients, LookUp(c)
  PROVE  NightInv'
<1>1. StripeOK(c) /\ run[c].about \in Events \ Bajie
  BY StripeStep DEF LookUp, At, StripeOK, StripeDeliveries
<1>2. CASE Duplicate(run[c].about)
  <2>1. Acknowledge(c) /\ Ends(c) /\ UNCHANGED vars /\ run[c].about \in data.effect
    BY <1>1, <1>2 DEF LookUp, NightInv, RowsOK, ProcessedApplied
  <2>2. AcknowledgedIsApplied'
    BY <2>1, AcknowledgedStands DEF vars
  <2> QED
    BY <2>1, <2>2, EndingStep DEF Acknowledge
<1>3. CASE ~Duplicate(run[c].about)
  <2> PICK op : op = [do |-> "receive", event |-> run[c].about, at |-> clock]
    OBVIOUS
  <2>1. op \in Operations /\ op.do = "receive"
    BY <1>1, EventOps DEF NightInv
  <2>2. Goes(c, "receiving") /\ Ask(c, op) /\ UNCHANGED <<clock, mailed, acked>>
    BY <1>3 DEF LookUp, Outside
  <2> QED
    BY <1>1, <2>1, <2>2, DeliveryAsks
<1> QED
  BY <1>2, <1>3

\* What a delivery asks for once it is received.
LEMMA OnEventStep ==
  ASSUME Wired, NightInv, NEW c \in Clients, StripeOK(c), Outside,
         \/ Goes(c, "applying") /\ OnEvent(c, "apply")
         \/ Goes(c, "failing") /\ OnEvent(c, "fail")
         \/ Goes(c, "settling") /\ OnEvent(c, "settle") /\ run[c].about \in data.effect
  PROVE  NightInv'
<1>1. run[c].about \in Events /\ UNCHANGED <<clock, mailed, acked>>
  BY DEF StripeOK, StripeDeliveries, Outside
<1>2. PICK do \in {"apply", "fail", "settle"} :
        /\ OnEvent(c, do)
        /\ do = "apply" => Goes(c, "applying")
        /\ do = "fail" => Goes(c, "failing")
        /\ do = "settle" => Goes(c, "settling") /\ run[c].about \in data.effect
  OBVIOUS
<1> PICK op : op = [do |-> do, event |-> run[c].about]
  OBVIOUS
<1>3. op \in Operations /\ op.do = do /\ op.event = run[c].about
  BY <1>1, EventOps DEF Operations
<1>4. Ask(c, op)
  BY <1>2 DEF OnEvent
<1> QED
  BY <1>1, <1>2, <1>3, <1>4, DeliveryAsks

LEMMA ReceivedStep ==
  ASSUME Wired, NightInv, NEW c \in Clients, Received(c)
  PROVE  NightInv'
<1>1. StripeOK(c) /\ Outside /\ UNCHANGED <<clock, mailed, acked>>
  BY StripeStep DEF Received, Answered, At, Outside
<1>2. CASE Trouble(c)
  <2>1. Ends(c) /\ Leave(c)
    BY <1>2 DEF Received, Takes
  <2> QED
    BY <1>1, <2>1, OpLeft, Standing, EndingStep
<1>3. CASE ~Trouble(c)
  BY <1>1, <1>3, OnEventStep DEF Received
<1> QED
  BY <1>2, <1>3

LEMMA AppliedStep ==
  ASSUME Wired, NightInv, NEW c \in Clients, Applied(c)
  PROVE  NightInv'
<1>1. StripeOK(c) /\ Outside /\ run[c].step = "applying"
  BY StripeStep DEF Applied, Answered, At
<1>2. CASE Trouble(c)
  BY <1>1, <1>2, OnEventStep DEF Applied
<1>3. CASE ~Trouble(c)
  <2>1. run[c].about \in data.effect
    BY <1>1, <1>3 DEF Trouble, StripeOK
  <2> QED
    BY <1>1, <1>3, <2>1, OnEventStep DEF Applied
<1> QED
  BY <1>2, <1>3

LEMMA SettledStep ==
  ASSUME Wired, NightInv, NEW c \in Clients, Settled(c)
  PROVE  NightInv'
<1>1. StripeOK(c) /\ run[c].about \in data.effect
  BY StripeStep DEF Settled, Answered, At, StripeOK
<1>2. CASE Trouble(c)
  BY <1>1, <1>2, OnEventStep DEF Settled
<1>3. CASE ~Trouble(c)
  <2>1. Acknowledge(c) /\ Ends(c) /\ Leave(c)
    BY <1>3 DEF Settled, Takes
  <2>2. AcknowledgedIsApplied'
    BY <1>1, <2>1, OpLeft, AcknowledgedStands
  <2> QED
    BY <2>1, <2>2, EndingStep DEF Acknowledge
<1> QED
  BY <1>2, <1>3

LEMMA FailureMarkedStep ==
  ASSUME NightInv, NEW c \in Clients, FailureMarked(c)
  PROVE  NightInv'
<1>1. Ends(c) /\ Leave(c) /\ UNCHANGED <<clock, mailed, acked>>
  BY DEF FailureMarked, Takes, Outside
<1> QED
  BY <1>1, OpLeft, Standing, EndingStep

LEMMA InsertedStep ==
  ASSUME Wired, NightInv, NEW c \in Clients, Inserted(c)
  PROVE  NightInv'
<1>1. run[c] \in Notifications /\ run[c].about \in Bajie
  BY CabinetStep DEF Inserted, Answered, At, Notifications
<1>2. CASE Outside /\ Goes(c, "reconciling") /\ \E outcome \in {"settle", "fail"} : OnEvent(c, outcome)
  <2>1. PICK outcome \in {"settle", "fail"} : OnEvent(c, outcome)
    BY <1>2
  <2> PICK request : request = [run[c] EXCEPT !.step = "reconciling"]
    OBVIOUS
  <2> PICK op : op = [do |-> outcome, event |-> run[c].about]
    OBVIOUS
  <2>2. run' = [run EXCEPT ![c] = request] /\ UNCHANGED <<clock, mailed, acked>>
    BY <1>2 DEF Goes, NightInv, Outside
  <2>3. request \in Notifications /\ run'[c] = request
    BY <1>1, <2>2, RunsOthers DEF Notifications
  <2>4. op \in Operations /\ Ask(c, op)
    BY <1>1, <2>1, NightTypes DEF OnEvent, Operations
  <2>5. Justified(op)'
    BY <1>1 DEF Justified
  <2>6. RunOK(c)'
    BY <2>3 DEF RunOK
  <2>7. AcknowledgedIsApplied'
    BY <2>2, <2>4, OpAsked, Standing
  <2> QED
    BY <2>2, <2>4, <2>5, <2>6, <2>7, AskingStep
<1>3. CASE Acknowledge(c) /\ Ends(c) /\ Takes(c)
  <2>1. AcknowledgedIsApplied'
    BY <1>1, <1>3, OpLeft, AcknowledgedStands DEF Takes
  <2> QED
    BY <1>3, <2>1, EndingStep DEF Acknowledge, Takes
<1>4. CASE Outside /\ Ends(c) /\ Takes(c)
  BY <1>4, OpLeft, Standing, EndingStep DEF Outside, Takes
<1> QED
  BY <1>2, <1>3, <1>4 DEF Inserted

LEMMA ReconciledStep ==
  ASSUME NightInv, NEW c \in Clients, Reconciled(c)
  PROVE  NightInv'
<1>1. run[c].about \in Bajie /\ Ends(c) /\ Leave(c)
  BY CabinetStep DEF Reconciled, Answered, At, Notifications, Takes
<1>2. CASE Outside
  BY <1>1, <1>2, OpLeft, Standing, EndingStep DEF Outside
<1>3. CASE Acknowledge(c)
  <2>1. AcknowledgedIsApplied'
    BY <1>1, <1>3, OpLeft, AcknowledgedStands
  <2> QED
    BY <1>1, <1>3, <2>1, EndingStep DEF Acknowledge
<1> QED
  BY <1>2, <1>3 DEF Reconciled

-----------------------------------------------------------------------------
(* Time, crashes, and the theorems. *)

\* No job runs while a day passes.
LEMMA TickStep ==
  ASSUME NightInv, Tick
  PROVE  NightInv'
<1>1. UNCHANGED <<vars, run, mailed, acked>> /\ clock < MaxTime /\ clock' = clock + 1
  BY DEF Tick
<1>2. clock' \in Times
  BY <1>1, NightTypes DEF NightInv, Times
<1>3. UNCHANGED <<data, tx>>
  BY <1>1 DEF vars
<1>4. RowsOK'
  BY <1>1, <1>3, RowsStand DEF NightInv
<1>5. ASSUME NEW c \in Clients PROVE (AskedOK(c) /\ RunOK(c))'
  <2>1. AskedOK(c)'
    BY <1>1, <1>3 DEF NightInv, ClientsOK, AskedOK, Justified, Pending, Warned
  <2>2. ~JobOK(c) \/ run[c].step = "rest"
    BY DEF Tick, At, Does, JobOK, RunningJobs, Jobs
  <2>3. ~JobOK(c)
    BY <2>2 DEF JobOK, RunningJobs
  <2>4. RunOK(c)'
    BY <1>1, <1>3, <2>3 DEF NightInv, ClientsOK, RunOK, StripeOK, Pending
  <2> QED
    BY <2>1, <2>4
<1>6. Inv'
  BY <1>1, NextStep DEF NightInv
<1>7. AcknowledgedIsApplied'
  BY <1>1, <1>3, Standing
<1> QED
  BY <1>1, <1>2, <1>4, <1>5, <1>6, <1>7 DEF NightInv, ClientsOK

LEMMA CrashStep ==
  ASSUME NightInv, NEW c \in Clients, Crash(c)
  PROVE  NightInv'
<1>1. Ends(c) /\ Leave(c) /\ UNCHANGED <<clock, mailed, acked>>
  BY DEF Crash
<1> QED
  BY <1>1, OpLeft, Standing, EndingStep

LEMMA NightStep ==
  ASSUME Wired, NightInv, [NightNext]_<<vars, night>>
  PROVE  NightInv'
<1>1. CASE UNCHANGED <<vars, night>>
  <2>1. UNCHANGED <<data, tx, clock, run, mailed, acked>> /\ UNCHANGED vars
    BY <1>1 DEF vars, night
  <2>2. RowsOK' /\ Inv' /\ AcknowledgedIsApplied'
    BY <2>1, RowsStand, NextStep, Standing DEF NightInv
  <2>3. ClientsOK'
    BY <2>1 DEF NightInv, ClientsOK, AskedOK, Justified, RunOK, JobOK, StripeOK, Pending, Warned
  <2> QED
    BY <2>1, <2>2, <2>3 DEF NightInv
<1>2. CASE Tick
  BY <1>2, TickStep
<1>3. ASSUME NEW c \in Clients, Cron(c) PROVE NightInv'
  BY <1>3, StartJobStep, RefreshedStep, StartReturnStep, ReturnedStep, PlanStep, SendNoticeStep, SendFailsStep,
     NoticesDoneStep, CandidatesStep, CaptureLossStep, LossesDoneStep DEF Cron
<1>4. ASSUME NEW c \in Clients, Webhook(c) PROVE NightInv'
  BY <1>4, StartDeliveryStep, LookUpStep, ReceivedStep, AppliedStep, SettledStep, FailureMarkedStep,
     StartNotificationStep, InsertedStep, ReconciledStep DEF Webhook
<1>5. ASSUME NEW c \in Clients, Works(c) \/ Breaks(c) PROVE NightInv'
  BY <1>5, StoreStep DEF Works, Breaks, night
<1>6. ASSUME NEW c \in Clients, Crash(c) PROVE NightInv'
  BY <1>6, CrashStep
<1> QED
  BY <1>1, <1>2, <1>3, <1>4, <1>5, <1>6 DEF NightNext

\* What the jobs, the webhooks and both databases keep true between any two of their steps: the rows
\* and the transactions asked for are justified by mails that were sent and events that were applied.
THEOREM NightInvariant ==
  ASSUME Wired
  PROVE  NightSpec => []NightInv
<1>1. NightInit => NightInv
  BY NightInitInv
<1>2. NightInv /\ [NightNext]_<<vars, night>> => NightInv'
  BY NightStep
<1> QED
  BY <1>1, <1>2, PTL DEF NightSpec

\* internal/cron and capture-overdue-losses: nobody loses a deposit before the date the warning names,
\* nor without a warning the mail provider took Lead before, whatever runs beside, dies or is repeated.
THEOREM NobodyLosesUnwarned ==
  ASSUME Wired
  PROVE  NightSpec => []LossAfterWarning
<1>1. NightInv => LossAfterWarning
  BY DEF NightInv, RowsOK, LossesDue, LossDue, Warned, LossAfterWarning
<1> QED
  BY <1>1, NightInvariant, PTL

\* stripe/webhook: an event whose sender was told it is received has had its effect on the rows.
THEOREM NoEventIsLost ==
  ASSUME Wired
  PROVE  NightSpec => []AcknowledgedIsApplied
<1>1. NightInv => AcknowledgedIsApplied
  BY DEF NightInv
<1> QED
  BY <1>1, NightInvariant, PTL

\* What a step of the jobs and webhooks is to the store.
Uses(c) == (\E op : Ask(c, op)) \/ Steps(c) \/ Broken(c) \/ Leave(c) \/ UNCHANGED vars

LEMMA NightUses ==
  ASSUME [NightNext]_<<vars, night>>
  PROVE  UNCHANGED vars \/ \E c \in Clients : Uses(c)
<1>1. ASSUME NEW c \in Clients, Cron(c) PROVE Uses(c)
  <2>1. CASE StartJob(c) \/ StartReturn(c)
    BY <2>1 DEF Uses, StartJob, StartReturn, Start
  <2>2. CASE SendNotice(c) \/ CaptureLoss(c)
    BY <2>2 DEF Uses, SendNotice, CaptureLoss
  <2>3. CASE Refreshed(c) \/ Returned(c) \/ SendFails(c) \/ NoticesDone(c) \/ LossesDone(c)
    BY <2>3 DEF Uses, Refreshed, Returned, SendFails, NoticesDone, LossesDone, Takes
  <2>4. CASE Plan(c) \/ Candidates(c)
    BY <2>4 DEF Uses, Plan, Candidates
  <2> QED
    BY <1>1, <2>1, <2>2, <2>3, <2>4 DEF Cron
<1>2. ASSUME NEW c \in Clients, Webhook(c) PROVE Uses(c)
  <2>1. CASE StartDelivery(c) \/ StartNotification(c)
    BY <2>1 DEF Uses, StartDelivery, StartNotification, Start
  <2>2. CASE LookUp(c)
    BY <2>2 DEF Uses, LookUp
  <2>3. CASE Received(c) \/ Applied(c)
    BY <2>3 DEF Uses, Received, Applied, Takes, OnEvent
  <2>4. CASE Settled(c) \/ FailureMarked(c)
    BY <2>4 DEF Uses, Settled, FailureMarked, Takes, OnEvent
  <2>5. CASE Inserted(c) \/ Reconciled(c)
    BY <2>5 DEF Uses, Inserted, Reconciled, Takes, OnEvent
  <2> QED
    BY <1>2, <2>1, <2>2, <2>3, <2>4, <2>5 DEF Webhook
<1>3. ASSUME NEW c \in Clients, Works(c) \/ Breaks(c) \/ Crash(c) PROVE Uses(c)
  BY <1>3 DEF Uses, Works, Breaks, Crash
<1>4. CASE UNCHANGED <<vars, night>> \/ Tick
  BY <1>4 DEF Tick, vars
<1> QED
  BY <1>1, <1>2, <1>3, <1>4 DEF NightNext

LEMMA StoreNext ==
  ASSUME Wired, NightInv, NightInv', [NightNext]_<<vars, night>>
  PROVE  [Next]_vars
<1>1. ASSUME NEW c \in Clients, NEW op, Ask(c, op) PROVE op \in Ops
  <2> DEFINE record == Transaction(op, 1, "asked", None, 0, "pending")
  <2>1. To(c, record) /\ record.op = op /\ record.told = "pending"
    BY <1>1 DEF Ask, Asked, Transaction
  <2>2. tx'[c].op = op /\ Pending(c)'
    BY <2>1, ToClient DEF NightInv, Pending
  <2> QED
    BY <2>2 DEF NightInv, ClientsOK, AskedOK, Wired
<1> QED
  BY <1>1, NightUses DEF Uses, Next

\* The jobs and webhooks use the store as its specification says, so all that they ask for takes
\* effect whole, at one instant and at most once, whatever crashes beside.
THEOREM NightIsAtomic ==
  ASSUME Wired
  PROVE  NightSpec => StoreIsAtomic
<1>1. NightInv /\ NightInv' /\ [NightNext]_<<vars, night>> => [Next]_vars
  BY StoreNext
<1>2. NightInit => Init
  BY DEF NightInit
<1>3. NightSpec => Spec
  BY <1>1, <1>2, NightInvariant, PTL DEF NightSpec, Spec
<1> QED
  BY <1>3, StoreImplementsPort
================================================================================
