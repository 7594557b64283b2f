---------------------------- MODULE RentalEngine ----------------------------
(***************************************************************************)
(* The rental life cycle of src/core/rental.ts, src/core/state-machine.ts  *)
(* and src/core/pricing.ts as operators on one rental record, its payment  *)
(* row nested inside (the code keeps at most one payment per rental).      *)
(* "CanX" is the condition under which method x does not throw; "X" is the *)
(* record it leaves.  Nothing here is recursive.                           *)
(*                                                                         *)
(* Time is counted in hours.  Names, texts, events and the commission,     *)
(* which no rule of the life cycle reads, are left out.                    *)
(***************************************************************************)
EXTENDS Integers

CONSTANTS
  None,        \* null: no battery, no station
  Customers,   \* rental customers
  Stations,    \* rental stations
  Batteries,   \* power banks
  Pricings,    \* the pricing grids an administrator may activate
  LossGrace    \* OVERDUE_LOSS_GRACE_MS, in hours

ASSUME NoneAssumption == None \notin Batteries \cup Stations \cup Customers

\* validatePricing: what every grid that can be stored satisfies.
Grid == [hourly : Nat \ {0}, cap : Nat \ {0}, deposit : Nat \ {0}, deadline : Nat \ {0}]
ValidGrid(g) == g \in Grid /\ g.hourly <= g.cap /\ g.cap <= g.deposit

ASSUME PricingsAssumption == Pricings # {} /\ \A g \in Pricings : ValidGrid(g)
ASSUME LossGraceAssumption == LossGrace \in Nat \ {0}

Never == -1      \* null for a time

-----------------------------------------------------------------------------
(* States of a rental, of its payment and of the battery's movement. *)

OpenStates == {"CREATED", "PAYMENT_AUTH", "EJECTING", "ACTIVE", "RETURN_PENDING",
               "RETURNED", "OVERDUE", "ERROR"}
TerminalStates == {"COMPLETED", "PAYMENT_FAILED", "EJECTION_FAILED", "CANCELLED",
                   "EXPIRED", "LOST"}
States == OpenStates \cup TerminalStates

Edges == [
  CREATED         |-> {"PAYMENT_AUTH", "PAYMENT_FAILED", "CANCELLED", "EXPIRED"},
  PAYMENT_AUTH    |-> {"EJECTING", "CANCELLED", "ERROR"},
  EJECTING        |-> {"ACTIVE", "EJECTION_FAILED", "ERROR"},
  ACTIVE          |-> {"RETURN_PENDING", "OVERDUE", "ERROR"},
  RETURN_PENDING  |-> {"RETURNED", "ERROR"},
  RETURNED        |-> {"COMPLETED", "ERROR"},
  OVERDUE         |-> {"RETURN_PENDING", "LOST", "ERROR"},
  ERROR           |-> {"RETURN_PENDING", "RETURNED", "COMPLETED", "CANCELLED"},
  COMPLETED       |-> {}, PAYMENT_FAILED |-> {}, EJECTION_FAILED |-> {},
  CANCELLED       |-> {}, EXPIRED        |-> {}, LOST            |-> {}]

PaymentStates == {"PENDING", "AUTHORIZING", "AUTHORIZED", "CAPTURING", "CAPTURED",
                  "RELEASING", "RELEASED", "FAILED", "UNKNOWN"}
PhysicalStates == {"IDLE", "EJECTING", "EJECTED", "RETURN_PENDING", "RETURNED",
                   "FAILED", "UNKNOWN"}
BatteryStatuses == {"AVAILABLE", "RENTED", "MAINTENANCE", "LOST", "MISSING"}

Payment == [status : PaymentStates \cup {"NONE"}, provider : {"mock", "stripe"},
            authorized : Nat, captured : Nat, released : Int, refunded : Nat]
NoPayment == [status |-> "NONE", provider |-> "mock",
              authorized |-> 0, captured |-> 0, released |-> 0, refunded |-> 0]

Rental == [state : States, paymentState : PaymentStates, physicalState : PhysicalStates,
           customer : Customers, station : Stations, pricing : Pricings,
           battery : Batteries \cup {None}, returnStation : Stations \cup {None},
           startedAt : Nat \cup {Never}, returnedAt : Nat \cup {Never},
           simulated : Nat, amount : Nat, payment : Payment]

HasPayment(r) == r.payment.status # "NONE"
\* Mutant: a late rental counted as over.
IsOpenInTime(r) == r.state \in OpenStates \ {"OVERDUE"}
IsOpen(r) == r.state \in OpenStates
Deadline(r) == r.startedAt + r.pricing.deadline    \* written together with startedAt

-----------------------------------------------------------------------------
(* Price of a rental that lasted "hours" (whole hours, the first one due). *)
Price(hours, g) ==
  LET due == (IF hours <= 1 THEN 1 ELSE hours) * g.hourly
  IN  IF due <= g.cap THEN due ELSE g.cap

\* Mutant: refreshOverdue looks at the deadline of every rental, finished or not.
IsLateWhateverState(r, t) == r.startedAt # Never /\ t + r.simulated > Deadline(r)
\* Mutant: the deposit is lost as soon as the deadline is over.
LossEligibleWithoutGrace(r, t) == r.state = "OVERDUE" /\ t + r.simulated - Deadline(r) >= 0
IsLate(r, t)       == r.state = "ACTIVE" /\ t + r.simulated > Deadline(r)
LossEligible(r, t) == r.state = "OVERDUE" /\ t + r.simulated - Deadline(r) >= LossGrace

-----------------------------------------------------------------------------
(* Opening a rental and its authorization. *)

NewRental(c, s, g) ==
  [state |-> "CREATED", paymentState |-> "PENDING", physicalState |-> "IDLE",
   customer |-> c, station |-> s, pricing |-> g, battery |-> None, returnStation |-> None,
   startedAt |-> Never, returnedAt |-> Never, simulated |-> 0, amount |-> 0,
   payment |-> NoPayment]

\* Mutant: an authorization already on record is taken for this one, whatever its amount.
CanRecordAuthorizedAnyAmount(r, cents) ==
  \/ ~HasPayment(r)
  \/ r.payment.status = "AUTHORIZED"
  \/ r.payment.status \in {"PENDING", "AUTHORIZING"} /\ r.payment.authorized = 0
CanRecordAuthorized(r, cents) ==
  \/ ~HasPayment(r)
  \/ r.payment.status = "AUTHORIZED" /\ r.payment.authorized = cents
  \/ r.payment.status \in {"PENDING", "AUTHORIZING"} /\ r.payment.authorized = 0
Authorized(p, cents, provider) ==
  [p EXCEPT !.status = "AUTHORIZED", !.authorized = cents, !.provider = provider]
RecordAuthorized(r, cents, provider) ==
  IF r.payment.status = "AUTHORIZED" THEN r
  ELSE [r EXCEPT !.paymentState = "AUTHORIZED", !.payment = Authorized(@, cents, provider)]

PendingPayment == [NoPayment EXCEPT !.status = "PENDING", !.provider = "stripe"]
AttachIntent(r) == [r EXCEPT !.payment = PendingPayment]

\* Only ever applied to a CREATED rental: whatever was held is given back.
ExpireUnconfirmed(r, to) ==
  [r EXCEPT !.state = to, !.paymentState = "RELEASED",
            !.payment = IF HasPayment(r)
                        THEN [@ EXCEPT !.status = "RELEASED", !.released = r.payment.authorized]
                        ELSE @]

\* Writes the payment whatever the rental's state; only a CREATED rental moves.
MarkPaymentFailed(r, provider) ==
  [r EXCEPT !.state = IF @ = "CREATED" THEN "PAYMENT_FAILED" ELSE @,
            !.paymentState = "FAILED", !.payment.status = "FAILED", !.payment.provider = provider]

-----------------------------------------------------------------------------
(* Ejection. *)

BeginEjection(r) ==
  [r EXCEPT !.state = "EJECTING", !.paymentState = "AUTHORIZED", !.physicalState = "EJECTING"]

ActivateWithBattery(r, b, t) ==
  [r EXCEPT !.state = "ACTIVE", !.battery = b, !.startedAt = t, !.physicalState = "EJECTED"]

\* Outside PAYMENT_AUTH and EJECTING it only notes the failure.
FailEjection(r) ==
  [r EXCEPT !.physicalState = "FAILED",
            !.state = IF @ \in {"PAYMENT_AUTH", "EJECTING"} THEN "EJECTION_FAILED" ELSE @]

CanMarkUncertain(r) == r.physicalState = "UNKNOWN" \/ r.state \in {"PAYMENT_AUTH", "EJECTING"}
MarkUncertain(r) ==
  IF r.physicalState = "UNKNOWN" THEN r
  ELSE [r EXCEPT !.state = "EJECTING", !.physicalState = "UNKNOWN"]

CanMarkReleased(r) ==
  r.payment.status \in {"RELEASED", "AUTHORIZED", "RELEASING", "UNKNOWN"}
\* Mutant: the rental is told its deposit is free, the payment row is not.
MarkReleasedRentalOnly(r) == [r EXCEPT !.paymentState = "RELEASED"]
Freed(p) == [p EXCEPT !.status = "RELEASED", !.captured = 0, !.released = p.authorized]
MarkReleased(r) ==
  IF r.payment.status = "RELEASED" THEN r
  ELSE [r EXCEPT !.paymentState = "RELEASED", !.payment = Freed(@)]

\* A Stripe call whose outcome is not known: the payment is written whatever the state.
MarkPaymentUnknown(r) ==
  [r EXCEPT !.state = IF @ \in {"RETURNED", "EJECTING", "PAYMENT_AUTH", "ACTIVE", "OVERDUE"}
                      THEN "ERROR" ELSE @,
            !.paymentState = "UNKNOWN",
            !.payment = IF HasPayment(r) THEN [@ EXCEPT !.status = "UNKNOWN"] ELSE @]

-----------------------------------------------------------------------------
(* Return and settlement. *)

AwaitsSettlement(r) == r.state = "ERROR" /\ r.returnedAt # Never /\ r.amount > 0
AlreadyReturned(r)  == r.state \in {"COMPLETED", "RETURNED"} \/ AwaitsSettlement(r)

\* calculatePrice refuses a negative duration, so a return dated before the start throws.
CanReturn(r, t) ==
  /\ r.state \in {"ACTIVE", "OVERDUE"}
  /\ r.battery # None
  /\ r.startedAt # Never
  /\ t + r.simulated >= r.startedAt
PrepareReturn(r, s, t) ==
  [r EXCEPT !.state = "RETURNED", !.physicalState = "RETURNED",
            !.returnedAt = t, !.returnStation = s,
            !.amount = Price(t - r.startedAt + r.simulated, r.pricing),
            !.paymentState = IF HasPayment(r) THEN "CAPTURING" ELSE @]

CanComplete(r) == r.state \in {"COMPLETED", "RETURNED"} \/ AwaitsSettlement(r)
Complete(r) ==
  IF r.state = "COMPLETED" THEN r
  ELSE [r EXCEPT !.state = "COMPLETED", !.paymentState = "CAPTURED"]

Captured(p, cents) ==
  [p EXCEPT !.status = "CAPTURED", !.captured = cents, !.released = p.authorized - cents]
CanCapture(p, cents) ==
  p.status \in {"AUTHORIZED", "CAPTURING", "UNKNOWN"} /\ cents <= p.authorized

CanMarkCaptured(r, cents) ==
  /\ CanComplete(r)
  /\ \/ r.payment.status = "CAPTURED" /\ r.payment.captured = cents
     \/ CanCapture(r.payment, cents)
MarkCaptured(r, cents) ==
  Complete(IF r.payment.status = "CAPTURED" THEN r
           ELSE [r EXCEPT !.paymentState = "CAPTURED", !.payment = Captured(@, cents)])

CanMarkRefunded(r, cents) ==
  r.payment.status = "CAPTURED" /\ cents > 0 /\ r.payment.refunded + cents <= r.payment.captured
MarkRefunded(r, cents) == [r EXCEPT !.payment.refunded = r.payment.refunded + cents]

\* A replay after the loss was recorded changes nothing; any other captured payment throws.
LossReplay(r, cents) ==
  r.payment.status = "CAPTURED" /\ r.payment.captured = cents /\ r.state = "LOST"
CanMarkLost(r, cents, t) == LossEligible(r, t) /\ CanCapture(r.payment, cents)
MarkLost(r, cents) ==
  [r EXCEPT !.state = "LOST", !.paymentState = "CAPTURED", !.payment = Captured(@, cents)]

-----------------------------------------------------------------------------
(* What src/core/invariants.ts demands of one rental and its payment before *)
(* any transaction may commit.                                             *)

OutStates == {"ACTIVE", "OVERDUE", "RETURN_PENDING"}
StartedStates == OutStates \cup {"RETURNED", "COMPLETED", "LOST"}

ValidPayment(r) ==
  LET p == r.payment IN
  /\ p.released >= 0
  /\ p.captured + p.released <= p.authorized
  /\ p.refunded <= p.captured
  /\ p.status \in {"CAPTURED", "RELEASED"} => p.captured + p.released = p.authorized
  /\ p.status = "RELEASED" => p.captured = 0

ValidRental(r) ==
  /\ r.amount <= r.pricing.cap
  /\ r.state \in StartedStates => r.battery # None /\ r.startedAt # Never
  /\ r.state = "LOST" => r.payment.status = "CAPTURED" /\ r.payment.captured = r.payment.authorized
  /\ r.state \in OutStates => r.payment.status \notin {"RELEASED", "FAILED"}
  /\ r.state = "COMPLETED" =>
        /\ r.returnedAt >= r.startedAt /\ r.returnStation # None
        /\ r.amount = Price(r.returnedAt - r.startedAt + r.simulated, r.pricing)
        /\ r.payment.status = "CAPTURED" /\ r.payment.captured = r.amount
        /\ r.payment.authorized = r.pricing.deposit
  /\ ValidPayment(r)
=============================================================================
