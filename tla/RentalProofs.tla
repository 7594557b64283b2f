---------------------------- MODULE RentalProofs ----------------------------
(***************************************************************************)
(* Part one: theorems about RentalTransactions, for every number of        *)
(* customers, batteries, stations, slots, pricing grids and every bound of *)
(* the clock.                                                              *)
(* Part two: the Stripe coordinator for any number of requests, rentals,   *)
(* batteries and crashes: however its awaits interleave with Stripe's      *)
(* events, lost answers and the rest of the server, each step is a         *)
(* transaction of RentalTransactions or leaves its database alone, so that *)
(* part one holds there; no amount is recorded as captured that Stripe did *)
(* not take; one rental makes at most one battery leave; and what Stripe   *)
(* took is the price of a battery that came back or the deposit of one     *)
(* that was late enough.                                                   *)
(***************************************************************************)
EXTENDS StripeCoordinator, TLAPS

(***************************************************************************)
(* Part one: the transactions.                                             *)
(***************************************************************************)

-----------------------------------------------------------------------------
(* Names of the states, so that no proof needs the sets themselves.        *)

LEMMA StateNames ==
  /\ \A s \in OpenStates \cup TerminalStates : s \in States
  /\ {"CREATED", "PAYMENT_AUTH", "EJECTING", "ACTIVE", "RETURNED", "OVERDUE", "ERROR"} \subseteq States
  /\ {"COMPLETED", "PAYMENT_FAILED", "EJECTION_FAILED", "CANCELLED", "EXPIRED", "LOST"} \subseteq States
BY DEF States, OpenStates, TerminalStates

LEMMA PaymentStateNames ==
  {"PENDING", "AUTHORIZED", "CAPTURING", "CAPTURED", "RELEASED", "FAILED", "UNKNOWN"}
    \subseteq PaymentStates
BY DEF PaymentStates

LEMMA PhysicalStateNames ==
  {"IDLE", "EJECTING", "EJECTED", "RETURNED", "FAILED", "UNKNOWN"} \subseteq PhysicalStates
BY DEF PhysicalStates

-----------------------------------------------------------------------------
(* Every operation on a rental record gives a rental record.               *)

LEMMA GridTyped ==
  ASSUME NEW g \in Pricings
  PROVE  /\ g.hourly \in Nat /\ g.cap \in Nat /\ g.deposit \in Nat /\ g.deadline \in Nat
BY PricingsAssumption DEF ValidGrid, Grid

LEMMA PriceTyped ==
  ASSUME NEW hours \in Int, NEW g \in Pricings
  PROVE  Price(hours, g) \in Nat
<1> DEFINE begun == IF hours <= 1 THEN 1 ELSE hours
<1>1. begun \in Nat
  OBVIOUS
<1>2. begun * g.hourly \in Nat
  BY <1>1, GridTyped
<1> QED
  BY <1>2, GridTyped DEF Price

LEMMA NewRentalTyped ==
  ASSUME NEW c \in Customers, NEW s \in Stations, NEW g \in Pricings
  PROVE  NewRental(c, s, g) \in Rental
<1>1. NoPayment \in Payment
  BY DEF NoPayment, Payment
<1> QED
  BY <1>1, StateNames, PaymentStateNames, PhysicalStateNames DEF NewRental, Rental, Never

LEMMA RecordAuthorizedTyped ==
  ASSUME NEW r \in Rental, NEW cents \in Nat, NEW provider \in {"mock", "stripe"}
  PROVE  RecordAuthorized(r, cents, provider) \in Rental
<1>1. Authorized(r.payment, cents, provider) \in Payment
  BY PaymentStateNames DEF Authorized, Rental, Payment
<1> QED
  BY <1>1, PaymentStateNames DEF RecordAuthorized, Rental

LEMMA AttachIntentTyped ==
  ASSUME NEW r \in Rental
  PROVE  AttachIntent(r) \in Rental
<1>1. NoPayment \in Payment
  BY DEF NoPayment, Payment
<1>2. PendingPayment \in Payment
  BY <1>1, PaymentStateNames DEF PendingPayment, Payment
<1> QED
  BY <1>2 DEF AttachIntent, Rental

LEMMA ExpireUnconfirmedTyped ==
  ASSUME NEW r \in Rental, NEW to \in {"EXPIRED", "CANCELLED"}
  PROVE  ExpireUnconfirmed(r, to) \in Rental
<1>1. r.payment \in Payment /\ r.payment.authorized \in Int
  BY DEF Rental, Payment
<1>2. [r.payment EXCEPT !.status = "RELEASED", !.released = r.payment.authorized] \in Payment
  BY <1>1, PaymentStateNames DEF Payment
<1>3. to \in States
  BY StateNames
<1> QED
  BY <1>1, <1>2, <1>3, PaymentStateNames DEF ExpireUnconfirmed, Rental

LEMMA MarkPaymentFailedTyped ==
  ASSUME NEW r \in Rental, NEW provider \in {"mock", "stripe"}
  PROVE  MarkPaymentFailed(r, provider) \in Rental
<1>1. [r.payment EXCEPT !.status = "FAILED", !.provider = provider] \in Payment
  BY PaymentStateNames DEF Rental, Payment
<1> QED
  BY <1>1, StateNames, PaymentStateNames DEF MarkPaymentFailed, Rental

LEMMA EjectionTyped ==
  ASSUME NEW r \in Rental
  PROVE  /\ BeginEjection(r) \in Rental
         /\ \A b \in Batteries, t \in Nat : ActivateWithBattery(r, b, t) \in Rental
         /\ FailEjection(r) \in Rental
         /\ MarkUncertain(r) \in Rental
<1> USE StateNames, PaymentStateNames, PhysicalStateNames DEF Rental
<1>1. BeginEjection(r) \in Rental
  BY DEF BeginEjection
<1>2. ASSUME NEW b \in Batteries, NEW t \in Nat PROVE ActivateWithBattery(r, b, t) \in Rental
  BY DEF ActivateWithBattery
<1>3. FailEjection(r) \in Rental
  BY DEF FailEjection
<1>4. MarkUncertain(r) \in Rental
  BY DEF MarkUncertain
<1> QED
  BY <1>1, <1>2, <1>3, <1>4

LEMMA MarkReleasedTyped ==
  ASSUME NEW r \in Rental
  PROVE  MarkReleased(r) \in Rental
<1>1. r.payment \in Payment
  BY DEF Rental
<1>2. r.payment.authorized \in Int
  BY <1>1 DEF Payment
<1>3. Freed(r.payment) \in Payment
  BY <1>1, <1>2, PaymentStateNames DEF Freed, Payment
<1> QED
  BY <1>3, PaymentStateNames DEF MarkReleased, Rental

LEMMA MarkPaymentUnknownTyped ==
  ASSUME NEW r \in Rental
  PROVE  MarkPaymentUnknown(r) \in Rental
<1>1. [r.payment EXCEPT !.status = "UNKNOWN"] \in Payment /\ r.payment \in Payment
  BY PaymentStateNames DEF Rental, Payment
<1> QED
  BY <1>1, StateNames, PaymentStateNames DEF MarkPaymentUnknown, Rental

LEMMA CapturedTyped ==
  ASSUME NEW p \in Payment, NEW cents \in Nat
  PROVE  Captured(p, cents) \in Payment
<1>1. p.authorized \in Nat
  BY DEF Payment
<1> DEFINE rest == p.authorized - cents
<1>2. rest \in Int
  BY <1>1
<1> HIDE DEF rest
<1>3. [p EXCEPT !.status = "CAPTURED", !.captured = cents, !.released = rest] \in Payment
  BY <1>2, PaymentStateNames DEF Payment
<1> QED
  BY <1>3 DEF Captured, rest

LEMMA PrepareReturnTyped ==
  ASSUME NEW r \in Rental, NEW s \in Stations, NEW t \in Nat
  PROVE  PrepareReturn(r, s, t) \in Rental
<1>1. t - r.startedAt + r.simulated \in Int /\ r.pricing \in Pricings
  BY DEF Rental, Never
<1>2. Price(t - r.startedAt + r.simulated, r.pricing) \in Nat
  BY <1>1, PriceTyped
<1> QED
  BY <1>2, StateNames, PaymentStateNames, PhysicalStateNames DEF PrepareReturn, Rental

LEMMA CompleteTyped ==
  ASSUME NEW r \in Rental
  PROVE  Complete(r) \in Rental
BY StateNames, PaymentStateNames DEF Complete, Rental

LEMMA MarkCapturedTyped ==
  ASSUME NEW r \in Rental, NEW cents \in Nat
  PROVE  MarkCaptured(r, cents) \in Rental
<1>1. Captured(r.payment, cents) \in Payment
  BY CapturedTyped DEF Rental
<1>2. [r EXCEPT !.paymentState = "CAPTURED", !.payment = Captured(r.payment, cents)] \in Rental
  BY <1>1, PaymentStateNames DEF Rental
<1> QED
  BY <1>2, CompleteTyped DEF MarkCaptured

LEMMA MarkRefundedTyped ==
  ASSUME NEW r \in Rental, NEW cents \in Nat
  PROVE  MarkRefunded(r, cents) \in Rental
<1>1. r.payment \in Payment
  BY DEF Rental
<1>2. r.payment.refunded \in Nat
  BY <1>1 DEF Payment
<1> DEFINE total == r.payment.refunded + cents
<1>3. total \in Nat
  BY <1>2
<1> HIDE DEF total
<1>4. [r.payment EXCEPT !.refunded = total] \in Payment
  BY <1>1, <1>3 DEF Payment
<1>5. [r EXCEPT !.payment.refunded = total] \in Rental
  BY <1>4 DEF Rental
<1> QED
  BY <1>5 DEF MarkRefunded, total

LEMMA MarkLostTyped ==
  ASSUME NEW r \in Rental, NEW cents \in Nat
  PROVE  MarkLost(r, cents) \in Rental
<1>1. Captured(r.payment, cents) \in Payment
  BY CapturedTyped DEF Rental
<1> QED
  BY <1>1, StateNames, PaymentStateNames DEF MarkLost, Rental

-----------------------------------------------------------------------------
(* Type correctness: what the parts of a transaction write.                *)

LEMMA InitTyped == Init => TypeOK
<1> SUFFICES ASSUME Init PROVE TypeOK
  OBVIOUS
<1>1. RentalsTyped
  BY DEF Init, RentalsTyped
<1>2. InventoryTyped
  BY SlotsAssumption DEF Init, InventoryTyped, BatteryStatuses
<1>3. SettingsTyped
  BY DEF Init, SettingsTyped, Station
<1> QED
  BY <1>1, <1>2, <1>3 DEF TypeOK, Init

LEMMA UpdateTyped ==
  ASSUME RentalsTyped, NEW r \in DOMAIN rentals, NEW record \in Rental, Update(r, record)
  PROVE  RentalsTyped'
BY DEF RentalsTyped, Update

LEMMA RefreshedTyped ==
  ASSUME RentalsTyped, NEW t \in Nat
  PROVE  Refreshed(t) \in [DOMAIN rentals -> Rental]
<1>1. ASSUME NEW r \in Rental PROVE [r EXCEPT !.state = "OVERDUE"] \in Rental
  BY StateNames DEF Rental
<1> QED
  BY <1>1 DEF RentalsTyped, Refreshed

LEMMA AddTyped ==
  ASSUME RentalsTyped, NEW r \in RentalIds, NEW record \in Rental,
         NEW others \in [DOMAIN rentals -> Rental], AddRental(r, record, others)
  PROVE  RentalsTyped'
BY DEF RentalsTyped, AddRental

LEMMA TakeTyped ==
  ASSUME InventoryTyped, NEW s \in Stations, NEW x \in AvailableAt(s), TakeFrom(x)
  PROVE  InventoryTyped'
BY DEF InventoryTyped, TakeFrom, AvailableAt, BatteryStatuses

LEMMA PutTyped ==
  ASSUME InventoryTyped, NEW b \in Batteries, NEW x \in Slots, PutInto(b, x)
  PROVE  slots' \in [Slots -> Batteries \cup {None}]
BY DEF InventoryTyped, PutInto

LEMMA PlaceTyped ==
  ASSUME InventoryTyped, NEW b \in Batteries, NEW s \in Stations,
         PlaceDeclared(b, s) \/ PlaceDetected(b, s)
  PROVE  InventoryTyped'
<1>1. CASE PlaceDeclared(b, s)
  BY <1>1, PutTyped DEF PlaceDeclared, InventoryTyped, BatteryStatuses, FreeAt, Holding
<1>2. CASE PlaceDetected(b, s)
  BY <1>2, PutTyped DEF PlaceDetected, InventoryTyped, BatteryStatuses, FreeAt, Holding
<1> QED
  BY <1>1, <1>2

-----------------------------------------------------------------------------
(* Type correctness: one lemma per group of transactions.                  *)

LEMMA SameTyped ==
  ASSUME TypeOK
  PROVE  /\ UNCHANGED inventory => InventoryTyped'
         /\ UNCHANGED settings => SettingsTyped'
         /\ UNCHANGED rentals => RentalsTyped'
         /\ UNCHANGED now => (now \in Nat)'
BY DEF TypeOK, inventory, settings, InventoryTyped, SettingsTyped, RentalsTyped

LEMMA ThereTyped ==
  ASSUME TypeOK, NEW r \in DOMAIN rentals
  PROVE  /\ rentals[r] \in Rental /\ rentals[r].payment \in Payment
         /\ rentals[r].pricing \in Pricings /\ rentals[r].pricing.deposit \in Nat
         /\ rentals[r].amount \in Nat /\ rentals[r].payment.authorized \in Nat
         /\ rentals[r].payment.captured \in Nat /\ rentals[r].payment.status \in PaymentStates \cup {"NONE"}
         /\ rentals[r].station \in Stations /\ rentals[r].battery \in Batteries \cup {None}
<1>1. rentals[r] \in Rental
  BY DEF TypeOK, RentalsTyped
<1>2. rentals[r].payment \in Payment /\ rentals[r].pricing \in Pricings
  BY <1>1 DEF Rental
<1>3. rentals[r].pricing.deposit \in Nat
  BY <1>2, GridTyped
<1>4. /\ rentals[r].payment.authorized \in Nat /\ rentals[r].payment.captured \in Nat
      /\ rentals[r].payment.status \in PaymentStates \cup {"NONE"}
  BY <1>2 DEF Payment
<1> QED
  BY <1>1, <1>2, <1>3, <1>4 DEF Rental

LEMMA RewriteTyped ==
  ASSUME TypeOK, NEW r \in DOMAIN rentals, NEW record \in Rental,
         Update(r, record), UNCHANGED <<inventory, settings, now>>
  PROVE  TypeOK'
BY SameTyped, UpdateTyped DEF TypeOK

LEMMA IdleTyped ==
  ASSUME TypeOK, UNCHANGED rentals, UNCHANGED <<inventory, settings, now>>
  PROVE  TypeOK'
BY SameTyped DEF TypeOK

LEMMA MockStartTyped ==
  ASSUME TypeOK, NEW r \in RentalIds, NEW c \in Customers, NEW s \in Stations, MockStart(r, c, s)
  PROVE  TypeOK'
<1> DEFINE opened == NewRental(c, s, grid)
           authorized == BeginEjection(RecordAuthorized(opened, grid.deposit, "mock"))
<1>1. grid \in Pricings /\ grid.deposit \in Nat /\ now \in Nat
  BY GridTyped DEF TypeOK, SettingsTyped
<1>2. opened \in Rental
  BY <1>1, NewRentalTyped
<1>3. authorized \in Rental
  BY <1>1, <1>2, RecordAuthorizedTyped, EjectionTyped
<1>4. Refreshed(now) \in [DOMAIN rentals -> Rental]
  BY <1>1, RefreshedTyped DEF TypeOK
<1> HIDE DEF opened, authorized
<1>5. UNCHANGED settings /\ UNCHANGED now
  BY DEF MockStart
<1>6. CASE AddRental(r, MarkPaymentFailed(opened, "mock"), Refreshed(now)) /\ UNCHANGED inventory
  <2>1. MarkPaymentFailed(opened, "mock") \in Rental
    BY <1>2, MarkPaymentFailedTyped
  <2> QED
    BY <1>4, <1>5, <1>6, <2>1, AddTyped, SameTyped DEF TypeOK
<1>7. CASE \E x \in AvailableAt(s) :
             TakeFrom(x) /\ AddRental(r, ActivateWithBattery(authorized, slots[x], now), Refreshed(now))
  <2> PICK x \in AvailableAt(s) :
             TakeFrom(x) /\ AddRental(r, ActivateWithBattery(authorized, slots[x], now), Refreshed(now))
    BY <1>7
  <2>1. slots[x] \in Batteries
    BY DEF AvailableAt, TypeOK, InventoryTyped
  <2>2. ActivateWithBattery(authorized, slots[x], now) \in Rental
    BY <1>1, <1>3, <2>1, EjectionTyped
  <2> QED
    BY <1>4, <1>5, <2>2, AddTyped, TakeTyped, SameTyped DEF TypeOK
<1>8. CASE AddRental(r, MarkReleased(FailEjection(authorized)), Refreshed(now)) /\ UNCHANGED inventory
  <2>1. MarkReleased(FailEjection(authorized)) \in Rental
    BY <1>3, EjectionTyped, MarkReleasedTyped
  <2> QED
    BY <1>4, <1>5, <1>8, <2>1, AddTyped, SameTyped DEF TypeOK
<1> QED
  BY <1>6, <1>7, <1>8 DEF MockStart, opened, authorized

LEMMA MockReturnTyped ==
  ASSUME TypeOK, NEW r \in DOMAIN rentals, NEW s \in Stations, NEW t \in 0..now,
         NEW detected \in BOOLEAN, MockReturn(r, s, t, detected)
  PROVE  TypeOK'
<1> DEFINE before == IF detected THEN rentals ELSE Refreshed(now)
           due == PrepareReturn(before[r], s, t)
<1>1. t \in Nat /\ now \in Nat
  BY DEF TypeOK
<1>2. before \in [DOMAIN rentals -> Rental]
  BY <1>1, RefreshedTyped DEF TypeOK, RentalsTyped
<1>3. before[r] \in Rental
  BY <1>2
<1>4. due \in Rental
  BY <1>1, <1>3, PrepareReturnTyped
<1>5. MarkCaptured(due, due.amount) \in Rental
  BY <1>4, MarkCapturedTyped DEF Rental
<1>6. /\ CanReturn(before[r], t)
      /\ PlaceDeclared(before[r].battery, s) \/ PlaceDetected(before[r].battery, s)
      /\ rentals' = [before EXCEPT ![r] = MarkCaptured(due, due.amount)]
      /\ UNCHANGED settings /\ UNCHANGED now
  BY DEF MockReturn
<1>7. before[r].battery \in Batteries
  BY <1>3, <1>6 DEF CanReturn, Rental
<1> HIDE DEF before, due
<1>8. RentalsTyped'
  BY <1>2, <1>5, <1>6 DEF TypeOK, RentalsTyped
<1> QED
  BY <1>6, <1>7, <1>8, PlaceTyped, SameTyped DEF TypeOK

LEMMA CreateTyped ==
  ASSUME TypeOK, NEW r \in RentalIds, NEW c \in Customers, NEW s \in Stations, Create(r, c, s)
  PROVE  TypeOK'
<1>1. NewRental(c, s, grid) \in Rental
  BY NewRentalTyped DEF TypeOK, SettingsTyped
<1>2. AddRental(r, NewRental(c, s, grid), rentals) /\ UNCHANGED <<inventory, settings, now>>
  BY DEF Create
<1>3. rentals \in [DOMAIN rentals -> Rental]
  BY DEF TypeOK, RentalsTyped
<1> QED
  BY <1>1, <1>2, <1>3, AddTyped, SameTyped DEF TypeOK

LEMMA OpeningTyped ==
  ASSUME TypeOK, NEW r \in DOMAIN rentals, Opening(r)
  PROVE  TypeOK'
<1>1. CASE AttachPayment(r)
  BY <1>1, ThereTyped, AttachIntentTyped, RewriteTyped, IdleTyped DEF AttachPayment
<1>2. CASE PaymentFailed(r)
  BY <1>2, ThereTyped, MarkPaymentFailedTyped, RewriteTyped DEF PaymentFailed
<1>3. CASE Authorize(r)
  <2> DEFINE record == RecordAuthorized(rentals[r], rentals[r].pricing.deposit, "stripe")
  <2>1. record \in Rental
    BY ThereTyped, RecordAuthorizedTyped
  <2> HIDE DEF record
  <2>2. [record EXCEPT !.state = "PAYMENT_AUTH"] \in Rental
    BY <2>1, StateNames DEF Rental
  <2> QED
    BY <1>3, <2>2, RewriteTyped, IdleTyped DEF Authorize, record
<1>4. CASE \E to \in {"EXPIRED", "CANCELLED"} : Expire(r, to)
  BY <1>4, ThereTyped, ExpireUnconfirmedTyped, RewriteTyped, IdleTyped DEF Expire
<1> QED
  BY <1>1, <1>2, <1>3, <1>4 DEF Opening

LEMMA RecordEjectedTyped ==
  ASSUME TypeOK, NEW r \in DOMAIN rentals, NEW b \in Batteries, NEW t \in Nat, RecordEjected(r, b, t)
  PROVE  TypeOK'
<1>1. ActivateWithBattery(rentals[r], b, t) \in Rental
  BY ThereTyped, EjectionTyped
<1>2. PICK x \in AvailableAt(rentals[r].station) : TakeFrom(x)
  BY DEF RecordEjected
<1>3. InventoryTyped'
  BY <1>2, ThereTyped, TakeTyped DEF TypeOK
<1> QED
  BY <1>1, <1>3, UpdateTyped, SameTyped DEF RecordEjected, TypeOK

LEMMA EjectAndActivateTyped ==
  ASSUME TypeOK, NEW r \in DOMAIN rentals, NEW t \in Nat, EjectAndActivate(r, t)
  PROVE  TypeOK'
<1>1. CASE UNCHANGED <<rentals, inventory>>
  BY <1>1, IdleTyped DEF EjectAndActivate
<1>2. CASE \E x \in AvailableAt(rentals[r].station) :
             TakeFrom(x) /\ Update(r, ActivateWithBattery(BeginEjection(rentals[r]), slots[x], t))
  <2> PICK x \in AvailableAt(rentals[r].station) :
             TakeFrom(x) /\ Update(r, ActivateWithBattery(BeginEjection(rentals[r]), slots[x], t))
    BY <1>2
  <2>1. slots[x] \in Batteries
    BY DEF AvailableAt, TypeOK, InventoryTyped
  <2>2. ActivateWithBattery(BeginEjection(rentals[r]), slots[x], t) \in Rental
    BY <2>1, ThereTyped, EjectionTyped
  <2>3. InventoryTyped'
    BY ThereTyped, TakeTyped DEF TypeOK
  <2> QED
    BY <2>2, <2>3, UpdateTyped, SameTyped DEF EjectAndActivate, TypeOK
<1> QED
  BY <1>1, <1>2 DEF EjectAndActivate

LEMMA EjectingTyped ==
  ASSUME TypeOK, NEW r \in DOMAIN rentals, Ejecting(r)
  PROVE  TypeOK'
<1>1. Clock \subseteq Nat
  BY DEF Clock, TypeOK
<1>2. CASE ClaimEjection(r)
  BY <1>2, ThereTyped, EjectionTyped, RewriteTyped DEF ClaimEjection
<1>3. CASE FailAndRelease(r) \/ ResolveNotEjected(r)
  BY <1>3, ThereTyped, EjectionTyped, MarkReleasedTyped, RewriteTyped
     DEF FailAndRelease, ResolveNotEjected
<1>4. CASE EjectionUncertain(r)
  BY <1>4, ThereTyped, EjectionTyped, RewriteTyped DEF EjectionUncertain
<1>5. CASE \E t \in Clock : EjectAndActivate(r, t)
  BY <1>1, <1>5, EjectAndActivateTyped
<1>6. CASE \E b \in Batteries, t \in Clock : RecordEjected(r, b, t) \/ ResolveEjected(r, b, t)
  BY <1>1, <1>6, RecordEjectedTyped DEF ResolveEjected
<1> QED
  BY <1>2, <1>3, <1>4, <1>5, <1>6 DEF Ejecting

LEMMA ReturnTyped ==
  ASSUME TypeOK, NEW r \in DOMAIN rentals, NEW s \in Stations, NEW t \in 0..now,
         NEW detected \in BOOLEAN, Return(r, s, t, detected)
  PROVE  TypeOK'
<1>1. CASE UNCHANGED <<rentals, inventory>>
  BY <1>1, IdleTyped DEF Return
<1>2. CASE /\ CanReturn(rentals[r], t)
           /\ PlaceDeclared(rentals[r].battery, s) \/ PlaceDetected(rentals[r].battery, s)
           /\ Update(r, PrepareReturn(rentals[r], s, t))
  <2>1. t \in Nat
    BY DEF TypeOK
  <2>2. PrepareReturn(rentals[r], s, t) \in Rental
    BY <2>1, ThereTyped, PrepareReturnTyped
  <2>3. rentals[r].battery \in Batteries
    BY <1>2, ThereTyped DEF CanReturn
  <2>4. InventoryTyped'
    BY <1>2, <2>3, PlaceTyped DEF TypeOK
  <2> QED
    BY <1>2, <2>2, <2>4, UpdateTyped, SameTyped DEF Return, TypeOK
<1> QED
  BY <1>1, <1>2 DEF Return

LEMMA SettlingTyped ==
  ASSUME TypeOK, NEW r \in DOMAIN rentals, Settling(r)
  PROVE  TypeOK'
<1>1. CASE \E s \in Stations, t \in 0..now, detected \in BOOLEAN : Return(r, s, t, detected)
  BY <1>1, ReturnTyped
<1>2. CASE PaymentCaptured(r)
  BY <1>2, ThereTyped, MarkCapturedTyped, RewriteTyped DEF PaymentCaptured
<1>3. CASE CompleteSettlement(r)
  BY <1>3, ThereTyped, CompleteTyped, RewriteTyped DEF CompleteSettlement
<1>4. CASE PaymentUnknown(r)
  BY <1>4, ThereTyped, MarkPaymentUnknownTyped, RewriteTyped DEF PaymentUnknown
<1> QED
  BY <1>1, <1>2, <1>3, <1>4 DEF Settling

\* The record a Stripe event leaves: a status, an amount, and perhaps a state of the rental.
LEMMA ProjectionTyped ==
  ASSUME NEW r \in Rental, NEW st \in States, NEW ps \in PaymentStates, NEW cents \in Nat
  PROVE  /\ [r EXCEPT !.state = st] \in Rental
         /\ [r EXCEPT !.paymentState = ps, !.payment.status = ps] \in Rental
         /\ [r EXCEPT !.paymentState = ps, !.payment.status = ps, !.payment.authorized = cents] \in Rental
         /\ [r EXCEPT !.paymentState = ps, !.payment.status = ps, !.state = st] \in Rental
         /\ [r EXCEPT !.payment.refunded = cents] \in Rental
<1>1. /\ [r.payment EXCEPT !.status = ps] \in Payment
      /\ [r.payment EXCEPT !.status = ps, !.authorized = cents] \in Payment
      /\ [r.payment EXCEPT !.refunded = cents] \in Payment
  BY DEF Rental, Payment
<1>2. [r EXCEPT !.state = st] \in Rental
  BY DEF Rental
<1>3. [r EXCEPT !.paymentState = ps, !.payment.status = ps] \in Rental
  BY <1>1 DEF Rental
<1>4. [r EXCEPT !.paymentState = ps, !.payment.status = ps, !.payment.authorized = cents] \in Rental
  BY <1>1 DEF Rental
<1>5. [r EXCEPT !.paymentState = ps, !.payment.status = ps, !.state = st] \in Rental
  BY <1>1 DEF Rental
<1>6. [r EXCEPT !.payment.refunded = cents] \in Rental
  BY <1>1 DEF Rental
<1> QED
  BY <1>2, <1>3, <1>4, <1>5, <1>6

LEMMA WebhookTyped ==
  ASSUME TypeOK, NEW r \in DOMAIN rentals, Webhook(r)
  PROVE  TypeOK'
<1> DEFINE record == rentals[r]
<1>1. /\ record \in Rental /\ record.payment \in Payment
      /\ record.payment.captured \in Nat /\ record.amount \in Nat
  BY ThereTyped
<1>2. Unexpected(r) \in States
  BY <1>1, StateNames DEF Unexpected, Rental
<1>3. WebhookAmounts \subseteq Nat
  BY BoundsAssumption
<1>4. ASSUME NEW new \in Rental, Project(r, new)
      PROVE  TypeOK'
  BY <1>4, RewriteTyped DEF Project
<1>5. CASE \E cents \in WebhookAmounts : WebhookCapturable(r, cents)
  <2> PICK cents \in WebhookAmounts : WebhookCapturable(r, cents)
    BY <1>5
  <2>1. Authorized(record.payment, cents, "stripe") \in Payment
    BY <1>1, <1>3, PaymentStateNames DEF Authorized, Payment
  <2>2. [record EXCEPT !.paymentState = "AUTHORIZED",
                       !.payment = Authorized(record.payment, cents, "stripe")] \in Rental
    BY <1>1, <2>1, PaymentStateNames DEF Rental
  <2> QED
    BY <1>4, <2>2 DEF WebhookCapturable
<1>6. CASE \E cents \in WebhookAmounts : WebhookSucceeded(r, cents)
  <2> PICK cents \in WebhookAmounts : WebhookSucceeded(r, cents)
    BY <1>6
  <2> DEFINE to == IF record.state = "RETURNED" /\ cents = record.amount THEN "COMPLETED" ELSE record.state
  <2>1. to \in States
    BY <1>1, StateNames DEF Rental
  <2>2. Captured(record.payment, cents) \in Payment
    BY <1>1, <1>3, CapturedTyped
  <2> HIDE DEF to
  <2>3. [record EXCEPT !.paymentState = "CAPTURED", !.payment = Captured(record.payment, cents),
                       !.state = to] \in Rental
    BY <1>1, <2>1, <2>2, PaymentStateNames DEF Rental
  <2>4. [record EXCEPT !.paymentState = "UNKNOWN", !.payment.status = "UNKNOWN"] \in Rental
    BY <1>1, ProjectionTyped, StateNames, PaymentStateNames
  <2> QED
    BY <1>4, <2>3, <2>4 DEF WebhookSucceeded, to
<1>7. CASE \E cents \in WebhookAmounts : WebhookRefunded(r, cents)
  BY <1>1, <1>3, <1>4, <1>7, ProjectionTyped, StateNames, PaymentStateNames DEF WebhookRefunded
<1>8. CASE WebhookCanceled(r)
  <2>1. MarkReleased(record) \in Rental
    BY <1>1, MarkReleasedTyped
  <2>2. [MarkReleased(record) EXCEPT !.state = Unexpected(r)] \in Rental
    BY <1>2, <2>1, ProjectionTyped, PaymentStateNames
  <2> QED
    BY <1>4, <1>8, <2>2 DEF WebhookCanceled
<1>9. CASE WebhookFailed(r)
  BY <1>1, <1>2, <1>4, <1>9, ProjectionTyped, PaymentStateNames DEF WebhookFailed
<1> QED
  BY <1>5, <1>6, <1>7, <1>8, <1>9 DEF Webhook

LEMMA CommonTyped ==
  ASSUME TypeOK, CommonStep
  PROVE  TypeOK'
<1>1. Clock \subseteq Nat /\ now \in Nat
  BY DEF Clock, TypeOK
<1>2. CASE RefreshOverdue
  <2>1. Refreshed(now) \in [DOMAIN rentals -> Rental]
    BY <1>1, RefreshedTyped DEF TypeOK
  <2>2. RentalsTyped'
    BY <1>2, <2>1 DEF RefreshOverdue, RentalsTyped, TypeOK
  <2> QED
    BY <1>2, <2>2, SameTyped DEF RefreshOverdue, TypeOK
<1>3. CASE \E r \in DOMAIN rentals : \E cents \in 1..rentals[r].payment.captured : Refund(r, cents)
  <2> PICK r \in DOMAIN rentals : \E cents \in 1..rentals[r].payment.captured : Refund(r, cents)
    BY <1>3
  <2> PICK cents \in 1..rentals[r].payment.captured : Refund(r, cents)
    OBVIOUS
  <2>1. MarkRefunded(rentals[r], cents) \in Rental
    BY ThereTyped, MarkRefundedTyped
  <2> QED
    BY <2>1, RewriteTyped DEF Refund
<1>4. CASE \E r \in DOMAIN rentals, t \in Clock :
             \E cents \in {rentals[r].pricing.deposit, rentals[r].payment.captured} : DepositLost(r, cents, t)
  <2> PICK r \in DOMAIN rentals, t \in Clock :
             \E cents \in {rentals[r].pricing.deposit, rentals[r].payment.captured} : DepositLost(r, cents, t)
    BY <1>4
  <2> PICK cents \in {rentals[r].pricing.deposit, rentals[r].payment.captured} : DepositLost(r, cents, t)
    OBVIOUS
  <2>1. MarkLost(rentals[r], cents) \in Rental
    BY ThereTyped, MarkLostTyped
  <2>2. CASE UNCHANGED <<rentals, inventory>>
    BY <2>2, IdleTyped DEF DepositLost
  <2>3. CASE /\ Update(r, MarkLost(rentals[r], cents)) /\ UNCHANGED slots
             /\ batteries' = [batteries EXCEPT ![rentals[r].battery] = "LOST"]
    <3>1. InventoryTyped'
      BY <2>3 DEF InventoryTyped, TypeOK, BatteryStatuses
    <3> QED
      BY <2>1, <2>3, <3>1, UpdateTyped, SameTyped DEF DepositLost, TypeOK
  <2> QED
    BY <2>2, <2>3 DEF DepositLost
<1> QED
  BY <1>2, <1>3, <1>4 DEF CommonStep

LEMMA OperateTyped ==
  ASSUME TypeOK, Operate
  PROVE  TypeOK'
<1>1. CASE \E s \in Stations, flag \in StationFlags, value \in BOOLEAN : SetFlag(s, flag, value)
  <2>1. StationFlags \subseteq {"online", "blocked"}
    BY FailureModesAssumption
  <2>2. SettingsTyped'
    BY <1>1, <2>1 DEF SetFlag, SetStation, SettingsTyped, Station, TypeOK
  <2> QED
    BY <1>1, <2>2, SameTyped DEF SetFlag, SetStation, TypeOK
<1>2. CASE \E g \in Pricings : SetPricing(g)
  BY <1>2, SameTyped DEF SetPricing, SettingsTyped, TypeOK
<1>3. CASE \E b \in Batteries, s \in Stations : OutOfService(b) \/ BackInService(b, s)
  <2> PICK b \in Batteries, s \in Stations : OutOfService(b) \/ BackInService(b, s)
    BY <1>3
  <2>1. batteries' \in [Batteries -> BatteryStatuses]
    BY DEF OutOfService, BackInService, BatteryStatuses, TypeOK, InventoryTyped
  <2>2. slots' \in [Slots -> Batteries \cup {None}]
    BY PutTyped DEF OutOfService, BackInService, FreeAt, TypeOK, InventoryTyped
  <2> QED
    BY <2>1, <2>2, SameTyped DEF OutOfService, BackInService, InventoryTyped, TypeOK
<1>4. CASE \E s \in Stations : \E content \in Contents(s) : MirrorCabinet(s, content)
  <2> PICK s \in Stations : \E content \in Contents(s) : MirrorCabinet(s, content)
    BY <1>4
  <2> PICK content \in Contents(s) : MirrorCabinet(s, content)
    OBVIOUS
  <2>1. \A x \in DOMAIN content : content[x] \in Batteries \cup {None}
    BY DEF Contents
  <2>2. slots' \in [Slots -> Batteries \cup {None}]
    BY <2>1 DEF MirrorCabinet, TypeOK, InventoryTyped
  <2>3. batteries' \in [Batteries -> BatteryStatuses]
    BY DEF MirrorCabinet, BatteryStatuses, TypeOK, InventoryTyped
  <2> QED
    BY <2>2, <2>3, SameTyped DEF MirrorCabinet, InventoryTyped, TypeOK
<1> QED
  BY <1>1, <1>2, <1>3, <1>4 DEF Operate

LEMMA SimulateTyped ==
  ASSUME TypeOK, Simulate
  PROVE  TypeOK'
<1>1. Refreshed(now) \in [DOMAIN rentals -> Rental] /\ DOMAIN rentals \subseteq RentalIds
  BY RefreshedTyped DEF TypeOK, RentalsTyped
<1>2. CASE \E s \in Stations, f \in FailureModes \cup {"none"} : SetFailure(s, f)
  <2>1. SettingsTyped'
    BY <1>2 DEF SetFailure, SetStation, SettingsTyped, Station, TypeOK
  <2> QED
    BY <1>2, <2>1, SameTyped DEF SetFailure, SetStation, TypeOK
<1>3. CASE \E s \in Stations, status \in {"AVAILABLE", "MAINTENANCE"} : SimulateStock(s, status)
  <2>1. RentalsTyped'
    BY <1>1, <1>3 DEF SimulateStock, RentalsTyped
  <2>2. InventoryTyped'
    BY <1>3 DEF SimulateStock, InventoryTyped, BatteryStatuses, TypeOK
  <2> QED
    BY <1>3, <2>1, <2>2, SameTyped DEF SimulateStock, TypeOK
<1>4. CASE \E r \in DOMAIN rentals, hours \in 1..MaxSimulated : SimulateDelay(r, hours)
  <2> PICK r \in DOMAIN rentals, hours \in 1..MaxSimulated : SimulateDelay(r, hours)
    BY <1>4
  <2> DEFINE late == Refreshed(now)[r].simulated + hours
             delayed == [Refreshed(now)[r] EXCEPT !.simulated = late]
             record == IF IsLate(delayed, now) THEN [delayed EXCEPT !.state = "OVERDUE"] ELSE delayed
  <2>1. Refreshed(now)[r] \in Rental
    BY <1>1
  <2>2. late \in Nat
    BY <2>1 DEF Rental
  <2> HIDE DEF late
  <2>3. delayed \in Rental
    BY <2>1, <2>2 DEF Rental
  <2> HIDE DEF delayed
  <2>4. record \in Rental
    BY <2>3, ProjectionTyped, StateNames, PaymentStateNames
  <2> HIDE DEF record
  <2>5. rentals' = [Refreshed(now) EXCEPT ![r] = record] /\ UNCHANGED <<inventory, settings, now>>
    BY DEF SimulateDelay, record, delayed, late
  <2>6. RentalsTyped'
    BY <1>1, <2>4, <2>5 DEF RentalsTyped
  <2> QED
    BY <2>5, <2>6, SameTyped DEF TypeOK
<1> QED
  BY <1>2, <1>3, <1>4 DEF Simulate

LEMMA NextTyped ==
  ASSUME TypeOK, [Next]_vars
  PROVE  TypeOK'
<1>1. CASE MockStep
  BY <1>1, MockStartTyped, MockReturnTyped DEF MockStep
<1>2. CASE StripeStep
  BY <1>2, CreateTyped, OpeningTyped, EjectingTyped, SettlingTyped, WebhookTyped DEF StripeStep
<1>3. CASE CommonStep
  BY <1>3, CommonTyped
<1>4. CASE Operate
  BY <1>4, OperateTyped
<1>5. CASE Simulate
  BY <1>5, SimulateTyped
<1>6. CASE SwitchToStripe
  BY <1>6, SameTyped DEF SwitchToStripe, SettingsTyped, TypeOK
<1>7. CASE Tick
  BY <1>7, SameTyped DEF Tick, TypeOK
<1>8. CASE UNCHANGED vars
  BY <1>8, IdleTyped DEF vars, inventory, settings
<1> QED
  BY <1>1, <1>2, <1>3, <1>4, <1>5, <1>6, <1>7, <1>8 DEF Next

\* Every row keeps a value its type allows, whatever the order of requests, events and jobs.
THEOREM TypeCorrect == Spec => []TypeOK
<1>1. Init => TypeOK
  BY InitTyped
<1>2. TypeOK /\ [Next]_vars => TypeOK'
  BY NextTyped
<1> QED
  BY <1>1, <1>2, PTL DEF Spec

-----------------------------------------------------------------------------
(* The gate: what validateData demands holds in every state, because every *)
(* transaction that writes rentals, slots or batteries passes it.          *)

LEMMA InitValid == Init => ValidData
<1> SUFFICES ASSUME Init PROVE ValidData
  OBVIOUS
<1>1. rentals = [r \in {} |-> NoPayment] /\ DOMAIN rentals = {}
  BY DEF Init
<1>2. SlottedOnce
  BY SlotsAssumption DEF Init, SlottedOnce
<1>3. BatteryLocation
  BY DEF Init, BatteryLocation, InSlot
<1> QED
  BY <1>1, <1>2, <1>3 DEF ValidData, OneOpenPerCustomer, OneOpenPerBattery, Open

LEMMA SameValid ==
  ASSUME ValidData, UNCHANGED rentals, UNCHANGED slots, UNCHANGED batteries
  PROVE  ValidData'
BY DEF ValidData, SlottedOnce, OneOpenPerCustomer, OneOpenPerBattery, Open, BatteryLocation, InSlot, HolderIn

LEMMA StepGated ==
  ASSUME [Next]_vars
  PROVE  Commit \/ (UNCHANGED rentals /\ UNCHANGED slots /\ UNCHANGED batteries)
<1>1. CASE MockStep
  BY <1>1 DEF MockStep, MockStart, MockReturn
<1>2. CASE StripeStep
  <2>1. CASE \E r \in RentalIds, c \in Customers, s \in Stations : Create(r, c, s)
    BY <2>1 DEF Create
  <2>2. CASE \E r \in DOMAIN rentals : Opening(r)
    BY <2>2 DEF Opening, AttachPayment, PaymentFailed, Authorize, Expire
  <2>3. CASE \E r \in DOMAIN rentals : Ejecting(r)
    BY <2>3 DEF Ejecting, ClaimEjection, FailAndRelease, EjectionUncertain, ResolveNotEjected,
                EjectAndActivate, RecordEjected, ResolveEjected
  <2>4. CASE \E r \in DOMAIN rentals : Settling(r)
    BY <2>4 DEF Settling, Return, PaymentCaptured, CompleteSettlement, PaymentUnknown
  <2>5. CASE \E r \in DOMAIN rentals : Webhook(r)
    BY <2>5 DEF Webhook, WebhookCapturable, WebhookSucceeded, WebhookRefunded, WebhookCanceled,
                WebhookFailed, Project
  <2> QED
    BY <1>2, <2>1, <2>2, <2>3, <2>4, <2>5 DEF StripeStep
<1>3. CASE CommonStep
  BY <1>3 DEF CommonStep, RefreshOverdue, Refund, DepositLost
<1>4. CASE Operate
  BY <1>4 DEF Operate, SetFlag, SetStation, SetPricing, OutOfService, BackInService, MirrorCabinet, inventory
<1>5. CASE Simulate
  BY <1>5 DEF Simulate, SetFailure, SetStation, SimulateStock, SimulateDelay, inventory
<1>6. CASE SwitchToStripe \/ Tick \/ UNCHANGED vars
  BY <1>6 DEF SwitchToStripe, Tick, vars, inventory
<1> QED
  BY <1>1, <1>2, <1>3, <1>4, <1>5, <1>6 DEF Next

\* The database never holds what validateData refuses.
THEOREM DataValid == Spec => []ValidData
<1>1. Init => ValidData
  BY InitValid
<1>2. ValidData /\ [Next]_vars => ValidData'
  BY StepGated, SameValid DEF Commit
<1> QED
  BY <1>1, <1>2, PTL DEF Spec

\* The states state-machine.ts gives a way out of are those OPEN_STATES counts as open.
LEMMA OpenHasEdges ==
  ASSUME NEW st \in States
  PROVE  /\ Edges[st] # {} <=> st \in OpenStates
         /\ Edges[st] = {} <=> st \in TerminalStates
BY DEF States, OpenStates, TerminalStates, Edges

\* A customer never has two rentals at a time, whatever requests race (validateData, and the
\* check of RentalEngine.create before it).
THEOREM OneRental == Spec => []OneRentalPerCustomer
<1>1. TypeOK /\ ValidData => OneRentalPerCustomer
  <2> SUFFICES ASSUME TypeOK, ValidData, NEW q \in DOMAIN rentals, NEW r \in DOMAIN rentals,
                      rentals[q].customer = rentals[r].customer,
                      Edges[rentals[q].state] # {}, Edges[rentals[r].state] # {}
               PROVE  q = r
    BY DEF OneRentalPerCustomer
  <2>1. rentals[q].state \in States /\ rentals[r].state \in States
    BY DEF TypeOK, RentalsTyped, Rental
  <2>2. q \in Open /\ r \in Open
    BY <2>1, OpenHasEdges DEF Open, IsOpen
  <2> QED
    BY <2>2 DEF ValidData, OneOpenPerCustomer
<1> QED
  BY <1>1, TypeCorrect, DataValid, PTL

-----------------------------------------------------------------------------
(* The life of one rental.  "Coherent" is what its row always satisfies,   *)
(* "Evolves" what any transaction but the forfeit may do to it; each       *)
(* operation of RentalEngine is shown to respect both under its guard.     *)

Early == {"CREATED", "PAYMENT_FAILED", "EXPIRED", "CANCELLED"}
\* The states from which an ejection may still be claimed, once.
Claimable == {"CREATED", "PAYMENT_AUTH"}

Coherent(r) ==
  /\ r.battery # None => r.state \in {"ACTIVE", "OVERDUE", "RETURN_PENDING", "RETURNED", "COMPLETED",
                                       "LOST", "ERROR"}
  /\ r.returnedAt # Never => r.state \in {"RETURNED", "COMPLETED", "ERROR"}
  /\ r.state \notin Early => /\ r.payment.authorized = r.pricing.deposit
                              /\ r.payment.status \notin {"NONE", "PENDING", "AUTHORIZING"}

\* The delay a demonstration simulates never shrinks.
Grew(old, new) == new = old \/ (old \in Nat /\ new \in Nat /\ new > old)

Kept(old, new) ==
  /\ old.state \in TerminalStates => new.state = old.state /\ new.simulated = old.simulated
  /\ new.state \in Claimable => old.state \in Claimable
  /\ new.pricing = old.pricing
  /\ Grew(old.simulated, new.simulated)
  /\ old.battery # None => new.battery = old.battery /\ new.startedAt = old.startedAt
  /\ old.returnedAt # Never => /\ new.returnedAt = old.returnedAt
                               /\ new.returnStation = old.returnStation
                               /\ new.amount = old.amount

Evolves(old, new) ==
  /\ Kept(old, new)
  /\ new.state = "LOST" => old.state = "LOST"
  /\ Coherent(new)

\* The finished states, one by one.
LEMMA TerminalNames ==
  TerminalStates = {"COMPLETED", "PAYMENT_FAILED", "EJECTION_FAILED", "CANCELLED", "EXPIRED", "LOST"}
BY DEF TerminalStates

LEMMA SameEvolves ==
  ASSUME NEW r, Coherent(r)
  PROVE  Evolves(r, r)
BY DEF Evolves, Kept, Grew, Claimable

LEMMA EvolvesTwice ==
  ASSUME NEW a, NEW b, NEW c, Evolves(a, b), Evolves(b, c)
  PROVE  Evolves(a, c)
BY DEF Evolves, Kept, Grew, Claimable

LEMMA LateEvolves ==
  ASSUME NEW r \in Rental, Coherent(r), r.state \in {"ACTIVE", "OVERDUE"}
  PROVE  Evolves(r, [r EXCEPT !.state = "OVERDUE"])
BY TerminalNames DEF Evolves, Kept, Grew, Claimable, Coherent, Early, Rental

LEMMA AuthorizeEvolves ==
  ASSUME NEW r \in Rental, Coherent(r), r.state = "CREATED", CanRecordAuthorized(r, r.pricing.deposit),
         NEW provider \in {"mock", "stripe"}
  PROVE  Evolves(r, [RecordAuthorized(r, r.pricing.deposit, provider) EXCEPT !.state = "PAYMENT_AUTH"])
<1>1. r.payment \in Payment
  BY DEF Rental
<1>2. r.battery = None /\ r.returnedAt = Never
  BY DEF Coherent
<1>3. CASE r.payment.status = "AUTHORIZED"
  BY <1>1, <1>2, <1>3, TerminalNames
     DEF RecordAuthorized, CanRecordAuthorized, HasPayment, Evolves, Kept, Grew, Claimable, Coherent, Early, Rental
<1>4. CASE r.payment.status # "AUTHORIZED"
  <2> DEFINE paid == Authorized(r.payment, r.pricing.deposit, provider)
  <2>1. paid.status = "AUTHORIZED" /\ paid.authorized = r.pricing.deposit
    BY <1>1 DEF Authorized, Payment
  <2> HIDE DEF paid
  <2> QED
    BY <1>2, <1>4, <2>1, TerminalNames
       DEF RecordAuthorized, Evolves, Kept, Grew, Claimable, Coherent, Early, Rental, paid
<1> QED
  BY <1>3, <1>4

LEMMA OpeningEvolves ==
  ASSUME NEW r \in Rental, Coherent(r), NEW provider \in {"mock", "stripe"}
  PROVE  /\ r.state = "CREATED" => Evolves(r, AttachIntent(r))
         /\ r.state = "CREATED" =>
              \A to \in {"EXPIRED", "CANCELLED"} : Evolves(r, ExpireUnconfirmed(r, to))
         /\ HasPayment(r) \/ r.state \in Early => Evolves(r, MarkPaymentFailed(r, provider))
<1> USE TerminalNames DEF Evolves, Kept, Grew, Claimable, Coherent, Early, Rental
<1>1. r.state = "CREATED" => Evolves(r, AttachIntent(r))
  BY DEF AttachIntent
<1>2. ASSUME r.state = "CREATED", NEW to \in {"EXPIRED", "CANCELLED"}
      PROVE  Evolves(r, ExpireUnconfirmed(r, to))
  BY <1>2 DEF ExpireUnconfirmed
<1>3. ASSUME HasPayment(r) \/ r.state \in Early
      PROVE  Evolves(r, MarkPaymentFailed(r, provider))
  BY <1>3 DEF MarkPaymentFailed, HasPayment, Payment
<1> QED
  BY <1>1, <1>2, <1>3

LEMMA EjectingEvolves ==
  ASSUME NEW r \in Rental, Coherent(r)
  PROVE  /\ r.state = "PAYMENT_AUTH" => Evolves(r, BeginEjection(r))
         /\ r.state = "EJECTING" =>
              \A b \in Batteries, t \in Nat : Evolves(r, ActivateWithBattery(r, b, t))
         /\ Evolves(r, FailEjection(r))
         /\ CanMarkUncertain(r) => Evolves(r, MarkUncertain(r))
<1> USE TerminalNames DEF Evolves, Kept, Grew, Claimable, Coherent, Early, Rental
<1>1. r.state = "PAYMENT_AUTH" => Evolves(r, BeginEjection(r))
  BY DEF BeginEjection
<1>2. ASSUME r.state = "EJECTING", NEW b \in Batteries, NEW t \in Nat
      PROVE  Evolves(r, ActivateWithBattery(r, b, t))
  BY <1>2 DEF ActivateWithBattery
<1>3. Evolves(r, FailEjection(r))
  BY DEF FailEjection
<1>4. ASSUME CanMarkUncertain(r) PROVE Evolves(r, MarkUncertain(r))
  BY <1>4 DEF MarkUncertain, CanMarkUncertain
<1> QED
  BY <1>1, <1>2, <1>3, <1>4

LEMMA ReleaseEvolves ==
  ASSUME NEW r \in Rental, Coherent(r), r.payment.status # "NONE"
  PROVE  /\ Evolves(r, MarkReleased(r))
         /\ MarkReleased(r).state = r.state
<1>1. /\ Freed(r.payment).status = "RELEASED"
      /\ Freed(r.payment).authorized = r.payment.authorized
  BY DEF Freed, Rental, Payment
<1> QED
  BY <1>1 DEF MarkReleased, Evolves, Kept, Grew, Claimable, Coherent, Rental

LEMMA UnknownEvolves ==
  ASSUME NEW r \in Rental, Coherent(r)
  PROVE  Evolves(r, MarkPaymentUnknown(r))
<1>1. /\ [r.payment EXCEPT !.status = "UNKNOWN"].status = "UNKNOWN"
      /\ [r.payment EXCEPT !.status = "UNKNOWN"].authorized = r.payment.authorized
  BY DEF Rental, Payment
<1> QED
  BY <1>1, TerminalNames DEF MarkPaymentUnknown, HasPayment, Evolves, Kept, Grew, Claimable, Coherent, Early, Rental

\* Only a rental whose battery is out may be returned, so nothing returned is returned again.
LEMMA ReturnEvolves ==
  ASSUME NEW r \in Rental, Coherent(r), NEW s \in Stations, NEW t \in Nat, CanReturn(r, t)
  PROVE  /\ Evolves(r, PrepareReturn(r, s, t))
         /\ PrepareReturn(r, s, t).state = "RETURNED"
BY TerminalNames DEF PrepareReturn, CanReturn, Evolves, Kept, Grew, Claimable, Coherent, Early, Rental

LEMMA CompleteEvolves ==
  ASSUME NEW r \in Rental, Coherent(r), CanComplete(r)
  PROVE  Evolves(r, Complete(r))
BY TerminalNames DEF CanComplete, AwaitsSettlement, Complete, Evolves, Kept, Grew, Claimable, Coherent, Early, Rental

LEMMA CapturedFields ==
  ASSUME NEW p \in Payment, NEW cents \in Nat
  PROVE  Captured(p, cents).status = "CAPTURED" /\ Captured(p, cents).authorized = p.authorized
BY DEF Captured, Payment

LEMMA CaptureEvolves ==
  ASSUME NEW r \in Rental, Coherent(r), NEW cents \in Nat, CanComplete(r)
  PROVE  Evolves(r, MarkCaptured(r, cents))
<1> DEFINE paid == IF r.payment.status = "CAPTURED" THEN r
                   ELSE [r EXCEPT !.paymentState = "CAPTURED", !.payment = Captured(r.payment, cents)]
<1>1. Captured(r.payment, cents) \in Payment
  BY CapturedTyped DEF Rental
<1>2. /\ Captured(r.payment, cents).status = "CAPTURED"
      /\ Captured(r.payment, cents).authorized = r.payment.authorized
  BY CapturedFields DEF Rental
<1>3. paid \in Rental
  BY <1>1, PaymentStateNames DEF Rental
<1>4. Evolves(r, paid)
  BY <1>2 DEF Evolves, Kept, Grew, Claimable, Coherent, Rental
<1>5. CanComplete(paid)
  BY DEF CanComplete, AwaitsSettlement, Rental
<1>6. Evolves(paid, Complete(paid))
  BY <1>3, <1>4, <1>5, CompleteEvolves DEF Evolves
<1>7. MarkCaptured(r, cents) = Complete(paid)
  BY DEF MarkCaptured
<1> HIDE DEF paid
<1> QED
  BY <1>4, <1>6, <1>7, EvolvesTwice

LEMMA RefundEvolves ==
  ASSUME NEW r \in Rental, Coherent(r), NEW cents \in Nat
  PROVE  Evolves(r, [r EXCEPT !.payment.refunded = cents])
<1>1. /\ [r.payment EXCEPT !.refunded = cents].status = r.payment.status
      /\ [r.payment EXCEPT !.refunded = cents].authorized = r.payment.authorized
  BY DEF Rental, Payment
<1> QED
  BY <1>1 DEF Evolves, Kept, Grew, Claimable, Coherent, Rental

\* The forfeit is the one way to LOST; it leaves the history as it was.
LEMMA LostKept ==
  ASSUME NEW r \in Rental, Coherent(r), NEW cents \in Nat, r.state = "OVERDUE"
  PROVE  Kept(r, MarkLost(r, cents)) /\ Coherent(MarkLost(r, cents)) /\ r.returnedAt = Never
<1>1. /\ Captured(r.payment, cents).status = "CAPTURED"
      /\ Captured(r.payment, cents).authorized = r.payment.authorized
  BY CapturedFields DEF Rental
<1> QED
  BY <1>1, TerminalNames DEF MarkLost, Kept, Grew, Claimable, Coherent, Early, Rental

-----------------------------------------------------------------------------
(* The life of every rental: one lemma per group of transactions.          *)

AllCoherent == \A r \in DOMAIN rentals : Coherent(rentals[r])

Progress ==
  /\ \A q \in DOMAIN rentals : q \in DOMAIN rentals' /\ Evolves(rentals[q], rentals'[q])
  /\ \A q \in DOMAIN rentals' \ DOMAIN rentals : Coherent(rentals'[q]) /\ rentals'[q].state # "LOST"

LEMMA SameProgress ==
  ASSUME AllCoherent, UNCHANGED rentals
  PROVE  Progress
BY SameEvolves DEF AllCoherent, Progress

LEMMA RewriteProgress ==
  ASSUME TypeOK, AllCoherent, NEW r \in DOMAIN rentals, NEW record,
         Update(r, record), Evolves(rentals[r], record)
  PROVE  Progress
BY SameEvolves DEF AllCoherent, Progress, Update, TypeOK, RentalsTyped

LEMMA RefreshedEvolves ==
  ASSUME TypeOK, AllCoherent, NEW t \in Nat, NEW r \in DOMAIN rentals
  PROVE  /\ DOMAIN Refreshed(t) = DOMAIN rentals
         /\ Refreshed(t)[r] \in Rental
         /\ Evolves(rentals[r], Refreshed(t)[r])
<1>1. DOMAIN Refreshed(t) = DOMAIN rentals /\ Refreshed(t)[r] \in Rental
  BY RefreshedTyped DEF TypeOK
<1>2. rentals[r] \in Rental /\ Coherent(rentals[r])
  BY ThereTyped DEF AllCoherent
<1>3. CASE IsLate(rentals[r], t)
  <2>1. rentals[r].state = "ACTIVE"
    BY <1>3 DEF IsLate
  <2>2. Evolves(rentals[r], [rentals[r] EXCEPT !.state = "OVERDUE"])
    BY <1>2, <2>1, LateEvolves
  <2>3. Refreshed(t)[r] = [rentals[r] EXCEPT !.state = "OVERDUE"]
    BY <1>3 DEF Refreshed
  <2> QED
    BY <1>1, <2>2, <2>3
<1>4. CASE ~IsLate(rentals[r], t)
  BY <1>1, <1>2, <1>4, SameEvolves DEF Refreshed
<1> QED
  BY <1>1, <1>3, <1>4

LEMMA RefreshProgress ==
  ASSUME TypeOK, AllCoherent, rentals' = Refreshed(now)
  PROVE  Progress
<1>1. now \in Nat
  BY DEF TypeOK
<1>2. \A q \in DOMAIN rentals : q \in DOMAIN rentals' /\ Evolves(rentals[q], rentals'[q])
  BY <1>1, RefreshedEvolves
<1>3. DOMAIN rentals' = DOMAIN rentals
  BY DEF Refreshed
<1> QED
  BY <1>2, <1>3 DEF Progress

\* A rental that is opened, the others being brought up to date.
LEMMA AddProgress ==
  ASSUME NEW r, r \notin DOMAIN rentals, NEW record, Coherent(record), record.state # "LOST",
         NEW others, \A q \in DOMAIN rentals : Evolves(rentals[q], others[q]),
         AddRental(r, record, others)
  PROVE  Progress
BY DEF AddRental, Progress

LEMMA CreateProgress ==
  ASSUME TypeOK, AllCoherent, NEW r \in RentalIds, NEW c \in Customers, NEW s \in Stations, Create(r, c, s)
  PROVE  Progress
<1>1. /\ r \notin DOMAIN rentals
      /\ AddRental(r, NewRental(c, s, grid), rentals)
  BY DEF Create, CanOpen
<1>2. Coherent(NewRental(c, s, grid)) /\ NewRental(c, s, grid).state # "LOST"
  BY DEF NewRental, Coherent, Early
<1>3. \A q \in DOMAIN rentals : Evolves(rentals[q], rentals[q])
  BY SameEvolves DEF AllCoherent
<1> QED
  BY <1>1, <1>2, <1>3, AddProgress

LEMMA MockStartProgress ==
  ASSUME TypeOK, AllCoherent, NEW r \in RentalIds, NEW c \in Customers, NEW s \in Stations,
         MockStart(r, c, s)
  PROVE  Progress
<1> DEFINE opened == NewRental(c, s, grid)
           paid == RecordAuthorized(opened, grid.deposit, "mock")
           authorized == BeginEjection(paid)
<1>1. grid \in Pricings /\ now \in Nat /\ r \notin DOMAIN rentals
  BY DEF TypeOK, SettingsTyped, MockStart, CanOpen
<1>2. \A q \in DOMAIN rentals : Evolves(rentals[q], Refreshed(now)[q])
  BY <1>1, RefreshedEvolves
<1>3. opened \in Rental /\ paid \in Rental /\ authorized \in Rental
  BY <1>1, NewRentalTyped, GridTyped, RecordAuthorizedTyped, EjectionTyped
<1>4. /\ opened.state = "CREATED" /\ opened.pricing = grid /\ opened.battery = None
      /\ opened.returnedAt = Never /\ opened.payment = NoPayment
  BY DEF NewRental
<1> HIDE DEF opened
<1>5. Coherent(opened)
  BY <1>4 DEF Coherent, Early
<1>6. /\ authorized.state = "EJECTING" /\ authorized.pricing = grid /\ authorized.battery = None
      /\ authorized.returnedAt = Never
      /\ authorized.payment.status = "AUTHORIZED" /\ authorized.payment.authorized = grid.deposit
  <2>1. opened.payment \in Payment /\ opened.payment.status = "NONE"
    BY <1>3, <1>4 DEF Rental, NoPayment
  <2>2. /\ Authorized(opened.payment, grid.deposit, "mock").status = "AUTHORIZED"
        /\ Authorized(opened.payment, grid.deposit, "mock").authorized = grid.deposit
    BY <2>1 DEF Authorized, Payment
  <2>3. /\ paid.payment.status = "AUTHORIZED" /\ paid.payment.authorized = grid.deposit
        /\ paid.pricing = grid /\ paid.battery = None /\ paid.returnedAt = Never
    BY <1>3, <1>4, <2>1, <2>2 DEF RecordAuthorized, Rental
  <2> HIDE DEF paid
  <2> QED
    BY <1>3, <2>3 DEF BeginEjection, Rental
<1> HIDE DEF paid, authorized
<1>7. Coherent(authorized)
  BY <1>6 DEF Coherent, Early
<1>8. CASE AddRental(r, MarkPaymentFailed(opened, "mock"), Refreshed(now))
  <2>1. Evolves(opened, MarkPaymentFailed(opened, "mock"))
    BY <1>3, <1>4, <1>5, OpeningEvolves DEF Early
  <2> QED
    BY <1>1, <1>2, <1>4, <1>8, <2>1, AddProgress DEF Evolves
<1>9. CASE \E x \in AvailableAt(s) :
             TakeFrom(x) /\ AddRental(r, ActivateWithBattery(authorized, slots[x], now), Refreshed(now))
  <2> PICK x \in AvailableAt(s) : AddRental(r, ActivateWithBattery(authorized, slots[x], now), Refreshed(now))
    BY <1>9
  <2>1. slots[x] \in Batteries
    BY DEF AvailableAt, TypeOK, InventoryTyped
  <2>2. Evolves(authorized, ActivateWithBattery(authorized, slots[x], now))
    BY <1>1, <1>3, <1>6, <1>7, <2>1, EjectingEvolves
  <2> QED
    BY <1>1, <1>2, <1>6, <2>2, AddProgress DEF Evolves
<1>10. CASE AddRental(r, MarkReleased(FailEjection(authorized)), Refreshed(now))
  <2> DEFINE failed == FailEjection(authorized)
  <2>1. failed \in Rental /\ Evolves(authorized, failed)
    BY <1>3, <1>7, EjectionTyped, EjectingEvolves
  <2>2. failed.payment.status # "NONE"
    BY <1>3, <1>6 DEF FailEjection, Rental
  <2> HIDE DEF failed
  <2>3. Evolves(failed, MarkReleased(failed))
    BY <2>1, <2>2, ReleaseEvolves DEF Evolves
  <2> QED
    BY <1>1, <1>2, <1>6, <1>10, <2>1, <2>3, AddProgress DEF Evolves, failed
<1> QED
  BY <1>8, <1>9, <1>10 DEF MockStart, opened, paid, authorized

LEMMA MockReturnProgress ==
  ASSUME TypeOK, AllCoherent, NEW r \in DOMAIN rentals, NEW s \in Stations, NEW t \in 0..now,
         NEW detected \in BOOLEAN, MockReturn(r, s, t, detected)
  PROVE  Progress
<1> DEFINE before == IF detected THEN rentals ELSE Refreshed(now)
           due == PrepareReturn(before[r], s, t)
<1>1. t \in Nat /\ now \in Nat
  BY DEF TypeOK
<1>2. /\ DOMAIN before = DOMAIN rentals
      /\ \A q \in DOMAIN rentals : before[q] \in Rental /\ Evolves(rentals[q], before[q])
  BY <1>1, RefreshedEvolves, ThereTyped, SameEvolves DEF AllCoherent
<1>3. CanReturn(before[r], t) /\ rentals' = [before EXCEPT ![r] = MarkCaptured(due, due.amount)]
  BY DEF MockReturn
<1>4. Evolves(before[r], due) /\ due.state = "RETURNED"
  BY <1>1, <1>2, <1>3, ReturnEvolves DEF Evolves
<1>5. due \in Rental
  BY <1>1, <1>2, PrepareReturnTyped
<1>6. due.amount \in Nat
  BY <1>5 DEF Rental
<1>7. Evolves(due, MarkCaptured(due, due.amount))
  BY <1>4, <1>5, <1>6, CaptureEvolves DEF Evolves, CanComplete
<1> HIDE DEF before, due
<1>8. Evolves(rentals[r], MarkCaptured(due, due.amount))
  BY <1>2, <1>4, <1>7, EvolvesTwice
<1> QED
  BY <1>2, <1>3, <1>8 DEF Progress

LEMMA OpeningProgress ==
  ASSUME TypeOK, AllCoherent, NEW r \in DOMAIN rentals, Opening(r)
  PROVE  Progress
<1>1. rentals[r] \in Rental /\ Coherent(rentals[r])
  BY ThereTyped DEF AllCoherent
<1>2. CASE AttachPayment(r)
  BY <1>1, <1>2, OpeningEvolves, RewriteProgress, SameProgress DEF AttachPayment
<1>3. CASE PaymentFailed(r)
  <2>1. HasPayment(rentals[r]) \/ rentals[r].state \in Early
    BY <1>1 DEF Coherent, HasPayment
  <2>2. Evolves(rentals[r], MarkPaymentFailed(rentals[r], "stripe"))
    BY <1>1, <2>1, OpeningEvolves
  <2> QED
    BY <1>3, <2>2, RewriteProgress DEF PaymentFailed
<1>4. CASE Authorize(r)
  BY <1>1, <1>4, AuthorizeEvolves, RewriteProgress, SameProgress DEF Authorize
<1>5. CASE \E to \in {"EXPIRED", "CANCELLED"} : Expire(r, to)
  BY <1>1, <1>5, OpeningEvolves, RewriteProgress, SameProgress DEF Expire
<1> QED
  BY <1>2, <1>3, <1>4, <1>5 DEF Opening

LEMMA EjectingProgress ==
  ASSUME TypeOK, AllCoherent, NEW r \in DOMAIN rentals, Ejecting(r)
  PROVE  Progress
<1>1. rentals[r] \in Rental /\ Coherent(rentals[r]) /\ Clock \subseteq Nat
  BY ThereTyped DEF AllCoherent, Clock, TypeOK
<1>2. CASE ClaimEjection(r)
  BY <1>1, <1>2, EjectingEvolves, RewriteProgress DEF ClaimEjection
<1>3. CASE FailAndRelease(r) \/ ResolveNotEjected(r)
  <2> DEFINE failed == FailEjection(rentals[r])
  <2>1. /\ Confirmed(r) /\ Update(r, MarkReleased(failed))
    BY <1>3 DEF FailAndRelease, ResolveNotEjected
  <2>2. failed \in Rental /\ Evolves(rentals[r], failed)
    BY <1>1, EjectionTyped, EjectingEvolves
  <2>3. failed.payment.status # "NONE"
    BY <1>1, <2>1 DEF FailEjection, Confirmed, Coherent, Early, Rental
  <2> HIDE DEF failed
  <2>4. Evolves(failed, MarkReleased(failed))
    BY <2>2, <2>3, ReleaseEvolves DEF Evolves
  <2> QED
    BY <2>1, <2>2, <2>4, EvolvesTwice, RewriteProgress
<1>4. CASE EjectionUncertain(r)
  BY <1>1, <1>4, EjectingEvolves, RewriteProgress DEF EjectionUncertain
<1>5. CASE \E t \in Clock : EjectAndActivate(r, t)
  <2> PICK t \in Clock : EjectAndActivate(r, t)
    BY <1>5
  <2>1. CASE UNCHANGED <<rentals, inventory>>
    BY <2>1, SameProgress
  <2>2. CASE /\ rentals[r].state = "PAYMENT_AUTH"
             /\ \E x \in AvailableAt(rentals[r].station) :
                  Update(r, ActivateWithBattery(BeginEjection(rentals[r]), slots[x], t))
    <3> PICK x \in AvailableAt(rentals[r].station) :
           Update(r, ActivateWithBattery(BeginEjection(rentals[r]), slots[x], t))
      BY <2>2
    <3> DEFINE begun == BeginEjection(rentals[r])
    <3>1. slots[x] \in Batteries /\ t \in Nat
      BY <1>1 DEF AvailableAt, TypeOK, InventoryTyped
    <3>2. begun \in Rental /\ Evolves(rentals[r], begun)
      BY <1>1, <2>2, EjectionTyped, EjectingEvolves
    <3>3. begun.state = "EJECTING"
      BY <1>1 DEF BeginEjection, Rental
    <3> HIDE DEF begun
    <3>4. Evolves(begun, ActivateWithBattery(begun, slots[x], t))
      BY <3>1, <3>2, <3>3, EjectingEvolves DEF Evolves
    <3> QED
      BY <3>2, <3>4, EvolvesTwice, RewriteProgress DEF begun
  <2> QED
    BY <2>1, <2>2 DEF EjectAndActivate
<1>6. CASE \E b \in Batteries, t \in Clock : RecordEjected(r, b, t) \/ ResolveEjected(r, b, t)
  BY <1>1, <1>6, EjectingEvolves, RewriteProgress DEF RecordEjected, ResolveEjected
<1> QED
  BY <1>2, <1>3, <1>4, <1>5, <1>6 DEF Ejecting

LEMMA SettlingProgress ==
  ASSUME TypeOK, AllCoherent, NEW r \in DOMAIN rentals, Settling(r)
  PROVE  Progress
<1>1. rentals[r] \in Rental /\ Coherent(rentals[r]) /\ rentals[r].amount \in Nat
  BY ThereTyped DEF AllCoherent
<1>2. CASE \E s \in Stations, t \in 0..now, detected \in BOOLEAN : Return(r, s, t, detected)
  <2> PICK s \in Stations, t \in 0..now, detected \in BOOLEAN : Return(r, s, t, detected)
    BY <1>2
  <2>1. CASE UNCHANGED <<rentals, inventory>>
    BY <2>1, SameProgress
  <2>2. CASE CanReturn(rentals[r], t) /\ Update(r, PrepareReturn(rentals[r], s, t))
    <3>1. t \in Nat
      BY DEF TypeOK
    <3>2. Evolves(rentals[r], PrepareReturn(rentals[r], s, t))
      BY <1>1, <2>2, <3>1, ReturnEvolves
    <3> QED
      BY <2>2, <3>2, RewriteProgress
  <2> QED
    BY <2>1, <2>2 DEF Return
<1>3. CASE PaymentCaptured(r)
  BY <1>1, <1>3, CaptureEvolves, RewriteProgress DEF PaymentCaptured, CanMarkCaptured
<1>4. CASE CompleteSettlement(r)
  BY <1>1, <1>4, CompleteEvolves, RewriteProgress DEF CompleteSettlement
<1>5. CASE PaymentUnknown(r)
  BY <1>1, <1>5, UnknownEvolves, RewriteProgress DEF PaymentUnknown
<1> QED
  BY <1>2, <1>3, <1>4, <1>5 DEF Settling

\* A Stripe event may turn a rental in progress into an incident, and finish one that is returned.
LEMMA IncidentEvolves ==
  ASSUME NEW r \in Rental, Coherent(r), NEW to,
         to = IF r.state \in {"ACTIVE", "OVERDUE"} THEN "ERROR" ELSE r.state
  PROVE  Evolves(r, [r EXCEPT !.state = to])
BY TerminalNames DEF Evolves, Kept, Grew, Claimable, Coherent, Early, Rental

LEMMA StatusEvolves ==
  ASSUME NEW r \in Rental, Coherent(r), r.payment.status # "NONE", NEW status \in {"UNKNOWN", "FAILED"}
  PROVE  Evolves(r, [r EXCEPT !.paymentState = status, !.payment.status = status])
<1>1. /\ [r.payment EXCEPT !.status = status].status = status
      /\ [r.payment EXCEPT !.status = status].authorized = r.payment.authorized
  BY DEF Rental, Payment
<1> QED
  BY <1>1 DEF Evolves, Kept, Grew, Claimable, Coherent, Rental

LEMMA WebhookProgress ==
  ASSUME TypeOK, AllCoherent, NEW r \in DOMAIN rentals, Webhook(r)
  PROVE  Progress
<1> DEFINE record == rentals[r]
<1>1. record \in Rental /\ Coherent(record) /\ record.payment \in Payment
  BY ThereTyped DEF AllCoherent
<1>2. WebhookAmounts \subseteq Nat
  BY BoundsAssumption
<1>3. ASSUME NEW new, Project(r, new), Evolves(record, new)
      PROVE  Progress
  BY <1>3, RewriteProgress DEF Project
<1>4. CASE \E cents \in WebhookAmounts : WebhookCapturable(r, cents)
  <2> PICK cents \in WebhookAmounts : WebhookCapturable(r, cents)
    BY <1>4
  <2>1. record.state \in Early
    BY <1>1 DEF WebhookCapturable, Coherent
  <2>2. Evolves(record, [record EXCEPT !.paymentState = "AUTHORIZED",
                                       !.payment = Authorized(record.payment, cents, "stripe")])
    BY <1>1, <2>1 DEF Evolves, Kept, Grew, Claimable, Coherent, Early, Rental
  <2> QED
    BY <1>3, <2>2 DEF WebhookCapturable
<1>5. CASE \E cents \in WebhookAmounts : WebhookSucceeded(r, cents)
  <2> PICK cents \in WebhookAmounts : WebhookSucceeded(r, cents)
    BY <1>5
  <2> DEFINE to == IF record.state = "RETURNED" /\ cents = record.amount THEN "COMPLETED" ELSE record.state
             paid == Captured(record.payment, cents)
  <2>1. paid.status = "CAPTURED" /\ paid.authorized = record.payment.authorized
    BY <1>1, <1>2, CapturedFields
  <2>2. Evolves(record, [record EXCEPT !.paymentState = "UNKNOWN", !.payment.status = "UNKNOWN"])
    BY <1>1, StatusEvolves DEF WebhookSucceeded, FromStripe, HasPayment
  <2> HIDE DEF paid
  <2>3. Evolves(record, [record EXCEPT !.paymentState = "CAPTURED", !.payment = paid, !.state = to])
    BY <1>1, <2>1, TerminalNames DEF Evolves, Kept, Grew, Claimable, Coherent, Early, Rental
  <2> QED
    BY <1>3, <2>2, <2>3 DEF WebhookSucceeded, paid
<1>6. CASE \E cents \in WebhookAmounts : WebhookRefunded(r, cents)
  BY <1>1, <1>2, <1>3, <1>6, RefundEvolves DEF WebhookRefunded, Payment
<1>7. CASE WebhookCanceled(r)
  <2> DEFINE released == MarkReleased(record)
  <2>1. /\ released \in Rental /\ Evolves(record, released) /\ released.state = record.state
    BY <1>1, <1>7, MarkReleasedTyped, ReleaseEvolves DEF WebhookCanceled, FromStripe, HasPayment
  <2> HIDE DEF released
  <2>2. Evolves(released, [released EXCEPT !.state = Unexpected(r)])
    BY <2>1, IncidentEvolves DEF Unexpected, Evolves
  <2> QED
    BY <1>3, <1>7, <2>1, <2>2, EvolvesTwice DEF WebhookCanceled, released
<1>8. CASE WebhookFailed(r)
  <2> DEFINE failed == [record EXCEPT !.paymentState = "FAILED", !.payment.status = "FAILED"]
  <2>1. /\ failed \in Rental
        /\ failed.state = record.state
    <3>1. [record.payment EXCEPT !.status = "FAILED"] \in Payment
      BY <1>1, PaymentStateNames DEF Payment
    <3> QED
      BY <1>1, <3>1, PaymentStateNames DEF Rental
  <2>2. Evolves(record, failed)
    BY <1>1, <1>8, StatusEvolves DEF WebhookFailed, FromStripe, HasPayment
  <2>3. [failed EXCEPT !.state = Unexpected(r)] =
          [record EXCEPT !.paymentState = "FAILED", !.payment.status = "FAILED", !.state = Unexpected(r)]
    OBVIOUS
  <2> HIDE DEF failed
  <2>4. Evolves(failed, [failed EXCEPT !.state = Unexpected(r)])
    BY <2>1, <2>2, IncidentEvolves DEF Unexpected, Evolves
  <2> QED
    BY <1>3, <1>8, <2>2, <2>3, <2>4, EvolvesTwice DEF WebhookFailed
<1> QED
  BY <1>4, <1>5, <1>6, <1>7, <1>8 DEF Webhook

LEMMA SimulateProgress ==
  ASSUME TypeOK, AllCoherent, Simulate
  PROVE  Progress
<1>1. now \in Nat
  BY DEF TypeOK
<1>2. CASE \E s \in Stations, f \in FailureModes \cup {"none"} : SetFailure(s, f)
  BY <1>2, SameProgress DEF SetFailure, SetStation
<1>3. CASE \E s \in Stations, status \in {"AVAILABLE", "MAINTENANCE"} : SimulateStock(s, status)
  BY <1>3, RefreshProgress DEF SimulateStock
<1>4. CASE \E r \in DOMAIN rentals, hours \in 1..MaxSimulated : SimulateDelay(r, hours)
  <2> PICK r \in DOMAIN rentals, hours \in 1..MaxSimulated : SimulateDelay(r, hours)
    BY <1>4
  <2> DEFINE fresh == Refreshed(now)[r]
             later == fresh.simulated + hours
             delayed == [fresh EXCEPT !.simulated = later]
             record == IF IsLate(delayed, now) THEN [delayed EXCEPT !.state = "OVERDUE"] ELSE delayed
  <2>1. fresh \in Rental /\ Evolves(rentals[r], fresh)
    BY <1>1, RefreshedEvolves
  <2>2. delayed.state \in {"ACTIVE", "OVERDUE"}
    BY DEF SimulateDelay
  <2>3. rentals' = [Refreshed(now) EXCEPT ![r] = record]
    BY DEF SimulateDelay
  <2> HIDE DEF fresh
  <2>4. later \in Nat /\ fresh.simulated \in Nat /\ (later = fresh.simulated \/ later > fresh.simulated)
    BY <2>1 DEF Rental
  <2> HIDE DEF later
  <2>5. /\ delayed \in Rental
        /\ Evolves(fresh, delayed)
    BY <2>1, <2>2, <2>4, TerminalNames DEF Evolves, Kept, Grew, Claimable, Coherent, Early, Rental
  <2> HIDE DEF delayed
  <2>6. Evolves(delayed, record)
    BY <2>2, <2>5, LateEvolves, SameEvolves DEF Evolves
  <2> HIDE DEF record
  <2>7. Evolves(rentals[r], record)
    BY <2>1, <2>5, <2>6, EvolvesTwice
  <2> QED
    BY <1>1, <2>3, <2>7, RefreshedEvolves DEF Progress
<1> QED
  BY <1>2, <1>3, <1>4 DEF Simulate

\* Every step but the forfeit of a deposit lets every rental evolve.
LEMMA NextProgress ==
  ASSUME TypeOK, AllCoherent, [Next]_vars
  PROVE  \/ Progress
         \/ \E r \in DOMAIN rentals, t \in Clock :
              \E cents \in {rentals[r].pricing.deposit, rentals[r].payment.captured} :
                /\ CanMarkLost(rentals[r], cents, t)
                /\ Update(r, MarkLost(rentals[r], cents)) /\ UNCHANGED now
<1>1. CASE MockStep
  BY <1>1, MockStartProgress, MockReturnProgress DEF MockStep
<1>2. CASE StripeStep
  BY <1>2, CreateProgress, OpeningProgress, EjectingProgress, SettlingProgress, WebhookProgress
     DEF StripeStep
<1>3. CASE CommonStep
  <2>1. CASE RefreshOverdue
    BY <2>1, RefreshProgress DEF RefreshOverdue
  <2>2. CASE \E r \in DOMAIN rentals : \E cents \in 1..rentals[r].payment.captured : Refund(r, cents)
    <3> PICK r \in DOMAIN rentals : \E cents \in 1..rentals[r].payment.captured : Refund(r, cents)
      BY <2>2
    <3> PICK cents \in 1..rentals[r].payment.captured : Refund(r, cents)
      OBVIOUS
    <3>1. rentals[r] \in Rental /\ Coherent(rentals[r]) /\ rentals[r].payment \in Payment
      BY ThereTyped DEF AllCoherent
    <3>2. rentals[r].payment.refunded + cents \in Nat
      BY <3>1, ThereTyped DEF Payment
    <3>3. Evolves(rentals[r], MarkRefunded(rentals[r], cents))
      BY <3>1, <3>2, RefundEvolves DEF MarkRefunded
    <3> QED
      BY <3>3, RewriteProgress DEF Refund
  <2>3. CASE \E r \in DOMAIN rentals, t \in Clock :
               \E cents \in {rentals[r].pricing.deposit, rentals[r].payment.captured} : DepositLost(r, cents, t)
    BY <2>3, SameProgress DEF DepositLost
  <2> QED
    BY <1>3, <2>1, <2>2, <2>3 DEF CommonStep
<1>4. CASE Operate
  BY <1>4, SameProgress DEF Operate, SetFlag, SetStation, SetPricing, OutOfService, BackInService, MirrorCabinet
<1>5. CASE Simulate
  BY <1>5, SimulateProgress
<1>6. CASE SwitchToStripe \/ Tick \/ UNCHANGED vars
  BY <1>6, SameProgress DEF SwitchToStripe, Tick, vars
<1> QED
  BY <1>1, <1>2, <1>3, <1>4, <1>5, <1>6 DEF Next

-----------------------------------------------------------------------------
(* The invariant behind the theorems below, and the theorems.              *)

\* ForfeitOnlyWhenLate needs the whole of it: that a LOST rental has a start (ValidData) and that
\* its start, delay and grid stay what they were (Progress).
LifeInv == TypeOK /\ ValidData /\ AllCoherent /\ ForfeitOnlyWhenLate

LEMMA LifeInit == Init => LifeInv
<1> SUFFICES ASSUME Init PROVE LifeInv
  OBVIOUS
<1>1. DOMAIN rentals = {}
  BY DEF Init
<1> QED
  BY <1>1, InitTyped, InitValid DEF LifeInv, AllCoherent, ForfeitOnlyWhenLate

LEMMA ClockAdvances ==
  ASSUME TypeOK, [Next]_vars
  PROVE  now' = now \/ now' = now + 1
<1>1. CASE MockStep
  BY <1>1 DEF MockStep, MockStart, MockReturn
<1>2. CASE StripeStep
  <2>1. CASE \E r \in RentalIds, c \in Customers, s \in Stations : Create(r, c, s)
    BY <2>1 DEF Create
  <2>2. CASE \E r \in DOMAIN rentals : Opening(r)
    BY <2>2 DEF Opening, AttachPayment, PaymentFailed, Authorize, Expire
  <2>3. CASE \E r \in DOMAIN rentals : Ejecting(r)
    BY <2>3 DEF Ejecting, ClaimEjection, FailAndRelease, EjectionUncertain, ResolveNotEjected,
                EjectAndActivate, RecordEjected, ResolveEjected
  <2>4. CASE \E r \in DOMAIN rentals : Settling(r)
    BY <2>4 DEF Settling, Return, PaymentCaptured, CompleteSettlement, PaymentUnknown
  <2>5. CASE \E r \in DOMAIN rentals : Webhook(r)
    BY <2>5 DEF Webhook, WebhookCapturable, WebhookSucceeded, WebhookRefunded, WebhookCanceled,
                WebhookFailed, Project
  <2> QED
    BY <1>2, <2>1, <2>2, <2>3, <2>4, <2>5 DEF StripeStep
<1>3. CASE CommonStep
  BY <1>3 DEF CommonStep, RefreshOverdue, Refund, DepositLost
<1>4. CASE Operate
  BY <1>4 DEF Operate, SetFlag, SetStation, SetPricing, OutOfService, BackInService, MirrorCabinet
<1>5. CASE Simulate
  BY <1>5 DEF Simulate, SetFailure, SetStation, SimulateStock, SimulateDelay
<1>6. CASE SwitchToStripe \/ Tick \/ UNCHANGED vars
  BY <1>6 DEF SwitchToStripe, Tick, vars
<1> QED
  BY <1>1, <1>2, <1>3, <1>4, <1>5, <1>6 DEF Next

\* A rental that is LOST stays so, with the start, delay and grid that made the forfeit due.
LEMMA StillLost ==
  ASSUME LifeInv, NEW q \in DOMAIN rentals, q \in DOMAIN rentals',
         Kept(rentals[q], rentals'[q]), rentals[q].state = "LOST", now' \in Nat, now' >= now
  PROVE  now' + rentals'[q].simulated >= Deadline(rentals'[q]) + LossGrace
<1>1. now + rentals[q].simulated >= Deadline(rentals[q]) + LossGrace
  BY DEF LifeInv, ForfeitOnlyWhenLate
<1>2. rentals[q].battery # None
  BY DEF LifeInv, ValidData, ValidRental, StartedStates, OutStates
<1>3. /\ rentals'[q].simulated = rentals[q].simulated /\ rentals'[q].pricing = rentals[q].pricing
      /\ rentals'[q].startedAt = rentals[q].startedAt
  BY <1>2, TerminalNames DEF Kept, Claimable
<1>4. Deadline(rentals'[q]) = Deadline(rentals[q])
  BY <1>3 DEF Deadline
<1>5. rentals[q] \in Rental
  BY ThereTyped DEF LifeInv
<1>6. /\ rentals[q].simulated \in Nat /\ Deadline(rentals[q]) \in Int /\ now \in Nat
      /\ LossGrace \in Nat
  BY <1>5, GridTyped, LossGraceAssumption DEF Rental, Deadline, Never, LifeInv, TypeOK
<1> QED
  BY <1>1, <1>3, <1>4, <1>6

AllKept == \A q \in DOMAIN rentals : q \in DOMAIN rentals' /\ Kept(rentals[q], rentals'[q])

LEMMA LifeStep ==
  ASSUME LifeInv, [Next]_vars
  PROVE  LifeInv' /\ AllKept
<1>1. TypeOK /\ AllCoherent
  BY DEF LifeInv
<1>2. TypeOK'
  BY <1>1, NextTyped
<1>3. ValidData'
  BY StepGated, SameValid DEF Commit, LifeInv
<1>4. now \in Nat /\ now' \in Nat /\ now' >= now
  BY <1>1, ClockAdvances DEF TypeOK
<1>5. CASE Progress
  <2>1. AllKept /\ AllCoherent'
    BY <1>5 DEF Progress, Evolves, AllKept, AllCoherent
  <2>2. ForfeitOnlyWhenLate'
    <3> SUFFICES ASSUME NEW q \in DOMAIN rentals', rentals'[q].state = "LOST"
                 PROVE  /\ rentals'[q].returnedAt = Never
                        /\ now' + rentals'[q].simulated >= Deadline(rentals'[q]) + LossGrace
      BY DEF ForfeitOnlyWhenLate
    <3>1. q \in DOMAIN rentals /\ rentals[q].state = "LOST" /\ Kept(rentals[q], rentals'[q])
      BY <1>5 DEF Progress, Evolves
    <3>2. rentals'[q].returnedAt = Never
      BY <2>1 DEF AllCoherent, Coherent
    <3>3. now' + rentals'[q].simulated >= Deadline(rentals'[q]) + LossGrace
      BY <1>4, <3>1, StillLost
    <3> QED
      BY <3>2, <3>3
  <2> QED
    BY <1>2, <1>3, <2>1, <2>2 DEF LifeInv
<1>6. CASE \E r \in DOMAIN rentals, t \in Clock :
              \E cents \in {rentals[r].pricing.deposit, rentals[r].payment.captured} :
                /\ CanMarkLost(rentals[r], cents, t)
                /\ Update(r, MarkLost(rentals[r], cents)) /\ UNCHANGED now
  <2> PICK r \in DOMAIN rentals, t \in Clock :
              \E cents \in {rentals[r].pricing.deposit, rentals[r].payment.captured} :
                /\ CanMarkLost(rentals[r], cents, t)
                /\ Update(r, MarkLost(rentals[r], cents)) /\ UNCHANGED now
    BY <1>6
  <2> PICK cents \in {rentals[r].pricing.deposit, rentals[r].payment.captured} :
                /\ CanMarkLost(rentals[r], cents, t)
                /\ Update(r, MarkLost(rentals[r], cents)) /\ UNCHANGED now
    OBVIOUS
  <2> DEFINE lost == MarkLost(rentals[r], cents)
  <2>1. rentals[r] \in Rental /\ Coherent(rentals[r]) /\ cents \in Nat
    BY <1>1, ThereTyped DEF AllCoherent
  <2>2. LossEligible(rentals[r], t) /\ rentals[r].state = "OVERDUE" /\ t \in 0..now
    BY DEF CanMarkLost, LossEligible, Clock
  <2>3. Kept(rentals[r], lost) /\ Coherent(lost) /\ rentals[r].returnedAt = Never
    BY <2>1, <2>2, LostKept
  <2>4. /\ lost.simulated = rentals[r].simulated /\ lost.startedAt = rentals[r].startedAt
        /\ lost.pricing = rentals[r].pricing /\ lost.returnedAt = rentals[r].returnedAt
    BY <2>1 DEF MarkLost, Rental
  <2> HIDE DEF lost
  <2>5. Deadline(lost) = Deadline(rentals[r])
    BY <2>4 DEF Deadline
  <2>6. rentals[r].simulated \in Nat /\ Deadline(rentals[r]) \in Int /\ LossGrace \in Nat
    BY <2>1, ThereTyped, GridTyped, LossGraceAssumption DEF Rental, Deadline, Never
  <2>7. now' + lost.simulated >= Deadline(lost) + LossGrace
    BY <1>4, <2>2, <2>4, <2>5, <2>6 DEF LossEligible
  <2>8. rentals' = [rentals EXCEPT ![r] = lost]
    BY DEF Update, lost
  <2>9. AllKept /\ AllCoherent'
    BY <1>1, <2>3, <2>8, SameEvolves DEF AllKept, AllCoherent, Evolves, TypeOK, RentalsTyped
  <2>10. ForfeitOnlyWhenLate'
    <3> SUFFICES ASSUME NEW q \in DOMAIN rentals', rentals'[q].state = "LOST"
                 PROVE  /\ rentals'[q].returnedAt = Never
                        /\ now' + rentals'[q].simulated >= Deadline(rentals'[q]) + LossGrace
      BY DEF ForfeitOnlyWhenLate
    <3>1. q \in DOMAIN rentals
      BY <2>8
    <3>2. CASE q = r
      <4>1. rentals'[q] = lost
        BY <2>8, <3>1, <3>2
      <4> QED
        BY <2>3, <2>4, <2>7, <4>1
    <3>3. CASE q # r
      <4>1. rentals'[q] = rentals[q]
        BY <2>8, <3>1, <3>3
      <4>2. rentals[q].returnedAt = Never
        BY <3>1, <4>1 DEF LifeInv, ForfeitOnlyWhenLate
      <4>3. now' + rentals'[q].simulated >= Deadline(rentals'[q]) + LossGrace
        BY <1>4, <2>9, <3>1, <4>1, StillLost DEF AllKept
      <4> QED
        BY <4>1, <4>2, <4>3
    <3> QED
      BY <3>2, <3>3
  <2> QED
    BY <1>2, <1>3, <2>9, <2>10 DEF LifeInv
<1> QED
  BY <1>1, <1>5, <1>6, NextProgress

\* The inductive invariant behind the theorems below: types, the gate, and for each rental the
\* agreement of its state with the battery it got, its return and the deposit on record.
THEOREM LifeInvariant == Spec => []LifeInv
<1>1. Init => LifeInv
  BY LifeInit
<1>2. LifeInv /\ [Next]_vars => LifeInv'
  BY LifeStep
<1> QED
  BY <1>1, <1>2, PTL DEF Spec

\* The whole deposit is only ever forfeited for a battery still out LossGrace hours after the
\* deadline (overdueLossEligible, re-checked inside markDepositLost).
THEOREM ForfeitLate == Spec => []ForfeitOnlyWhenLate
<1>1. LifeInv => ForfeitOnlyWhenLate
  BY DEF LifeInv
<1> QED
  BY <1>1, LifeInvariant, PTL

\* No battery is claimed or handed out before the rental's exact deposit is on record.
THEOREM DepositFirst == Spec => []DepositBeforeBattery
<1>1. LifeInv => DepositBeforeBattery
  BY DEF LifeInv, AllCoherent, Coherent, DepositBeforeBattery, Early
<1> QED
  BY <1>1, LifeInvariant, PTL

\* A rental that is over stays as it ended (state-machine.ts gives it no way out).
THEOREM TerminalFinal == Spec => TerminalIsFinal
<1>1. LifeInv /\ [Next]_vars =>
        [\A r \in DOMAIN rentals :
           Edges[rentals[r].state] = {} => r \in DOMAIN rentals' /\ rentals'[r].state = rentals[r].state]_vars
  <2> SUFFICES ASSUME LifeInv, [Next]_vars, NEW r \in DOMAIN rentals, Edges[rentals[r].state] = {}
               PROVE  r \in DOMAIN rentals' /\ rentals'[r].state = rentals[r].state
    OBVIOUS
  <2>1. rentals[r].state \in TerminalStates
    BY ThereTyped, OpenHasEdges DEF LifeInv, Rental
  <2> QED
    BY <2>1, LifeStep DEF AllKept, Kept, Claimable
<1> QED
  BY <1>1, LifeInvariant, PTL DEF Spec, TerminalIsFinal

\* The battery a rental got, its start, and once returned its end and its price, are written once.
THEOREM WrittenOnce == Spec => HistoryWrittenOnce
<1>1. LifeInv /\ [Next]_vars =>
        [\A r \in DOMAIN rentals :
           /\ rentals[r].battery # None =>
                /\ rentals'[r].battery = rentals[r].battery
                /\ rentals'[r].startedAt = rentals[r].startedAt
           /\ rentals[r].returnedAt # Never =>
                /\ rentals'[r].returnedAt = rentals[r].returnedAt
                /\ rentals'[r].returnStation = rentals[r].returnStation
                /\ rentals'[r].amount = rentals[r].amount]_vars
  BY LifeStep DEF AllKept, Kept, Claimable
<1> QED
  BY <1>1, LifeInvariant, PTL DEF Spec, HistoryWrittenOnce

-----------------------------------------------------------------------------
(* Part two: who has the battery and what is held of the deposit.  A       *)
(* battery is RENTED exactly while a rental has it out, and nothing stays  *)
(* held for a rental that is over.  Both rest on the invariant above and   *)
(* on what the commit gate and the triggers of PostgreSQL refuse.          *)

-----------------------------------------------------------------------------
(* What the row of one rental satisfies besides.                             *)

\* Nothing stays held for it once it is over.
Unheld(r) ==
  r.state \in TerminalStates =>
    \/ r.payment.status \in {"NONE", "CAPTURED", "RELEASED"}
    \/ r.payment.status = "FAILED" /\ r.payment.authorized = 0
\* Back means returned; a released deposit is told, and a failed ejection releases it.
Sound(r) ==
  /\ r.state # "RETURN_PENDING"
  /\ r.state \in {"RETURNED", "COMPLETED"} => r.returnedAt # Never
  /\ r.payment.status = "RELEASED" => r.paymentState # "UNKNOWN"
  /\ r.state = "EJECTION_FAILED" => r.payment.status = "RELEASED"
  /\ Unheld(r)
AllSound == \A r \in DOMAIN rentals : Sound(rentals[r])

\* The step has nothing to do with the battery of this rental.
Quiet(old, new) ==
  /\ new.battery = old.battery /\ new.returnedAt = old.returnedAt
  /\ new.state = "LOST" => old.state = "LOST"
QuietSound(old, new) == Quiet(old, new) /\ Sound(new)
\* What PostgreSQL accepts of a row.
Accepted(new) == ValidRental(new) /\ (new.payment.status = "FAILED" => new.payment.authorized = 0)

\* A rental that was started has a battery, and it is out until a return or a loss is recorded.
LEMMA OutMeans ==
  ASSUME NEW r \in Rental, Coherent(r), Sound(r)
  PROVE  Out(r) <=> r.battery # None /\ r.returnedAt = Never /\ r.state # "LOST"
BY DEF Out, Coherent, Sound

-----------------------------------------------------------------------------
(* Each operation of the engine.                                             *)

LEMMA OpeningSound ==
  ASSUME NEW r \in Rental, Sound(r), Coherent(r), NEW provider \in {"mock", "stripe"}
  PROVE  /\ r.state = "CREATED" => QuietSound(r, AttachIntent(r))
         /\ r.state = "CREATED" =>
              \A to \in {"EXPIRED", "CANCELLED"} : QuietSound(r, ExpireUnconfirmed(r, to))
         /\ Accepted(MarkPaymentFailed(r, provider)) => QuietSound(r, MarkPaymentFailed(r, provider))
<1> USE TerminalNames DEF QuietSound, Quiet, Sound, Unheld, Rental
<1>1. r.payment \in Payment
  OBVIOUS
<1>2. r.state = "CREATED" => QuietSound(r, AttachIntent(r))
  <2>1. PendingPayment.status = "PENDING"
    BY DEF PendingPayment, NoPayment
  <2> QED
    BY <2>1 DEF AttachIntent
<1>3. ASSUME r.state = "CREATED", NEW to \in {"EXPIRED", "CANCELLED"}
      PROVE  QuietSound(r, ExpireUnconfirmed(r, to))
  BY <1>1, <1>3 DEF ExpireUnconfirmed, HasPayment, Payment
<1>4. ASSUME Accepted(MarkPaymentFailed(r, provider))
      PROVE  QuietSound(r, MarkPaymentFailed(r, provider))
  <2> DEFINE new == MarkPaymentFailed(r, provider)
  <2>1. /\ new.payment.status = "FAILED" /\ new.payment.authorized = r.payment.authorized
        /\ new.battery = r.battery /\ new.returnedAt = r.returnedAt
        /\ new.state = IF r.state = "CREATED" THEN "PAYMENT_FAILED" ELSE r.state
    BY <1>1 DEF MarkPaymentFailed, Payment
  <2>2. r.payment.authorized = 0
    BY <1>4, <2>1 DEF Accepted
  <2>3. r.state # "EJECTION_FAILED"
    <3>1. r.pricing \in Pricings
      OBVIOUS
    <3>2. r.pricing.deposit # 0
      BY <3>1, PricingsAssumption DEF ValidGrid, Grid
    <3> QED
      BY <2>2, <3>2 DEF Coherent, Early
  <2> HIDE DEF new
  <2>4. QuietSound(r, new)
    BY <2>1, <2>2, <2>3
  <2> QED
    BY <2>4 DEF new
<1> QED
  BY <1>2, <1>3, <1>4

LEMMA AuthorizeSound ==
  ASSUME NEW r \in Rental, Sound(r), Coherent(r), r.state = "CREATED",
         NEW provider \in {"mock", "stripe"}, NEW cents \in Nat
  PROVE  QuietSound(r, [RecordAuthorized(r, cents, provider) EXCEPT !.state = "PAYMENT_AUTH"])
<1>1. Authorized(r.payment, cents, provider).status = "AUTHORIZED"
  BY DEF Authorized, Rental, Payment
<1> QED
  BY <1>1, TerminalNames DEF RecordAuthorized, QuietSound, Quiet, Sound, Unheld, Rental

LEMMA EjectingSound ==
  ASSUME NEW r \in Rental, Sound(r), Coherent(r)
  PROVE  /\ r.state = "PAYMENT_AUTH" => QuietSound(r, BeginEjection(r))
         /\ r.state = "EJECTING" =>
              \A b \in Batteries, t \in Nat : Sound(ActivateWithBattery(r, b, t))
         /\ CanMarkReleased(FailEjection(r)) => QuietSound(r, MarkReleased(FailEjection(r)))
         /\ CanMarkUncertain(r) => QuietSound(r, MarkUncertain(r))
<1> USE TerminalNames DEF QuietSound, Quiet, Sound, Unheld, Rental
<1>1. r.state = "PAYMENT_AUTH" => QuietSound(r, BeginEjection(r))
  BY DEF BeginEjection
<1>2. ASSUME r.state = "EJECTING", NEW b \in Batteries, NEW t \in Nat
      PROVE  Sound(ActivateWithBattery(r, b, t))
  BY <1>2 DEF ActivateWithBattery
<1>3. ASSUME CanMarkReleased(FailEjection(r))
      PROVE  QuietSound(r, MarkReleased(FailEjection(r)))
  <2>1. Freed(r.payment).status = "RELEASED"
    BY DEF Freed, Payment
  <2> QED
    BY <1>3, <2>1 DEF FailEjection, MarkReleased, CanMarkReleased
<1>4. ASSUME CanMarkUncertain(r) PROVE QuietSound(r, MarkUncertain(r))
  BY <1>4 DEF MarkUncertain, CanMarkUncertain
<1> QED
  BY <1>1, <1>2, <1>3, <1>4

\* An unknown outcome never unsettles a finished rental: its row would have to be told so, which
\* the trigger refuses, or was already and then its deposit is not released.
LEMMA UnknownSound ==
  ASSUME NEW r \in Rental, Sound(r), Coherent(r), Accepted(MarkPaymentUnknown(r)),
         r.state \notin Early,
         r.state \in TerminalStates => MarkPaymentUnknown(r).paymentState = r.paymentState
  PROVE  QuietSound(r, MarkPaymentUnknown(r))
<1> DEFINE new == MarkPaymentUnknown(r)
<1>1. /\ new.battery = r.battery /\ new.returnedAt = r.returnedAt /\ new.paymentState = "UNKNOWN"
      /\ new.state = IF r.state \in {"RETURNED", "EJECTING", "PAYMENT_AUTH", "ACTIVE", "OVERDUE"}
                     THEN "ERROR" ELSE r.state
      /\ new.payment.status = "UNKNOWN"
  BY DEF MarkPaymentUnknown, HasPayment, Coherent, Rental, Payment
<1>2. r.state \notin {"COMPLETED", "LOST"}
  BY <1>1 DEF Accepted, ValidRental
<1>3. r.state # "EJECTION_FAILED"
  BY <1>1, TerminalNames DEF Sound
<1> HIDE DEF new
<1>4. new.state \notin TerminalStates
  BY <1>1, <1>2, <1>3, TerminalNames DEF Early
<1> QED
  BY <1>1, <1>4, TerminalNames DEF QuietSound, Quiet, Sound, Unheld, Rental, new

LEMMA SettlingSound ==
  ASSUME NEW r \in Rental, Sound(r), Coherent(r)
  PROVE  /\ \A s \in Stations, t \in Nat : CanReturn(r, t) =>
              /\ Sound(PrepareReturn(r, s, t)) /\ PrepareReturn(r, s, t).returnedAt # Never
              /\ PrepareReturn(r, s, t).battery = r.battery
         /\ CanComplete(r) /\ Accepted(Complete(r)) => QuietSound(r, Complete(r))
         /\ \A cents \in Nat : CanComplete(r) /\ Accepted(MarkCaptured(r, cents))
                                 => QuietSound(r, MarkCaptured(r, cents))
<1> USE TerminalNames DEF QuietSound, Quiet, Sound, Unheld, Rental
<1>1. ASSUME NEW s \in Stations, NEW t \in Nat, CanReturn(r, t)
      PROVE  /\ Sound(PrepareReturn(r, s, t)) /\ PrepareReturn(r, s, t).returnedAt # Never
             /\ PrepareReturn(r, s, t).battery = r.battery
  BY <1>1 DEF PrepareReturn, CanReturn, Never
<1>2. ASSUME CanComplete(r), Accepted(Complete(r)) PROVE QuietSound(r, Complete(r))
  <2> DEFINE new == Complete(r)
  <2>1. /\ new.battery = r.battery /\ new.returnedAt = r.returnedAt /\ new.state = "COMPLETED"
        /\ r.returnedAt # Never
    BY <1>2 DEF Complete, CanComplete, AwaitsSettlement
  <2>2. new.payment.status = "CAPTURED"
    BY <1>2, <2>1 DEF Accepted, ValidRental
  <2> HIDE DEF new
  <2>3. QuietSound(r, new)
    BY <2>1, <2>2
  <2> QED
    BY <2>3 DEF new
<1>3. ASSUME NEW cents \in Nat, CanComplete(r), Accepted(MarkCaptured(r, cents))
      PROVE  QuietSound(r, MarkCaptured(r, cents))
  <2> DEFINE new == MarkCaptured(r, cents)
  <2>1. /\ new.battery = r.battery /\ new.returnedAt = r.returnedAt /\ new.state = "COMPLETED"
        /\ r.returnedAt # Never
    BY <1>3 DEF MarkCaptured, Complete, CanComplete, AwaitsSettlement
  <2>2. new.payment.status = "CAPTURED"
    BY <1>3, <2>1 DEF Accepted, ValidRental
  <2> HIDE DEF new
  <2>3. QuietSound(r, new)
    BY <2>1, <2>2
  <2> QED
    BY <2>3 DEF new
<1> QED
  BY <1>1, <1>2, <1>3

LEMMA RefundSound ==
  ASSUME NEW r \in Rental, Sound(r), NEW cents
  PROVE  QuietSound(r, [r EXCEPT !.payment.refunded = cents])
<1>1. /\ [r.payment EXCEPT !.refunded = cents].status = r.payment.status
      /\ [r.payment EXCEPT !.refunded = cents].authorized = r.payment.authorized
  BY DEF Rental, Payment
<1> QED
  BY <1>1 DEF QuietSound, Quiet, Sound, Unheld, Rental

LEMMA LostSound ==
  ASSUME NEW r \in Rental, Sound(r), NEW cents \in Nat
  PROVE  Sound(MarkLost(r, cents)) /\ MarkLost(r, cents).state = "LOST"
<1>1. Captured(r.payment, cents).status = "CAPTURED"
  BY CapturedFields DEF Rental
<1> QED
  BY <1>1 DEF MarkLost, Sound, Unheld, Rental

LEMMA LateSound ==
  ASSUME NEW r \in Rental, Sound(r), r.state \in {"ACTIVE", "OVERDUE"}
  PROVE  QuietSound(r, [r EXCEPT !.state = "OVERDUE"])
BY TerminalNames DEF QuietSound, Quiet, Sound, Unheld, Rental

-----------------------------------------------------------------------------
(* What a step does to the rentals and the batteries.                        *)

\* The rentals of R apart, no battery changes hands; new rentals have none.
Hands(R) ==
  /\ DOMAIN rentals \subseteq DOMAIN rentals'
  /\ \A q \in DOMAIN rentals' : Sound(rentals'[q])
  /\ \A q \in DOMAIN rentals' \ R :
       IF q \in DOMAIN rentals THEN Quiet(rentals[q], rentals'[q]) ELSE rentals'[q].battery = None
RentedSame == \A b \in Batteries : batteries'[b] = "RENTED" <=> batteries[b] = "RENTED"
Calm == Hands({}) /\ RentedSame

\* A battery leaves for rental r, comes back from it, or is lost with it.
Leaves(r) ==
  \E b \in Batteries :
    /\ batteries[b] = "AVAILABLE" /\ batteries' = [batteries EXCEPT ![b] = "RENTED"]
    /\ r \in DOMAIN rentals' /\ rentals'[r].battery = b
    /\ rentals'[r].returnedAt = Never /\ rentals'[r].state = "ACTIVE"
    /\ r \in DOMAIN rentals => rentals[r].battery = None
Ends(r) ==
  /\ r \in DOMAIN rentals /\ rentals[r].state \in {"ACTIVE", "OVERDUE"}
  /\ rentals[r].battery \in Batteries /\ rentals'[r].battery = rentals[r].battery
  /\ rentals'[r].returnedAt # Never \/ rentals'[r].state = "LOST"
  /\ \A b \in Batteries : batteries'[b] = "RENTED" <=> batteries[b] = "RENTED" /\ b # rentals[r].battery
Moves == \E r : Hands({r}) /\ (Leaves(r) \/ Ends(r))

LEMMA SameHands ==
  ASSUME AllSound, UNCHANGED rentals
  PROVE  Hands({})
BY DEF AllSound, Hands, Quiet

LEMMA RewriteHands ==
  ASSUME TypeOK, AllSound, NEW r \in DOMAIN rentals, NEW record, Update(r, record),
         QuietSound(rentals[r], record), UNCHANGED batteries
  PROVE  Calm
BY DEF AllSound, Calm, Hands, RentedSame, Quiet, QuietSound, Update, TypeOK, RentalsTyped

\* What the gate of PostgreSQL says of the row that is written.
LEMMA Gated ==
  ASSUME TypeOK, mode = "stripe", NEW r \in DOMAIN rentals, NEW record, Update(r, record), Commit
  PROVE  /\ Accepted(record)
         /\ rentals[r].state \in TerminalStates => record = [rentals[r] EXCEPT !.payment = record.payment]
<1>1. Store = "postgres"
  <2>1. mode \in Modes
    BY DEF TypeOK, SettingsTyped
  <2> QED
    BY <2>1, StoreAssumption DEF Demo
<1>2. r \in DOMAIN rentals' /\ rentals'[r] = record
  BY DEF Update, TypeOK, RentalsTyped
<1>3. ValidData' /\ SqlChecks' /\ TerminalRowsImmutable
  BY <1>1 DEF Commit
<1>4. ValidRental(record)
  BY <1>2, <1>3 DEF ValidData
<1>5. record.payment.status = "FAILED" => record.payment.authorized = 0
  BY <1>2, <1>3 DEF SqlChecks
<1>6. rentals[r].state \in TerminalStates => record = [rentals[r] EXCEPT !.payment = record.payment]
  BY <1>2, <1>3 DEF TerminalRowsImmutable
<1> QED
  BY <1>4, <1>5, <1>6 DEF Accepted

\* A rental brought up to date keeps its battery.
LEMMA RefreshedSound ==
  ASSUME TypeOK, AllSound, NEW t \in Nat, NEW r \in DOMAIN rentals
  PROVE  QuietSound(rentals[r], Refreshed(t)[r])
<1>1. rentals[r] \in Rental /\ Sound(rentals[r])
  BY ThereTyped DEF AllSound
<1>2. CASE IsLate(rentals[r], t)
  <2>1. QuietSound(rentals[r], [rentals[r] EXCEPT !.state = "OVERDUE"])
    BY <1>1, <1>2, LateSound DEF IsLate
  <2> QED
    BY <1>2, <2>1 DEF Refreshed
<1>3. CASE ~IsLate(rentals[r], t)
  BY <1>1, <1>3 DEF Refreshed, QuietSound, Quiet
<1> QED
  BY <1>2, <1>3

LEMMA RefreshHands ==
  ASSUME TypeOK, AllSound, rentals' = Refreshed(now)
  PROVE  Hands({})
<1>1. DOMAIN rentals' = DOMAIN rentals /\ now \in Nat
  BY DEF Refreshed, TypeOK
<1> QED
  BY <1>1, RefreshedSound DEF Hands, QuietSound

\* A rental that is opened, the others being brought up to date.
LEMMA AddHands ==
  ASSUME NEW r, r \notin DOMAIN rentals, NEW record, Sound(record),
         NEW others, \A q \in DOMAIN rentals : QuietSound(rentals[q], others[q]),
         AddRental(r, record, others)
  PROVE  Hands({r}) /\ r \in DOMAIN rentals' /\ rentals'[r] = record
BY DEF AddRental, Hands, QuietSound

LEMMA AddCalm ==
  ASSUME NEW r, r \notin DOMAIN rentals, NEW record, Sound(record), record.battery = None,
         NEW others, \A q \in DOMAIN rentals : QuietSound(rentals[q], others[q]),
         AddRental(r, record, others), UNCHANGED batteries
  PROVE  Calm
BY DEF AddRental, Hands, QuietSound, Calm, RentedSame

LEMMA CreateHands ==
  ASSUME TypeOK, AllSound, NEW r \in RentalIds, NEW c \in Customers, NEW s \in Stations, Create(r, c, s)
  PROVE  Calm
<1>1. /\ r \notin DOMAIN rentals /\ AddRental(r, NewRental(c, s, grid), rentals) /\ UNCHANGED batteries
  BY DEF Create, CanOpen, inventory
<1>2. Sound(NewRental(c, s, grid)) /\ NewRental(c, s, grid).battery = None
  BY TerminalNames DEF NewRental, NoPayment, Sound, Unheld
<1>3. \A q \in DOMAIN rentals : QuietSound(rentals[q], rentals[q])
  BY DEF AllSound, QuietSound, Quiet
<1> QED
  BY <1>1, <1>2, <1>3, AddCalm

LEMMA MockStartHands ==
  ASSUME TypeOK, AllSound, NEW r \in RentalIds, NEW c \in Customers, NEW s \in Stations,
         MockStart(r, c, s)
  PROVE  Calm \/ Moves
<1> DEFINE opened == NewRental(c, s, grid)
           paid == RecordAuthorized(opened, grid.deposit, "mock")
           authorized == BeginEjection(paid)
<1>1. grid \in Pricings /\ now \in Nat /\ r \notin DOMAIN rentals
  BY DEF TypeOK, SettingsTyped, MockStart, CanOpen
<1>2. \A q \in DOMAIN rentals : QuietSound(rentals[q], Refreshed(now)[q])
  BY <1>1, RefreshedSound
<1>3. opened \in Rental /\ paid \in Rental /\ authorized \in Rental
  BY <1>1, NewRentalTyped, GridTyped, RecordAuthorizedTyped, EjectionTyped
<1>4. /\ opened.state = "CREATED" /\ opened.battery = None
      /\ opened.returnedAt = Never /\ opened.payment = NoPayment
  BY DEF NewRental
<1> HIDE DEF opened
<1>5. /\ authorized.state = "EJECTING" /\ authorized.battery = None
      /\ authorized.returnedAt = Never /\ authorized.payment.status = "AUTHORIZED"
  <2>1. opened.payment \in Payment /\ opened.payment.status = "NONE"
    BY <1>3, <1>4 DEF Rental, NoPayment
  <2>2. Authorized(opened.payment, grid.deposit, "mock").status = "AUTHORIZED"
    BY <2>1 DEF Authorized, Payment
  <2>3. /\ paid.payment.status = "AUTHORIZED" /\ paid.battery = None /\ paid.returnedAt = Never
    BY <1>3, <1>4, <2>1, <2>2 DEF RecordAuthorized, Rental
  <2> HIDE DEF paid
  <2> QED
    BY <1>3, <2>3 DEF BeginEjection, Rental
<1> HIDE DEF paid, authorized
<1>6. CASE AddRental(r, MarkPaymentFailed(opened, "mock"), Refreshed(now)) /\ UNCHANGED batteries
  <2> DEFINE failed == MarkPaymentFailed(opened, "mock")
  <2>1. opened.payment \in Payment /\ opened.payment.authorized = 0
    BY <1>3, <1>4 DEF Rental, NoPayment
  <2>2. /\ failed.state = "PAYMENT_FAILED" /\ failed.payment.status = "FAILED"
        /\ failed.payment.authorized = 0 /\ failed.battery = None
    BY <1>3, <1>4, <2>1 DEF MarkPaymentFailed, Rental, Payment
  <2> HIDE DEF failed
  <2>3. Sound(failed)
    BY <2>2, TerminalNames DEF Sound, Unheld
  <2> QED
    BY <1>1, <1>2, <1>6, <2>2, <2>3, AddCalm DEF failed
<1>7. CASE \E x \in AvailableAt(s) :
             TakeFrom(x) /\ AddRental(r, ActivateWithBattery(authorized, slots[x], now), Refreshed(now))
  <2> PICK x \in AvailableAt(s) :
             TakeFrom(x) /\ AddRental(r, ActivateWithBattery(authorized, slots[x], now), Refreshed(now))
    BY <1>7
  <2> DEFINE begun == ActivateWithBattery(authorized, slots[x], now)
  <2>1. slots[x] \in Batteries /\ batteries[slots[x]] = "AVAILABLE"
    BY DEF AvailableAt, TypeOK, InventoryTyped
  <2>2. begun.state = "ACTIVE" /\ begun.battery = slots[x] /\ begun.returnedAt = Never
        /\ begun.payment.status = "AUTHORIZED"
    BY <1>3, <1>5 DEF ActivateWithBattery, Rental
  <2> HIDE DEF begun
  <2>3. Sound(begun)
    BY <2>2, TerminalNames DEF Sound, Unheld
  <2>4. Hands({r}) /\ r \in DOMAIN rentals' /\ rentals'[r] = begun
    BY <1>1, <1>2, <2>3, AddHands DEF begun
  <2> QED
    BY <1>1, <2>1, <2>2, <2>4 DEF Leaves, Moves, TakeFrom
<1>8. CASE AddRental(r, MarkReleased(FailEjection(authorized)), Refreshed(now)) /\ UNCHANGED batteries
  <2> DEFINE failed == FailEjection(authorized)
             released == MarkReleased(failed)
  <2>0. failed \in Rental
    BY <1>3, EjectionTyped
  <2>1. /\ failed.payment.status = "AUTHORIZED" /\ failed.battery = None
        /\ failed.state = "EJECTION_FAILED"
    BY <1>3, <1>5 DEF FailEjection, Rental
  <2> HIDE DEF failed
  <2>2. Freed(failed.payment).status = "RELEASED"
    BY <2>0, <2>1 DEF Freed, Rental, Payment
  <2>3. /\ released.payment.status = "RELEASED" /\ released.paymentState = "RELEASED"
        /\ released.battery = None /\ released.state = "EJECTION_FAILED"
    BY <2>0, <2>1, <2>2 DEF MarkReleased, Rental
  <2> HIDE DEF released
  <2>4. Sound(released)
    BY <2>3, TerminalNames DEF Sound, Unheld
  <2> QED
    BY <1>1, <1>2, <1>8, <2>3, <2>4, AddCalm DEF released, failed
<1> QED
  BY <1>6, <1>7, <1>8 DEF MockStart, opened, paid, authorized, inventory

\* A battery put back into a cabinet is out no more, whichever way it was placed; no other is moved.
LEMMA PlaceHands ==
  ASSUME TypeOK, BatteryLocation, NEW d \in Batteries, NEW s \in Stations,
         PlaceDeclared(d, s) \/ PlaceDetected(d, s)
  PROVE  \A b \in Batteries : batteries'[b] = "RENTED" <=> batteries[b] = "RENTED" /\ b # d
<1>1. batteries \in [Batteries -> BatteryStatuses]
  BY DEF TypeOK, InventoryTyped
<1>2. CASE batteries' = [batteries EXCEPT ![d] = "AVAILABLE"]
  BY <1>1, <1>2
<1>3. CASE Holding(d) # {} /\ UNCHANGED batteries
  BY <1>3 DEF Holding, BatteryLocation, InSlot
<1> QED
  BY <1>2, <1>3 DEF PlaceDeclared, PlaceDetected

\* A battery leaves for a rental that was there.
LEMMA LeaveHands ==
  ASSUME TypeOK, AllSound, NEW r \in DOMAIN rentals, rentals[r].battery = None,
         NEW s, NEW x \in AvailableAt(s), TakeFrom(x),
         NEW record, Update(r, record), Sound(record), record.battery = slots[x],
         record.returnedAt = Never, record.state = "ACTIVE"
  PROVE  Moves
<1>1. slots[x] \in Batteries /\ batteries[slots[x]] = "AVAILABLE"
  BY DEF AvailableAt, TypeOK, InventoryTyped
<1>2. DOMAIN rentals' = DOMAIN rentals /\ rentals'[r] = record
  BY DEF Update, TypeOK, RentalsTyped
<1>3. Hands({r})
  BY <1>2 DEF Hands, AllSound, Quiet, Update
<1>4. Leaves(r)
  BY <1>1, <1>2 DEF Leaves, TakeFrom
<1> QED
  BY <1>3, <1>4 DEF Moves

\* A battery comes back from rental r, the others being brought up to date or not.
LEMMA EndHands ==
  ASSUME TypeOK, ValidData, NEW r \in DOMAIN rentals, NEW before,
         DOMAIN before = DOMAIN rentals,
         \A q \in DOMAIN rentals : QuietSound(rentals[q], before[q]),
         rentals[r].state \in {"ACTIVE", "OVERDUE"},
         NEW record, rentals' = [before EXCEPT ![r] = record], Sound(record),
         record.battery = rentals[r].battery, record.returnedAt # Never \/ record.state = "LOST",
         \A b \in Batteries :
           batteries'[b] = "RENTED" <=> batteries[b] = "RENTED" /\ b # rentals[r].battery
  PROVE  Moves
<1>1. rentals[r].battery \in Batteries
  <2>1. rentals[r].battery # None
    BY DEF ValidData, ValidRental, StartedStates, OutStates
  <2> QED
    BY <2>1, ThereTyped
<1>2. DOMAIN rentals' = DOMAIN rentals /\ rentals'[r] = record
  OBVIOUS
<1>3. Hands({r})
  BY <1>2 DEF Hands, QuietSound
<1>4. Ends(r)
  BY <1>1, <1>2 DEF Ends
<1> QED
  BY <1>3, <1>4 DEF Moves

LEMMA MockReturnHands ==
  ASSUME TypeOK, ValidData, AllCoherent, AllSound, NEW r \in DOMAIN rentals, NEW s \in Stations,
         NEW t \in 0..now, NEW detected \in BOOLEAN, MockReturn(r, s, t, detected)
  PROVE  Moves
<1> DEFINE before == IF detected THEN rentals ELSE Refreshed(now)
           due == PrepareReturn(before[r], s, t)
           record == MarkCaptured(due, due.amount)
<1>1. t \in Nat /\ now \in Nat
  BY DEF TypeOK
<1>2. DOMAIN before = DOMAIN rentals
  BY DEF Refreshed
<1>3. \A q \in DOMAIN rentals : QuietSound(rentals[q], before[q])
  BY <1>1, RefreshedSound DEF AllSound, QuietSound, Quiet
<1>4. before[r] \in Rental /\ Coherent(before[r])
  BY <1>1, RefreshedEvolves, ThereTyped DEF AllCoherent, Evolves
<1>5. /\ CanReturn(before[r], t) /\ rentals' = [before EXCEPT ![r] = record]
      /\ PlaceDeclared(before[r].battery, s) \/ PlaceDetected(before[r].battery, s)
      /\ ValidData'
  BY DEF MockReturn, Commit
<1>6. rentals[r].state \in {"ACTIVE", "OVERDUE"} /\ before[r].battery = rentals[r].battery
  <2>1. CASE detected
    BY <1>5, <2>1 DEF CanReturn
  <2>2. CASE ~detected
    <3>1. before[r] = IF IsLate(rentals[r], now) THEN [rentals[r] EXCEPT !.state = "OVERDUE"]
                      ELSE rentals[r]
      BY <2>2 DEF Refreshed
    <3>2. CASE IsLate(rentals[r], now)
      BY <1>3, <3>2 DEF IsLate, QuietSound, Quiet
    <3>3. CASE ~IsLate(rentals[r], now)
      BY <1>5, <3>1, <3>3 DEF CanReturn
    <3> QED
      BY <3>2, <3>3
  <2> QED
    BY <2>1, <2>2
<1>7. before[r].battery \in Batteries
  BY <1>4, <1>5 DEF CanReturn, Rental
<1>8. /\ due \in Rental /\ Coherent(due) /\ due.state = "RETURNED"
      /\ Sound(due) /\ due.returnedAt # Never /\ due.battery = before[r].battery
  BY <1>1, <1>3, <1>4, <1>5, PrepareReturnTyped, ReturnEvolves, SettlingSound
     DEF Evolves, QuietSound
<1>9. due.amount \in Nat
  BY <1>8 DEF Rental
<1>10. record.state = "COMPLETED"
  <2> HIDE DEF due
  <2> QED
    BY <1>8 DEF MarkCaptured, Complete, Rental
<1> HIDE DEF before, due
<1>11. rentals'[r] = record /\ r \in DOMAIN rentals'
  BY <1>2, <1>5
<1> HIDE DEF record
<1>12. Accepted(record)
  <2>1. ValidRental(record)
    BY <1>5, <1>11 DEF ValidData
  <2> QED
    BY <1>10, <2>1 DEF Accepted, ValidRental
<1>13. QuietSound(due, record)
  BY <1>8, <1>9, <1>12, SettlingSound DEF CanComplete, record
<1>14. BatteryLocation
  BY DEF ValidData
<1>15. \A b \in Batteries :
           batteries'[b] = "RENTED" <=> batteries[b] = "RENTED" /\ b # rentals[r].battery
  BY <1>5, <1>6, <1>7, <1>14, PlaceHands
<1> QED
  BY <1>2, <1>3, <1>5, <1>6, <1>8, <1>13, <1>15, EndHands DEF QuietSound, Quiet

LEMMA OpeningHands ==
  ASSUME TypeOK, AllCoherent, AllSound, mode = "stripe", NEW r \in DOMAIN rentals, Opening(r)
  PROVE  Calm
<1>1. rentals[r] \in Rental /\ Coherent(rentals[r]) /\ Sound(rentals[r])
  BY ThereTyped DEF AllCoherent, AllSound
<1>2. UNCHANGED batteries
  BY DEF Opening, AttachPayment, PaymentFailed, Authorize, Expire, inventory
<1>3. UNCHANGED rentals => Calm
  BY <1>2, SameHands DEF Calm, RentedSame
<1>4. CASE AttachPayment(r)
  BY <1>1, <1>2, <1>3, <1>4, OpeningSound, RewriteHands DEF AttachPayment
<1>5. CASE PaymentFailed(r)
  <2>1. Update(r, MarkPaymentFailed(rentals[r], "stripe")) /\ Commit
    BY <1>5 DEF PaymentFailed
  <2>2. Accepted(MarkPaymentFailed(rentals[r], "stripe"))
    BY <2>1, Gated
  <2>3. QuietSound(rentals[r], MarkPaymentFailed(rentals[r], "stripe"))
    BY <1>1, <2>2, OpeningSound
  <2> QED
    BY <1>2, <2>1, <2>3, RewriteHands
<1>6. CASE Authorize(r)
  <2>1. rentals[r].pricing.deposit \in Nat
    BY ThereTyped
  <2> QED
    BY <1>1, <1>2, <1>3, <1>6, <2>1, AuthorizeSound, RewriteHands DEF Authorize
<1>7. CASE \E to \in {"EXPIRED", "CANCELLED"} : Expire(r, to)
  BY <1>1, <1>2, <1>3, <1>7, OpeningSound, RewriteHands DEF Expire
<1> QED
  BY <1>4, <1>5, <1>6, <1>7 DEF Opening

LEMMA EjectingHands ==
  ASSUME TypeOK, AllCoherent, AllSound, NEW r \in DOMAIN rentals, Ejecting(r)
  PROVE  Calm \/ Moves
<1>1. rentals[r] \in Rental /\ Coherent(rentals[r]) /\ Sound(rentals[r]) /\ Clock \subseteq Nat
  BY ThereTyped DEF AllCoherent, AllSound, Clock, TypeOK
<1>2. CASE ClaimEjection(r)
  BY <1>1, <1>2, EjectingSound, RewriteHands DEF ClaimEjection, inventory
<1>3. CASE FailAndRelease(r) \/ ResolveNotEjected(r)
  BY <1>1, <1>3, EjectingSound, RewriteHands DEF FailAndRelease, ResolveNotEjected, inventory
<1>4. CASE EjectionUncertain(r)
  BY <1>1, <1>4, EjectingSound, RewriteHands DEF EjectionUncertain, inventory
<1>5. CASE \E t \in Clock : EjectAndActivate(r, t)
  <2> PICK t \in Clock : EjectAndActivate(r, t)
    BY <1>5
  <2>1. CASE UNCHANGED <<rentals, inventory>>
    BY <2>1, SameHands DEF Calm, RentedSame, inventory
  <2>2. CASE /\ rentals[r].state = "PAYMENT_AUTH"
             /\ \E x \in AvailableAt(rentals[r].station) :
                  TakeFrom(x) /\ Update(r, ActivateWithBattery(BeginEjection(rentals[r]), slots[x], t))
    <3> PICK x \in AvailableAt(rentals[r].station) :
           TakeFrom(x) /\ Update(r, ActivateWithBattery(BeginEjection(rentals[r]), slots[x], t))
      BY <2>2
    <3> DEFINE begun == BeginEjection(rentals[r])
               record == ActivateWithBattery(begun, slots[x], t)
    <3>1. slots[x] \in Batteries /\ t \in Nat
      BY <1>1 DEF AvailableAt, TypeOK, InventoryTyped
    <3>2. begun \in Rental /\ Coherent(begun) /\ Sound(begun)
      BY <1>1, <2>2, EjectionTyped, EjectingEvolves, EjectingSound DEF Evolves, QuietSound
    <3>3. begun.state = "EJECTING" /\ rentals[r].battery = None /\ begun.returnedAt = Never
      BY <1>1, <2>2 DEF BeginEjection, Rental, Coherent
    <3> HIDE DEF begun
    <3>4. Sound(record)
      BY <3>1, <3>2, <3>3, EjectingSound
    <3>5. record.state = "ACTIVE" /\ record.battery = slots[x] /\ record.returnedAt = Never
      BY <3>2, <3>3 DEF ActivateWithBattery, Rental
    <3> QED
      BY <3>3, <3>4, <3>5, LeaveHands DEF begun
  <2> QED
    BY <2>1, <2>2 DEF EjectAndActivate
<1>6. CASE \E b \in Batteries, t \in Clock : RecordEjected(r, b, t) \/ ResolveEjected(r, b, t)
  <2> PICK b \in Batteries, t \in Clock : RecordEjected(r, b, t)
    BY <1>6 DEF ResolveEjected
  <2> PICK x \in AvailableAt(rentals[r].station) : slots[x] = b /\ TakeFrom(x)
    BY DEF RecordEjected
  <2> DEFINE record == ActivateWithBattery(rentals[r], b, t)
  <2>1. rentals[r].state = "EJECTING" /\ Update(r, record)
    BY DEF RecordEjected
  <2>2. rentals[r].battery = None /\ rentals[r].returnedAt = Never
    BY <1>1, <2>1 DEF Coherent
  <2>3. Sound(record)
    BY <1>1, <2>1, EjectingSound
  <2>4. record.state = "ACTIVE" /\ record.battery = slots[x] /\ record.returnedAt = Never
    BY <1>1, <2>2 DEF ActivateWithBattery, Rental
  <2> HIDE DEF record
  <2> QED
    BY <2>1, <2>2, <2>3, <2>4, LeaveHands
<1> QED
  BY <1>2, <1>3, <1>4, <1>5, <1>6 DEF Ejecting

LEMMA SettlingHands ==
  ASSUME TypeOK, ValidData, AllCoherent, AllSound, mode = "stripe", NEW r \in DOMAIN rentals, Settling(r)
  PROVE  Calm \/ Moves
<1>1. rentals[r] \in Rental /\ Coherent(rentals[r]) /\ Sound(rentals[r]) /\ rentals[r].amount \in Nat
  BY ThereTyped DEF AllCoherent, AllSound
<1>2. CASE \E s \in Stations, t \in 0..now, detected \in BOOLEAN : Return(r, s, t, detected)
  <2> PICK s \in Stations, t \in 0..now, detected \in BOOLEAN : Return(r, s, t, detected)
    BY <1>2
  <2>1. CASE UNCHANGED <<rentals, inventory>>
    BY <2>1, SameHands DEF Calm, RentedSame, inventory
  <2>2. CASE /\ CanReturn(rentals[r], t)
             /\ PlaceDeclared(rentals[r].battery, s) \/ PlaceDetected(rentals[r].battery, s)
             /\ Update(r, PrepareReturn(rentals[r], s, t))
    <3> DEFINE record == PrepareReturn(rentals[r], s, t)
    <3>1. t \in Nat
      BY DEF TypeOK
    <3>2. Sound(record) /\ record.returnedAt # Never /\ record.battery = rentals[r].battery
      BY <1>1, <2>2, <3>1, SettlingSound
    <3>3. rentals[r].state \in {"ACTIVE", "OVERDUE"} /\ rentals[r].battery \in Batteries
      BY <1>1, <2>2 DEF CanReturn, Rental
    <3>4. \A b \in Batteries :
            batteries'[b] = "RENTED" <=> batteries[b] = "RENTED" /\ b # rentals[r].battery
      BY <2>2, <3>3, PlaceHands DEF ValidData
    <3>5. \A q \in DOMAIN rentals : QuietSound(rentals[q], rentals[q])
      BY DEF AllSound, QuietSound, Quiet
    <3>6. rentals' = [rentals EXCEPT ![r] = record]
      BY <2>2 DEF Update
    <3> HIDE DEF record
    <3> QED
      BY <3>2, <3>3, <3>4, <3>5, <3>6, EndHands
  <2> QED
    BY <2>1, <2>2 DEF Return
<1>3. CASE PaymentCaptured(r)
  <2> DEFINE record == MarkCaptured(rentals[r], rentals[r].amount)
  <2>1. CanComplete(rentals[r]) /\ Update(r, record) /\ Commit /\ UNCHANGED batteries
    BY <1>3 DEF PaymentCaptured, CanMarkCaptured, inventory
  <2>2. Accepted(record)
    BY <2>1, Gated
  <2>3. QuietSound(rentals[r], record)
    BY <1>1, <2>1, <2>2, SettlingSound
  <2> QED
    BY <2>1, <2>3, RewriteHands
<1>4. CASE CompleteSettlement(r)
  <2> DEFINE record == Complete(rentals[r])
  <2>1. CanComplete(rentals[r]) /\ Update(r, record) /\ Commit /\ UNCHANGED batteries
    BY <1>4 DEF CompleteSettlement, inventory
  <2>2. Accepted(record)
    BY <2>1, Gated
  <2>3. QuietSound(rentals[r], record)
    BY <1>1, <2>1, <2>2, SettlingSound
  <2> QED
    BY <2>1, <2>3, RewriteHands
<1>5. CASE PaymentUnknown(r)
  <2> DEFINE record == MarkPaymentUnknown(rentals[r])
  <2>1. Update(r, record) /\ Commit /\ UNCHANGED batteries /\ rentals[r].state \notin Early
    BY <1>5 DEF PaymentUnknown, Confirmed, Early, inventory
  <2>2. /\ Accepted(record)
        /\ rentals[r].state \in TerminalStates => record = [rentals[r] EXCEPT !.payment = record.payment]
    BY <2>1, Gated
  <2>3. [rentals[r] EXCEPT !.payment = record.payment].paymentState = rentals[r].paymentState
    BY <1>1 DEF Rental
  <2>4. rentals[r].state \in TerminalStates => record.paymentState = rentals[r].paymentState
    BY <2>2, <2>3
  <2>5. QuietSound(rentals[r], record)
    BY <1>1, <2>1, <2>2, <2>4, UnknownSound
  <2> QED
    BY <2>1, <2>5, RewriteHands
<1> QED
  BY <1>2, <1>3, <1>4, <1>5 DEF Settling

-----------------------------------------------------------------------------
(* Stripe events.                                                            *)

LEMMA WebhookHands ==
  ASSUME TypeOK, AllCoherent, AllSound, mode = "stripe", NEW r \in DOMAIN rentals, Webhook(r)
  PROVE  Calm
<1> DEFINE old == rentals[r]
<1>1. /\ old \in Rental /\ Coherent(old) /\ Sound(old) /\ old.payment \in Payment
      /\ WebhookAmounts \subseteq Nat
  BY ThereTyped, BoundsAssumption DEF AllCoherent, AllSound
<1> HIDE DEF old
<1>2. ASSUME NEW new, Project(r, new),
             Accepted(new) => QuietSound(old, new)
      PROVE  Calm
  <2>1. Update(r, new) /\ Commit /\ UNCHANGED batteries
    BY <1>2 DEF Project, inventory
  <2>2. Accepted(new)
    BY <2>1, Gated
  <2> QED
    BY <1>2, <2>1, <2>2, RewriteHands DEF old
<1>3. CASE \E cents \in WebhookAmounts : WebhookCapturable(r, cents)
  <2> PICK cents \in WebhookAmounts : WebhookCapturable(r, cents)
    BY <1>3
  <2> DEFINE paid == Authorized(old.payment, cents, "stripe")
             new == [old EXCEPT !.paymentState = "AUTHORIZED", !.payment = paid]
  <2>1. paid.status = "AUTHORIZED"
    BY <1>1 DEF Authorized, Payment
  <2>2. old.payment.status \in {"PENDING", "AUTHORIZING"} /\ Project(r, new)
    BY DEF WebhookCapturable, old
  <2> HIDE DEF paid
  <2>3. /\ new.state = old.state /\ new.battery = old.battery /\ new.returnedAt = old.returnedAt
        /\ new.payment.status = "AUTHORIZED"
    BY <1>1, <2>1 DEF Rental
  <2> HIDE DEF new
  <2>4. QuietSound(old, new)
    BY <1>1, <2>2, <2>3, TerminalNames DEF QuietSound, Quiet, Sound, Unheld
  <2> QED
    BY <1>2, <2>2, <2>4
<1>4. CASE \E cents \in WebhookAmounts : WebhookSucceeded(r, cents)
  <2> PICK cents \in WebhookAmounts : WebhookSucceeded(r, cents)
    BY <1>4
  <2> DEFINE paid == Captured(old.payment, cents)
             unknown == [old EXCEPT !.paymentState = "UNKNOWN", !.payment.status = "UNKNOWN"]
             captured == [old EXCEPT !.paymentState = "CAPTURED", !.payment = paid,
                            !.state = IF @ = "RETURNED" /\ cents = old.amount THEN "COMPLETED" ELSE @]
  <2>1. /\ old.payment.status \in {"AUTHORIZED", "CAPTURING", "UNKNOWN"}
        /\ Project(r, unknown) \/ Project(r, captured)
    BY DEF WebhookSucceeded, old
  <2>2. old.state \notin TerminalStates
    BY <1>1, <2>1 DEF Sound, Unheld
  <2>3. paid.status = "CAPTURED"
    BY <1>1, CapturedFields
  <2> HIDE DEF paid
  <2>4. /\ unknown.state = old.state /\ unknown.battery = old.battery
        /\ unknown.returnedAt = old.returnedAt /\ unknown.payment.status = "UNKNOWN"
    BY <1>1 DEF Rental, Payment
  <2>5. /\ captured.state = IF old.state = "RETURNED" /\ cents = old.amount THEN "COMPLETED"
                            ELSE old.state
        /\ captured.battery = old.battery
        /\ captured.returnedAt = old.returnedAt /\ captured.payment.status = "CAPTURED"
    BY <1>1, <2>3 DEF Rental
  <2> HIDE DEF unknown, captured
  <2>6. QuietSound(old, unknown)
    BY <1>1, <2>2, <2>4, TerminalNames DEF QuietSound, Quiet, Sound, Unheld
  <2>7. QuietSound(old, captured)
    BY <1>1, <2>2, <2>5, TerminalNames DEF QuietSound, Quiet, Sound, Unheld
  <2> QED
    BY <1>2, <2>1, <2>6, <2>7
<1>5. CASE \E total \in WebhookAmounts : WebhookRefunded(r, total)
  <2> PICK total \in WebhookAmounts : WebhookRefunded(r, total)
    BY <1>5
  <2> DEFINE cents == IF total <= old.payment.captured THEN total ELSE old.payment.captured
  <2>1. Project(r, [old EXCEPT !.payment.refunded = cents])
    BY DEF WebhookRefunded, old
  <2> HIDE DEF cents
  <2> QED
    BY <1>1, <1>2, <2>1, RefundSound
<1>6. CASE WebhookCanceled(r)
  <2> DEFINE freed == Freed(old.payment)
             new == [MarkReleased(old) EXCEPT !.state = Unexpected(r)]
  <2>1. Project(r, new) /\ old.payment.status # "RELEASED"
    BY <1>6 DEF WebhookCanceled, old
  <2>2. freed.status = "RELEASED"
    BY <1>1 DEF Freed, Payment
  <2>3. MarkReleased(old) = [old EXCEPT !.paymentState = "RELEASED", !.payment = freed]
    BY <2>1 DEF MarkReleased
  <2> HIDE DEF freed
  <2>4. /\ new.state = IF old.state \in {"ACTIVE", "OVERDUE"} THEN "ERROR" ELSE old.state
        /\ new.battery = old.battery /\ new.returnedAt = old.returnedAt
        /\ new.payment.status = "RELEASED" /\ new.paymentState = "RELEASED"
    BY <1>1, <2>2, <2>3 DEF Rental, Unexpected, old
  <2> HIDE DEF new
  <2>5. QuietSound(old, new)
    BY <1>1, <2>4, TerminalNames DEF QuietSound, Quiet, Sound, Unheld
  <2> QED
    BY <1>2, <2>1, <2>5
<1>7. CASE WebhookFailed(r)
  <2> DEFINE new == [old EXCEPT !.paymentState = "FAILED", !.payment.status = "FAILED",
                                !.state = Unexpected(r)]
  <2>1. Project(r, new) /\ old.payment.status \notin {"CAPTURED", "RELEASED"}
    BY <1>7 DEF WebhookFailed, old
  <2>2. /\ new.state = IF old.state \in {"ACTIVE", "OVERDUE"} THEN "ERROR" ELSE old.state
        /\ new.battery = old.battery /\ new.returnedAt = old.returnedAt
        /\ new.payment.status = "FAILED"
    BY <1>1 DEF Rental, Payment, Unexpected, old
  <2> HIDE DEF new
  <2>3. old.state # "EJECTION_FAILED"
    BY <1>1, <2>1 DEF Sound
  <2>4. Accepted(new) => QuietSound(old, new)
    BY <1>1, <2>2, <2>3, TerminalNames DEF Accepted, QuietSound, Quiet, Sound, Unheld
  <2> QED
    BY <1>2, <2>1, <2>4
<1> QED
  BY <1>3, <1>4, <1>5, <1>6, <1>7 DEF Webhook

-----------------------------------------------------------------------------
(* Jobs, finance, operators and the simulator.                               *)

LEMMA CommonHands ==
  ASSUME TypeOK, ValidData, AllSound, CommonStep
  PROVE  Calm \/ Moves
<1>1. CASE RefreshOverdue
  BY <1>1, RefreshHands DEF RefreshOverdue, Calm, RentedSame, inventory
<1>2. CASE \E r \in DOMAIN rentals : \E cents \in 1..rentals[r].payment.captured : Refund(r, cents)
  <2> PICK r \in DOMAIN rentals : \E cents \in 1..rentals[r].payment.captured : Refund(r, cents)
    BY <1>2
  <2> PICK cents \in 1..rentals[r].payment.captured : Refund(r, cents)
    OBVIOUS
  <2>1. rentals[r] \in Rental /\ Sound(rentals[r])
    BY ThereTyped DEF AllSound
  <2>2. QuietSound(rentals[r], MarkRefunded(rentals[r], cents))
    BY <2>1, RefundSound DEF MarkRefunded
  <2> QED
    BY <2>2, RewriteHands DEF Refund, inventory
<1>3. CASE \E r \in DOMAIN rentals, t \in Clock :
             \E cents \in {rentals[r].pricing.deposit, rentals[r].payment.captured} :
               DepositLost(r, cents, t)
  <2> PICK r \in DOMAIN rentals, t \in Clock :
             \E cents \in {rentals[r].pricing.deposit, rentals[r].payment.captured} :
               DepositLost(r, cents, t)
    BY <1>3
  <2> PICK cents \in {rentals[r].pricing.deposit, rentals[r].payment.captured} : DepositLost(r, cents, t)
    OBVIOUS
  <2>1. CASE UNCHANGED <<rentals, inventory>>
    BY <2>1, SameHands DEF Calm, RentedSame, inventory
  <2>2. CASE /\ CanMarkLost(rentals[r], cents, t)
             /\ Update(r, MarkLost(rentals[r], cents))
             /\ batteries' = [batteries EXCEPT ![rentals[r].battery] = "LOST"]
    <3> DEFINE record == MarkLost(rentals[r], cents)
    <3>1. rentals[r] \in Rental /\ Sound(rentals[r]) /\ cents \in Nat
      BY ThereTyped DEF AllSound
    <3>2. Sound(record) /\ record.state = "LOST" /\ record.battery = rentals[r].battery
      BY <3>1, LostSound DEF MarkLost, Rental
    <3>3. rentals[r].state \in {"ACTIVE", "OVERDUE"}
      BY <2>2 DEF CanMarkLost, LossEligible
    <3>4. rentals' = [rentals EXCEPT ![r] = record]
      BY <2>2 DEF Update
    <3>5. \A q \in DOMAIN rentals : QuietSound(rentals[q], rentals[q])
      BY DEF AllSound, QuietSound, Quiet
    <3>6. \A b \in Batteries :
            batteries'[b] = "RENTED" <=> batteries[b] = "RENTED" /\ b # rentals[r].battery
      BY <2>2 DEF TypeOK, InventoryTyped
    <3> HIDE DEF record
    <3> QED
      BY <3>2, <3>3, <3>4, <3>5, <3>6, EndHands
  <2> QED
    BY <2>1, <2>2 DEF DepositLost
<1> QED
  BY <1>1, <1>2, <1>3 DEF CommonStep

\* A battery in a slot is not RENTED: what operators and cabinets do to it never is a custody.
LEMMA OperateHands ==
  ASSUME TypeOK, ValidData, AllSound, Operate
  PROVE  Calm
<1>1. batteries \in [Batteries -> BatteryStatuses] /\ UNCHANGED rentals
  BY DEF TypeOK, InventoryTyped, Operate, SetFlag, SetStation, SetPricing, OutOfService, BackInService,
         MirrorCabinet
<1>2. Hands({})
  BY <1>1, SameHands
<1>3. UNCHANGED batteries => Calm
  BY <1>2 DEF Calm, RentedSame
<1>4. CASE \E b \in Batteries, s \in Stations : OutOfService(b) \/ BackInService(b, s)
  BY <1>1, <1>2, <1>4 DEF OutOfService, BackInService, Calm, RentedSame
<1>5. CASE \E s \in Stations : \E content \in Contents(s) : MirrorCabinet(s, content)
  <2> PICK s \in Stations : \E content \in Contents(s) : MirrorCabinet(s, content)
    BY <1>5
  <2> PICK content \in Contents(s) : MirrorCabinet(s, content)
    OBVIOUS
  <2> DEFINE incoming == {content[x] : x \in DOMAIN content} \ {None}
             replaced(b) == \E x \in DOMAIN content : slots[x] = b
  <2>1. \A b \in incoming : batteries[b] # "RENTED"
    BY DEF MirrorCabinet
  <2>2. \A b \in Batteries :
          batteries'[b] = IF b \in incoming
                          THEN IF batteries[b] \in {"MISSING", "LOST"} THEN "AVAILABLE" ELSE batteries[b]
                          ELSE IF replaced(b) THEN "MISSING" ELSE batteries[b]
    BY DEF MirrorCabinet
  <2>3. \A b \in Batteries : replaced(b) => batteries[b] # "RENTED"
    <3>1. DOMAIN content \subseteq Slots
      BY DEF Contents
    <3> QED
      BY <3>1 DEF ValidData, BatteryLocation, InSlot
  <2> HIDE DEF incoming, replaced
  <2>4. RentedSame
    BY <2>1, <2>2, <2>3 DEF RentedSame
  <2> QED
    BY <1>2, <2>4 DEF Calm
<1> QED
  BY <1>3, <1>4, <1>5 DEF Operate, SetFlag, SetStation, SetPricing, inventory

LEMMA SimulateHands ==
  ASSUME TypeOK, ValidData, AllSound, AllCoherent, Simulate
  PROVE  Calm
<1>1. now \in Nat
  BY DEF TypeOK
<1>2. CASE \E s \in Stations, f \in FailureModes \cup {"none"} : SetFailure(s, f)
  BY <1>2, SameHands DEF SetFailure, SetStation, Calm, RentedSame, inventory
<1>3. CASE \E s \in Stations, status \in {"AVAILABLE", "MAINTENANCE"} : SimulateStock(s, status)
  <2> PICK s \in Stations, status \in {"AVAILABLE", "MAINTENANCE"} : SimulateStock(s, status)
    BY <1>3
  <2>1. Hands({})
    BY RefreshHands DEF SimulateStock
  <2>2. \A b \in Batteries :
          (\E x \in Slots : StationOf[x] = s /\ slots[x] = b) => batteries[b] # "RENTED"
    BY DEF ValidData, BatteryLocation, InSlot
  <2>3. RentedSame
    BY <2>2 DEF SimulateStock, RentedSame
  <2> QED
    BY <2>1, <2>3 DEF Calm
<1>4. CASE \E r \in DOMAIN rentals, hours \in 1..MaxSimulated : SimulateDelay(r, hours)
  <2> PICK r \in DOMAIN rentals, hours \in 1..MaxSimulated : SimulateDelay(r, hours)
    BY <1>4
  <2> DEFINE fresh == Refreshed(now)[r]
             delayed == [fresh EXCEPT !.simulated = @ + hours]
             late == [delayed EXCEPT !.state = "OVERDUE"]
             record == IF IsLate(delayed, now) THEN late ELSE delayed
  <2>1. fresh \in Rental /\ QuietSound(rentals[r], fresh)
    BY <1>1, RefreshedSound, RefreshedEvolves
  <2>2. /\ delayed.state \in {"ACTIVE", "OVERDUE"} /\ UNCHANGED batteries
        /\ rentals' = [Refreshed(now) EXCEPT ![r] = record]
    BY DEF SimulateDelay, inventory
  <2> HIDE DEF fresh
  <2>3. /\ delayed.battery = fresh.battery /\ delayed.returnedAt = fresh.returnedAt
        /\ delayed.payment = fresh.payment /\ delayed.paymentState = fresh.paymentState
        /\ late.battery = fresh.battery /\ late.returnedAt = fresh.returnedAt
        /\ late.payment = fresh.payment /\ late.paymentState = fresh.paymentState
        /\ late.state = "OVERDUE"
    BY <2>1 DEF Rental
  <2> HIDE DEF delayed, late
  <2>4. QuietSound(fresh, delayed) /\ QuietSound(fresh, late)
    BY <2>1, <2>2, <2>3, TerminalNames DEF QuietSound, Quiet, Sound, Unheld
  <2>5. QuietSound(rentals[r], record)
    BY <2>1, <2>4 DEF QuietSound, Quiet
  <2> HIDE DEF record
  <2>6. /\ DOMAIN Refreshed(now) = DOMAIN rentals
        /\ \A q \in DOMAIN rentals : QuietSound(rentals[q], Refreshed(now)[q])
    BY <1>1, RefreshedSound DEF Refreshed
  <2> QED
    BY <2>2, <2>5, <2>6 DEF Calm, Hands, RentedSame, QuietSound
<1> QED
  BY <1>2, <1>3, <1>4 DEF Simulate

\* Every step leaves every battery where it is, or hands one over, takes one back or forfeits one.
LEMMA NextHands ==
  ASSUME LifeInv, AllSound, [Next]_vars
  PROVE  Calm \/ Moves
<1> USE DEF LifeInv
<1>1. CASE MockStep
  BY <1>1, MockStartHands, MockReturnHands DEF MockStep
<1>2. CASE StripeStep
  BY <1>2, CreateHands, OpeningHands, EjectingHands, SettlingHands, WebhookHands DEF StripeStep
<1>3. CASE CommonStep
  BY <1>3, CommonHands
<1>4. CASE Operate
  BY <1>4, OperateHands
<1>5. CASE Simulate
  BY <1>5, SimulateHands
<1>6. CASE SwitchToStripe \/ Tick \/ UNCHANGED vars
  BY <1>6, SameHands DEF SwitchToStripe, Tick, vars, inventory, Calm, RentedSame
<1> QED
  BY <1>1, <1>2, <1>3, <1>4, <1>5, <1>6 DEF Next

-----------------------------------------------------------------------------
(* The invariant and the theorems.                                           *)

CustodyInv == LifeInv /\ AllSound /\ BatteryWithCustomer

LEMMA CustodyInit == Init => CustodyInv
<1> SUFFICES ASSUME Init PROVE CustodyInv
  OBVIOUS
<1>1. DOMAIN rentals = {} /\ \A b \in Batteries : batteries[b] # "RENTED"
  BY DEF Init
<1> QED
  BY <1>1, LifeInit DEF CustodyInv, AllSound, BatteryWithCustomer

\* A rental the step has nothing to do with keeps its battery out, or in.
LEMMA QuietOut ==
  ASSUME CustodyInv, LifeInv', AllSound', AllKept, NEW q \in DOMAIN rentals, q \in DOMAIN rentals',
         Quiet(rentals[q], rentals'[q])
  PROVE  Out(rentals'[q]) <=> Out(rentals[q])
<1>1. /\ rentals[q] \in Rental /\ Coherent(rentals[q]) /\ Sound(rentals[q])
      /\ Kept(rentals[q], rentals'[q])
  BY ThereTyped DEF CustodyInv, LifeInv, AllCoherent, AllSound, AllKept
<1>2. rentals'[q] \in Rental /\ Coherent(rentals'[q]) /\ Sound(rentals'[q])
  BY DEF LifeInv, TypeOK, RentalsTyped, AllCoherent, AllSound
<1>3. Out(rentals[q]) <=>
        rentals[q].battery # None /\ rentals[q].returnedAt = Never /\ rentals[q].state # "LOST"
  BY <1>1, OutMeans
<1>4. Out(rentals'[q]) <=>
        rentals'[q].battery # None /\ rentals'[q].returnedAt = Never /\ rentals'[q].state # "LOST"
  BY <1>2, OutMeans
<1> QED
  BY <1>1, <1>3, <1>4, TerminalNames DEF Quiet, Kept

LEMMA CustodyStep ==
  ASSUME CustodyInv, [Next]_vars
  PROVE  CustodyInv'
<1>1. LifeInv' /\ AllKept
  BY LifeStep DEF CustodyInv
<1>2. Calm \/ Moves
  BY NextHands DEF CustodyInv
<1>3. AllSound'
  BY <1>2 DEF Calm, Moves, Hands, AllSound
<1>4. CASE Calm
  <2>1. \A q \in DOMAIN rentals :
          q \in DOMAIN rentals' /\ rentals'[q].battery = rentals[q].battery
          /\ (Out(rentals'[q]) <=> Out(rentals[q]))
    BY <1>1, <1>3, <1>4, QuietOut DEF Calm, Hands, Quiet
  <2>2. \A q \in DOMAIN rentals' \ DOMAIN rentals : ~Out(rentals'[q])
    BY <1>4 DEF Calm, Hands, Out
  <2> QED
    BY <1>1, <1>3, <1>4, <2>1, <2>2 DEF Calm, RentedSame, CustodyInv, BatteryWithCustomer
<1>5. CASE Moves
  <2> PICK r : Hands({r}) /\ (Leaves(r) \/ Ends(r))
    BY <1>5 DEF Moves
  <2>1. \A q \in DOMAIN rentals \ {r} :
          q \in DOMAIN rentals' /\ rentals'[q].battery = rentals[q].battery
          /\ (Out(rentals'[q]) <=> Out(rentals[q]))
    BY <1>1, <1>3, QuietOut DEF Hands, Quiet
  <2>2. \A q \in DOMAIN rentals' \ (DOMAIN rentals \cup {r}) : ~Out(rentals'[q])
    BY DEF Hands, Out
  <2>3. CASE Leaves(r)
    <3> PICK b \in Batteries :
          /\ batteries[b] = "AVAILABLE" /\ batteries' = [batteries EXCEPT ![b] = "RENTED"]
          /\ r \in DOMAIN rentals' /\ rentals'[r].battery = b
          /\ rentals'[r].returnedAt = Never /\ rentals'[r].state = "ACTIVE"
          /\ r \in DOMAIN rentals => rentals[r].battery = None
      BY <2>3 DEF Leaves
    <3>1. Out(rentals'[r])
      BY NoneAssumption DEF Out
    <3>2. \A c \in Batteries : batteries'[c] = "RENTED" <=> batteries[c] = "RENTED" \/ c = b
      BY DEF CustodyInv, LifeInv, TypeOK, InventoryTyped
    <3>3. \A c \in Batteries \ {b} :
            (\E q \in DOMAIN rentals' : rentals'[q].battery = c /\ Out(rentals'[q]))
              <=> (\E q \in DOMAIN rentals : rentals[q].battery = c /\ Out(rentals[q]))
      BY <2>1, <2>2, NoneAssumption
    <3> QED
      BY <1>1, <1>3, <3>1, <3>2, <3>3 DEF CustodyInv, BatteryWithCustomer
  <2>4. CASE Ends(r)
    <3>1. /\ r \in DOMAIN rentals /\ rentals[r].state \in {"ACTIVE", "OVERDUE"}
          /\ rentals[r].battery \in Batteries /\ rentals'[r].battery = rentals[r].battery
          /\ ~Out(rentals'[r])
          /\ \A b \in Batteries :
               batteries'[b] = "RENTED" <=> batteries[b] = "RENTED" /\ b # rentals[r].battery
      BY <2>4 DEF Ends, Out
    <3>2. \A q \in DOMAIN rentals : Out(rentals[q]) /\ rentals[q].battery = rentals[r].battery => q = r
      <4> SUFFICES ASSUME NEW q \in DOMAIN rentals, Out(rentals[q]),
                          rentals[q].battery = rentals[r].battery
                   PROVE  q = r
        OBVIOUS
      <4>1. q \in Open /\ r \in Open
        BY <3>1 DEF Open, IsOpen, OpenStates, Out
      <4> QED
        BY <4>1 DEF Out, CustodyInv, LifeInv, ValidData, OneOpenPerBattery
    <3>3. \A c \in Batteries :
            (\E q \in DOMAIN rentals' : rentals'[q].battery = c /\ Out(rentals'[q]))
              <=> /\ c # rentals[r].battery
                  /\ \E q \in DOMAIN rentals : rentals[q].battery = c /\ Out(rentals[q])
      BY <2>1, <2>2, <3>1, <3>2
    <3> QED
      BY <1>1, <1>3, <3>1, <3>3 DEF CustodyInv, BatteryWithCustomer
  <2> QED
    BY <2>3, <2>4
<1> QED
  BY <1>2, <1>4, <1>5

\* The inductive invariant: LifeInv, what is held of each rental that is
\* over, and the agreement of the recorded batteries with the rentals that have one out.
THEOREM CustodyInvariant == Spec => []CustodyInv
<1>1. Init => CustodyInv
  BY CustodyInit
<1>2. CustodyInv /\ [Next]_vars => CustodyInv'
  BY CustodyStep
<1> QED
  BY <1>1, <1>2, PTL DEF Spec

\* A battery is recorded as RENTED exactly while some rental has it out, whatever the mirror, the
\* service desk, the simulator, returns and losses do.
THEOREM Custody == Spec => []BatteryWithCustomer
<1>1. CustodyInv => BatteryWithCustomer
  BY DEF CustodyInv
<1> QED
  BY <1>1, CustodyInvariant, PTL

\* Nothing stays held for a rental that is over, whatever event, retry or refusal came late.
THEOREM NothingHeld == Spec => []NothingHeldAtTheEnd
<1>1. CustodyInv => NothingHeldAtTheEnd
  BY DEF CustodyInv, AllSound, Sound, Unheld, NothingHeldAtTheEnd
<1> QED
  BY <1>1, CustodyInvariant, PTL

(***************************************************************************)
(* Part two: the coordinator.                                              *)
(***************************************************************************)

-----------------------------------------------------------------------------
(* Each action is a step of RentalTransactions.                            *)

\* Everything this deployment does is paid at Stripe.
LEMMA StripeMode ==
  ASSUME TypeOK
  PROVE  mode = "stripe" /\ Store = "postgres"
BY CoordinatorAssumption, StoreAssumption DEF TypeOK, SettingsTyped, Demo

LEMMA StripeNext ==
  ASSUME TypeOK, NEW r \in DOMAIN rentals, Opening(r) \/ Ejecting(r) \/ Settling(r) \/ Webhook(r)
  PROVE  Next
BY StripeMode DEF Next, StripeStep

\* A request reads the clock when it commits.
LEMMA NowIsClock ==
  ASSUME TypeOK
  PROVE  now \in Clock /\ now \in 0..now
BY BoundsAssumption DEF TypeOK, Clock

-----------------------------------------------------------------------------
(* What the coordinator may rely on between two awaits.  Each is a         *)
(* predicate of the values concerned, so that it can be carried over a step. *)

\* Stripe took this much from the intent.
Taken(i, cents) == i.status = "succeeded" /\ i.taken = cents

\* Stripe takes the whole deposit or, of a rental whose battery is back, its price, and never
\* gives back more.
IntentTrue(i, rental) ==
  /\ i.status # "succeeded" => i.taken = 0
  /\ i.refunded <= i.taken
  /\ i.status = "succeeded" =>
        \/ i.taken = rental.pricing.deposit
        \/ rental.returnedAt # Never /\ i.taken = rental.amount
IntentsTrue ==
  \A r \in RentalIds : IF r \in DOMAIN rentals THEN IntentTrue(intent[r], rentals[r])
                       ELSE intent[r] = NoIntent

\* An event, however late, tells no more than what happened.
EventTrue(e, i, rental) ==
  e.cents <= rental.pricing.deposit /\ (e.kind = "succeeded" => Taken(i, e.cents))
EventsTrue ==
  \A e \in events :
    e.rental \in DOMAIN rentals /\ EventTrue(e, intent[e.rental], rentals[e.rental])

\* The claim of a rental's one ejection is taken by this request.
Popping(q) == q.step \in {"choose", "pop"}

\* What a request learnt before its last await still holds when it goes on.
Knows(q, i, rental) ==
  /\ q.step \in {"settle", "capture", "captured", "complete"} => rental.returnedAt # Never
  /\ q.step = "captured" => Taken(i, rental.amount)
  /\ q.step \in {"forfeit", "lost"} => q.cents = rental.pricing.deposit
  /\ q.step = "lost" => Taken(i, q.cents)
  /\ q.step \in {"claim", "choose", "pop"} => Ejector
  /\ q.step = "activate" => ~Ejector
  /\ q.step = "pop" => q.battery \in Batteries
  /\ Popping(q) => rental.state \notin Claimable
Running(q) == q.step # "idle" =>
  q.rental \in DOMAIN rentals /\ Knows(q, intent[q.rental], rentals[q.rental])
RequestsTrue == \A p \in Requests : Running(request[p])

\* One claim per rental, taken before any battery left for it.
EjectionsTrue ==
  /\ \A p \in Requests : Popping(request[p]) => gone[request[p].rental] = {}
  /\ \A p, q \in Requests :
       (Popping(request[p]) /\ Popping(request[q]) /\ request[p].rental = request[q].rental) => p = q
  /\ \A r \in RentalIds : gone[r] # {} =>
       /\ r \in DOMAIN rentals /\ rentals[r].state \notin Claimable
       /\ ~Ejector => gone[r] = {rentals[r].battery}

\* The inductive invariant: that of the rentals, the types, and what is known of Stripe, of the
\* events, of the running requests and of the batteries that left.
CoordinatorInv ==
  /\ CustodyInv /\ CoordinatorTypeOK
  /\ IntentsTrue /\ EventsTrue /\ RequestsTrue /\ EjectionsTrue
  /\ CapturesTrue /\ OneBatteryPerRental

LEMMA InitCoordinator == CoordinatorInit => CoordinatorInv
<1> SUFFICES ASSUME CoordinatorInit PROVE CoordinatorInv
  OBVIOUS
<1>1. Init /\ DOMAIN rentals = {} /\ events = {}
      /\ request = [p \in Requests |-> Idle] /\ intent = [r \in RentalIds |-> NoIntent]
      /\ gone = [r \in RentalIds |-> {}] /\ crashes = 0
  BY DEF CoordinatorInit, Init
<1>2. CustodyInv
  BY <1>1, CustodyInit
<1>3. CoordinatorTypeOK
  <2>1. Idle \in Request /\ NoIntent \in Intent
    BY DEF Idle, Request, Steps, NoIntent, Intent
  <2> QED
    BY <1>1, <1>2, <2>1, CoordinatorAssumption DEF CoordinatorTypeOK, CustodyInv, LifeInv
<1>4. \A p \in Requests : request[p].step = "idle"
  BY <1>1 DEF Idle
<1> QED
  BY <1>1, <1>2, <1>3, <1>4 DEF CoordinatorInv, IntentsTrue, EventsTrue, RequestsTrue, Running,
     EjectionsTrue, Popping, CapturesTrue, OneBatteryPerRental

\* What the steps below read of it.
LEMMA RunningMeans ==
  ASSUME CoordinatorInv, NEW p \in Requests, request[p].step # "idle"
  PROVE  /\ request[p] \in Request /\ request[p].rental \in DOMAIN rentals
         /\ request[p].rental \in RentalIds
         /\ rentals[request[p].rental] \in Rental
         /\ Knows(request[p], intent[request[p].rental], rentals[request[p].rental])
<1>1. TypeOK /\ request \in [Requests -> Request] /\ RequestsTrue
  BY DEF CoordinatorInv, CoordinatorTypeOK
<1>2. request[p].rental \in DOMAIN rentals
  BY <1>1 DEF RequestsTrue, Running
<1> QED
  BY <1>1, <1>2, ThereTyped DEF RequestsTrue, Running, TypeOK, RentalsTyped

-----------------------------------------------------------------------------
(* Every step of the coordinator is one of RentalTransactions, or leaves   *)
(* the database alone.                                                     *)

LEMMA ArriveNext ==
  ASSUME CoordinatorInv, NEW p \in Requests, Arrive(p)
  PROVE  [Next]_vars
<1>1. TypeOK
  BY DEF CoordinatorInv, CoordinatorTypeOK
<1>2. ASSUME NEW r \in RentalIds, NEW c \in Customers, NEW s \in Stations, Begin(p, r, c, s)
      PROVE  [Next]_vars
  <2>1. Create(r, c, s) \/ UNCHANGED vars
    BY <1>2 DEF Begin, core
  <2> QED
    BY <1>1, <2>1, StripeMode DEF Next, StripeStep
<1>3. ASSUME NEW r \in DOMAIN rentals, NEW s \in Stations, NEW detected \in BOOLEAN,
             ReturnBattery(p, r, s, detected)
      PROVE  [Next]_vars
  BY <1>1, <1>3, NowIsClock, StripeNext DEF ReturnBattery, Settling
<1>4. ASSUME NEW r \in DOMAIN rentals, NEW b, CloseEjected(p, r, b)
      PROVE  [Next]_vars
  <2>1. b \in Batteries
    BY <1>1, <1>4 DEF CloseEjected, CoordinatorInv, CoordinatorTypeOK, TypeOK, RentalsTyped
  <2> QED
    BY <1>1, <1>4, <2>1, NowIsClock, StripeNext DEF CloseEjected, Ejecting
<1>5. ASSUME NEW r \in DOMAIN rentals, Confirm(p, r) \/ Abandon(p, r) \/ Expiry(p, r) \/ Loss(p, r)
                                         \/ CloseNotEjected(p, r) \/ RefundAction(p, r)
      PROVE  UNCHANGED vars
  BY <1>5 DEF Confirm, Abandon, Expiry, Stop, Loss, CloseNotEjected, RefundAction, RefundStart, core
<1> QED
  BY <1>2, <1>3, <1>4, <1>5 DEF Arrive, ResolveEjectionAction

LEMMA ContinueNext ==
  ASSUME CoordinatorInv, NEW p \in Requests, Continue(p)
  PROVE  [Next]_vars
<1> DEFINE r == request[p].rental
<1>1. TypeOK
  BY DEF CoordinatorInv, CoordinatorTypeOK
<1>2. request[p].step # "idle"
  BY DEF Continue, At, BeginIntent, BeginAttach, Refuse, ConfirmCheck, ConfirmAuthorize, Activate, Claim,
         Choose, Pop, Record, Uncertain, GiveBack, Failed, Unknown, AbandonRelease, ExpiryRelease,
         Release, AbandonCommit, ExpiryCommit, Settle, CaptureDue, RecordCapture, CompleteReturn,
         Forfeit, RecordLoss, Undo, Undone, RefundCall, RefundRecord
<1>3. r \in DOMAIN rentals /\ rentals[r] \in Rental /\ Knows(request[p], intent[r], rentals[r])
  BY <1>2, RunningMeans
<1> HIDE DEF r
<1>4. CASE \/ BeginIntent(p, r) \/ ConfirmCheck(p, r) \/ Choose(p, r) \/ Pop(p, r) \/ GiveBack(p, r)
           \/ AbandonRelease(p, r) \/ ExpiryRelease(p, r) \/ Settle(p, r) \/ CaptureDue(p, r)
           \/ Forfeit(p, r) \/ Undo(p, r) \/ RefundCall(p, r)
  BY <1>4 DEF BeginIntent, ConfirmCheck, Choose, Pop, GiveBack, AbandonRelease, ExpiryRelease, Release,
              Settle, CaptureDue, Forfeit, Undo, RefundCall, Call, core
<1>5. CASE BeginAttach(p, r) \/ Refuse(p, r) \/ ConfirmAuthorize(p, r) \/ AbandonCommit(p, r)
           \/ ExpiryCommit(p, r)
  <2>1. Opening(r) \/ UNCHANGED vars
    BY <1>5 DEF BeginAttach, Refuse, ConfirmAuthorize, AbandonCommit, ExpiryCommit, Attempt, Opening, core
  <2> QED
    BY <1>1, <1>3, <2>1, StripeNext
<1>6. CASE Activate(p, r) \/ Claim(p, r) \/ Uncertain(p, r) \/ Failed(p, r) \/ Undone(p, r)
  <2>1. Ejecting(r) \/ UNCHANGED vars
    BY <1>1, <1>6, NowIsClock DEF Activate, Claim, Uncertain, Failed, Undone, Attempt, Ejecting, core
  <2> QED
    BY <1>1, <1>3, <2>1, StripeNext
<1>7. CASE Record(p, r)
  <2>1. RecordEjected(r, request[p].battery, now) \/ UNCHANGED vars
    BY <1>7 DEF Record, Attempt, core
  <2>2. ASSUME RecordEjected(r, request[p].battery, now) PROVE request[p].battery \in Batteries
    BY <1>1, <2>2 DEF RecordEjected, AvailableAt, TypeOK, InventoryTyped
  <2>3. Ejecting(r) \/ UNCHANGED vars
    BY <1>1, <2>1, <2>2, NowIsClock DEF Ejecting
  <2> QED
    BY <1>1, <1>3, <2>3, StripeNext
<1>8. CASE Unknown(p, r) \/ RecordCapture(p, r) \/ CompleteReturn(p, r)
  <2>1. Settling(r) \/ UNCHANGED vars
    BY <1>8 DEF Unknown, RecordCapture, CompleteReturn, Attempt, Settling, core
  <2> QED
    BY <1>1, <1>3, <2>1, StripeNext
<1>9. CASE RecordLoss(p, r)
  <2>1. DepositLost(r, request[p].cents, now) \/ UNCHANGED vars
    BY <1>9 DEF RecordLoss, Attempt, core
  <2>2. request[p].cents = rentals[r].pricing.deposit
    BY <1>3, <1>9 DEF RecordLoss, At, Knows
  <2>3. CommonStep \/ UNCHANGED vars
    BY <1>1, <1>3, <2>1, <2>2, NowIsClock DEF CommonStep
  <2> QED
    BY <2>3 DEF Next
<1>10. CASE RefundRecord(p, r)
  <2>1. Refund(r, request[p].cents) \/ UNCHANGED vars
    BY <1>10 DEF RefundRecord, Attempt, core
  <2>2. request[p].cents \in Nat /\ rentals[r].payment.captured \in Nat
        /\ rentals[r].payment.refunded \in Nat
    BY <1>2, <1>3, RunningMeans DEF Request, Rental, Payment
  <2>3. ASSUME Refund(r, request[p].cents) PROVE request[p].cents \in 1..rentals[r].payment.captured
    BY <2>2, <2>3 DEF Refund, CanMarkRefunded
  <2>4. CommonStep \/ UNCHANGED vars
    BY <1>3, <2>1, <2>3 DEF CommonStep
  <2> QED
    BY <2>4 DEF Next
<1> QED
  BY <1>4, <1>5, <1>6, <1>7, <1>8, <1>9, <1>10 DEF Continue, r

LEMMA CoordinatorNextIsNext ==
  ASSUME CoordinatorInv, [CoordinatorNext]_allVars
  PROVE  [Next]_vars
<1>1. TypeOK /\ EventsTrue
  BY DEF CoordinatorInv, CoordinatorTypeOK
<1>2. CASE \E p \in Requests : Arrive(p) \/ Continue(p)
  BY <1>2, ArriveNext, ContinueNext
<1>3. CASE StripeSide
  <2>1. ASSUME NEW e \in events, Deliver(e)
        PROVE  Next
    <3>1. e.rental \in DOMAIN rentals /\ rentals[e.rental] \in Rental /\ e.cents \in Nat
      BY <1>1, ThereTyped DEF EventsTrue, CoordinatorInv, CoordinatorTypeOK
    <3>2. rentals[e.rental].pricing \in Pricings /\ rentals[e.rental].pricing.deposit \in Nat
      BY <3>1, PricingsAssumption DEF Rental, ValidGrid, Grid
    <3>3. e.cents \in WebhookAmounts
      BY <1>1, <3>1, <3>2, AmountsAssumption DEF EventsTrue, EventTrue
    <3>4. Webhook(e.rental)
      BY <2>1, <3>3 DEF Deliver, Webhook
    <3> QED
      BY <1>1, <3>1, <3>4, StripeNext
  <2>2. ASSUME ~(\E e \in events : Deliver(e)) PROVE UNCHANGED vars
    BY <1>3, <2>2 DEF StripeSide, CardAccepted, CardRefused, HoldEnds, DashboardRefund, core
  <2> QED
    BY <2>1, <2>2
<1>4. CASE Crash \/ UNCHANGED allVars
  BY <1>4 DEF Crash, core, allVars
<1>5. CASE Background
  BY <1>5 DEF Background, Next, CommonStep, Operate
<1> QED
  BY <1>2, <1>3, <1>4, <1>5 DEF CoordinatorNext

-----------------------------------------------------------------------------
(* What survives a step.                                                   *)

\* What Stripe took stays taken.
Advance(i, j) == i.status = "succeeded" => j.status = "succeeded" /\ j.taken = i.taken
Advances == \A r \in RentalIds : Advance(intent[r], intent'[r])

LEMMA KnowsStill ==
  ASSUME NEW q, NEW i, NEW j, NEW old, NEW new, Kept(old, new), Advance(i, j), Knows(q, i, old)
  PROVE  Knows(q, j, new)
BY DEF Kept, Advance, Knows, Taken

LEMMA IntentStill ==
  ASSUME NEW i, NEW old, NEW new, Kept(old, new), IntentTrue(i, old)
  PROVE  IntentTrue(i, new)
BY DEF Kept, IntentTrue

LEMMA EventStill ==
  ASSUME NEW e, NEW i, NEW j, NEW old, NEW new, Kept(old, new), Advance(i, j), EventTrue(e, i, old)
  PROVE  EventTrue(e, j, new)
BY DEF Kept, Advance, EventTrue, Taken

LEMMA RequestsStill ==
  ASSUME CoordinatorInv, AllKept, Advances,
         \A q \in Requests : request'[q] = request[q] \/ Running(request[q])'
  PROVE  RequestsTrue'
<1> SUFFICES ASSUME NEW q \in Requests, request'[q] = request[q], request[q].step # "idle"
             PROVE  LET r == request[q].rental IN
                    r \in DOMAIN rentals' /\ Knows(request[q], intent'[r], rentals'[r])
  BY DEF RequestsTrue, Running
<1> DEFINE r == request[q].rental
<1>1. r \in DOMAIN rentals /\ r \in RentalIds /\ Knows(request[q], intent[r], rentals[r])
  BY RunningMeans
<1>2. r \in DOMAIN rentals' /\ Kept(rentals[r], rentals'[r]) /\ Advance(intent[r], intent'[r])
  BY <1>1 DEF AllKept, Advances
<1> QED
  BY <1>1, <1>2, KnowsStill

\* The ejections know their claim as long as no battery leaves and no claim is made.
LEMMA EjectionsStill ==
  ASSUME CoordinatorInv, AllKept, UNCHANGED gone,
         \A q \in Requests : Popping(request'[q]) =>
           Popping(request[q]) /\ request'[q].rental = request[q].rental
  PROVE  EjectionsTrue' /\ OneBatteryPerRental'
<1>1. EjectionsTrue /\ OneBatteryPerRental /\ gone \in [RentalIds -> SUBSET Batteries]
  BY DEF CoordinatorInv, CoordinatorTypeOK
<1>2. \A p \in Requests : Popping(request'[p]) => gone'[request'[p].rental] = {}
  BY <1>1 DEF EjectionsTrue
<1>3. \A p, q \in Requests :
        (Popping(request'[p]) /\ Popping(request'[q]) /\ request'[p].rental = request'[q].rental) => p = q
  BY <1>1 DEF EjectionsTrue
<1>4. ASSUME NEW r \in RentalIds, gone'[r] # {}
      PROVE  /\ r \in DOMAIN rentals' /\ rentals'[r].state \notin Claimable
             /\ ~Ejector => gone'[r] = {rentals'[r].battery}
  <2>1. /\ r \in DOMAIN rentals /\ rentals[r].state \notin Claimable
        /\ ~Ejector => gone[r] = {rentals[r].battery}
    BY <1>1, <1>4 DEF EjectionsTrue
  <2>2. r \in DOMAIN rentals' /\ Kept(rentals[r], rentals'[r])
    BY <2>1 DEF AllKept
  <2>3. ~Ejector => rentals[r].battery # None
    BY <1>1, <2>1, NoneAssumption
  <2> QED
    BY <2>1, <2>2, <2>3 DEF Kept
<1> QED
  BY <1>1, <1>2, <1>3, <1>4 DEF EjectionsTrue, OneBatteryPerRental, Popping

LEMMA IntentsStill ==
  ASSUME CoordinatorInv, AllKept,
         \A r \in RentalIds :
           intent'[r] = intent[r] \/ (r \in DOMAIN rentals' /\ IntentTrue(intent'[r], rentals'[r]))
  PROVE  IntentsTrue'
<1> SUFFICES ASSUME NEW r \in RentalIds, intent'[r] = intent[r]
             PROVE  IF r \in DOMAIN rentals' THEN IntentTrue(intent'[r], rentals'[r])
                    ELSE intent'[r] = NoIntent
  BY DEF IntentsTrue
<1>1. IntentsTrue
  BY DEF CoordinatorInv
<1>2. CASE r \in DOMAIN rentals
  BY <1>1, <1>2, IntentStill DEF IntentsTrue, AllKept
<1>3. CASE r \notin DOMAIN rentals
  BY <1>1, <1>3 DEF IntentsTrue, IntentTrue, NoIntent
<1> QED
  BY <1>2, <1>3

LEMMA EventsStill ==
  ASSUME CoordinatorInv, AllKept, Advances,
         \A e \in events' : e \in events \/
           (e.rental \in DOMAIN rentals' /\ EventTrue(e, intent'[e.rental], rentals'[e.rental]))
  PROVE  EventsTrue'
<1> SUFFICES ASSUME NEW e \in events
             PROVE  e.rental \in DOMAIN rentals' /\ EventTrue(e, intent'[e.rental], rentals'[e.rental])
  BY DEF EventsTrue
<1> DEFINE r == e.rental
<1>1. r \in DOMAIN rentals /\ EventTrue(e, intent[r], rentals[r]) /\ r \in RentalIds
  BY DEF CoordinatorInv, EventsTrue, CoordinatorTypeOK, TypeOK, RentalsTyped
<1>2. r \in DOMAIN rentals' /\ Kept(rentals[r], rentals'[r]) /\ Advance(intent[r], intent'[r])
  BY <1>1 DEF AllKept, Advances
<1> QED
  BY <1>1, <1>2, EventStill

\* No capture is recorded but of what Stripe took.
CapturesBacked ==
  \A q \in DOMAIN rentals' :
    LET p == rentals'[q].payment IN
    p.status = "CAPTURED" =>
      \/ q \in DOMAIN rentals /\ rentals[q].payment.status = "CAPTURED"
         /\ rentals[q].payment.captured = p.captured
      \/ Taken(intent[q], p.captured)

LEMMA CapturesStill ==
  ASSUME CoordinatorInv, TypeOK', Advances, CapturesBacked
  PROVE  CapturesTrue'
<1> SUFFICES ASSUME NEW q \in DOMAIN rentals', rentals'[q].payment.status = "CAPTURED"
             PROVE  intent'[q].status = "succeeded" /\ rentals'[q].payment.captured = intent'[q].taken
  BY DEF CapturesTrue, Status
<1>1. q \in RentalIds
  BY DEF TypeOK, RentalsTyped
<1>2. Taken(intent[q], rentals'[q].payment.captured)
  BY DEF CapturesBacked, CoordinatorInv, CapturesTrue, Status, Taken
<1> QED
  BY <1>1, <1>2 DEF Advances, Advance, Taken

\* All but the part that the step is about.
LEMMA StepStill ==
  ASSUME CoordinatorInv, [Next]_vars, Advances, CapturesBacked,
         request' \in [Requests -> Request],
         \A q \in Requests : request'[q] = request[q] \/ Running(request[q])',
         intent' \in [RentalIds -> Intent],
         \A r \in RentalIds :
           intent'[r] = intent[r] \/ (r \in DOMAIN rentals' /\ IntentTrue(intent'[r], rentals'[r])),
         events' \subseteq [kind : {"capturable", "succeeded", "canceled", "failed", "refunded"},
                            rental : RentalIds, cents : Nat],
         \A e \in events' : e \in events \/
           (e.rental \in DOMAIN rentals' /\ EventTrue(e, intent'[e.rental], rentals'[e.rental])),
         gone' \in [RentalIds -> SUBSET Batteries], crashes' \in 0..Crashes,
         AllKept => EjectionsTrue' /\ OneBatteryPerRental'
  PROVE  CoordinatorInv'
<1>1. CustodyInv' /\ AllKept
  BY CustodyStep, LifeStep DEF CoordinatorInv, CustodyInv
<1>2. TypeOK'
  BY <1>1 DEF CustodyInv, LifeInv
<1>3. CoordinatorTypeOK'
  BY <1>2 DEF CoordinatorTypeOK
<1>4. IntentsTrue' /\ EventsTrue' /\ RequestsTrue' /\ CapturesTrue'
  BY <1>1, <1>2, IntentsStill, EventsStill, RequestsStill, CapturesStill
<1> QED
  BY <1>1, <1>3, <1>4 DEF CoordinatorInv

-----------------------------------------------------------------------------
(* The requests, from one await to the next.                               *)

RequestsGoOn ==
  /\ request' \in [Requests -> Request]
  /\ \A q \in Requests : request'[q] = request[q] \/ Running(request[q])'
NoNewPop ==
  \A q \in Requests : Popping(request'[q]) =>
    Popping(request[q]) /\ request'[q].rental = request[q].rental

\* Steps that rely on nothing but their rental.
FreeSteps == {"intent", "attach", "refuse", "check", "authorize", "record", "uncertain", "giveback",
              "failed", "unknown", "cancel", "cancelled", "abandon", "abandoned", "undo", "undone",
              "refund", "refunded"}

LEMMA FreeKnows ==
  ASSUME NEW q, NEW i, NEW rental, q.step \in FreeSteps
  PROVE  Knows(q, i, rental)
BY DEF Knows, FreeSteps, Popping

LEMMA SameGoesOn ==
  ASSUME CoordinatorInv, UNCHANGED request
  PROVE  RequestsGoOn /\ NoNewPop
BY DEF CoordinatorInv, CoordinatorTypeOK, RequestsGoOn, NoNewPop

\* A request whose record is replaced.
LEMMA NewRecordGoesOn ==
  ASSUME CoordinatorInv, NEW p \in Requests, NEW q \in Request, request' = [request EXCEPT ![p] = q],
         q.step # "idle" =>
           q.rental \in DOMAIN rentals' /\ Knows(q, intent'[q.rental], rentals'[q.rental]),
         Popping(q) => Popping(request[p]) /\ q.rental = request[p].rental
  PROVE  RequestsGoOn /\ NoNewPop
<1>1. request \in [Requests -> Request]
  BY DEF CoordinatorInv, CoordinatorTypeOK
<1>2. request' \in [Requests -> Request] /\ request'[p] = q
      /\ \A o \in Requests \ {p} : request'[o] = request[o]
  BY <1>1
<1>3. Running(request[p])'
  BY <1>2 DEF Running
<1> QED
  BY <1>2, <1>3 DEF RequestsGoOn, NoNewPop

LEMMA BegunGoesOn ==
  ASSUME CoordinatorInv, NEW p \in Requests, NEW step \in Steps, NEW r \in RentalIds, Begun(p, step, r),
         r \in DOMAIN rentals',
         step \in FreeSteps \/ (step = "settle" /\ rentals'[r].returnedAt # Never)
  PROVE  RequestsGoOn /\ NoNewPop
<1> DEFINE q == [Idle EXCEPT !.step = step, !.rental = r]
<1>1. q \in Request /\ q.step = step /\ q.rental = r
  BY DEF Idle, Request
<1>2. Knows(q, intent'[r], rentals'[r]) /\ ~Popping(q)
  BY <1>1, FreeKnows DEF FreeSteps, Popping, Knows
<1>3. request' = [request EXCEPT ![p] = q]
  BY DEF Begun
<1> HIDE DEF q
<1> QED
  BY <1>1, <1>2, <1>3, NewRecordGoesOn

LEMMA GotoGoesOn ==
  ASSUME CoordinatorInv, NEW p \in Requests, NEW step \in Steps, Goto(p, step), request[p].step # "idle",
         AllKept,
         step # "idle" => LET r == request[p].rental IN
           Knows([request[p] EXCEPT !.step = step], intent'[r], rentals'[r]),
         step \in {"choose", "pop"} => Popping(request[p])
  PROVE  RequestsGoOn /\ NoNewPop
<1> DEFINE q == IF step = "idle" THEN Idle ELSE [request[p] EXCEPT !.step = step]
<1>1. request[p] \in Request /\ request[p].rental \in DOMAIN rentals'
  BY RunningMeans DEF AllKept
<1>2. q \in Request /\ q.step = step /\ (step # "idle" => q.rental = request[p].rental)
  BY <1>1 DEF Idle, Request, Steps
<1>3. request' = [request EXCEPT ![p] = q]
  <2>1. request \in [Requests -> Request]
    BY DEF CoordinatorInv, CoordinatorTypeOK
  <2> QED
    BY <2>1 DEF Goto
<1>4. step # "idle" => q.rental \in DOMAIN rentals' /\ Knows(q, intent'[q.rental], rentals'[q.rental])
  BY <1>1, <1>2
<1>5. Popping(q) => Popping(request[p]) /\ q.rental = request[p].rental
  BY <1>2 DEF Popping
<1> HIDE DEF q
<1> QED
  BY <1>2, <1>3, <1>4, <1>5, NewRecordGoesOn

LEMMA FreeGoesOn ==
  ASSUME CoordinatorInv, NEW p \in Requests, NEW step \in FreeSteps \cup {"idle"}, Goto(p, step),
         request[p].step # "idle", AllKept
  PROVE  RequestsGoOn /\ NoNewPop
<1> DEFINE q == [request[p] EXCEPT !.step = step]
<1>1. q.step = step
  BY RunningMeans DEF Request
<1>2. step # "idle" => Knows(q, intent'[request[p].rental], rentals'[request[p].rental])
  BY <1>1, FreeKnows
<1>3. step \in Steps /\ step \notin {"choose", "pop"}
  BY DEF FreeSteps, Steps
<1> HIDE DEF q
<1> QED
  BY <1>2, <1>3, GotoGoesOn DEF q

-----------------------------------------------------------------------------
(* The steps of one kind.                                                  *)

\* A transaction, Stripe and the cabinets being left alone.
LEMMA TransactionStep ==
  ASSUME CoordinatorInv, [Next]_vars, UNCHANGED <<intent, events, gone, crashes>>, CapturesBacked,
         RequestsGoOn, NoNewPop
  PROVE  CoordinatorInv'
<1>1. CoordinatorTypeOK
  BY DEF CoordinatorInv
<1>2. Advances
  BY DEF Advances, Advance
<1>3. AllKept => EjectionsTrue' /\ OneBatteryPerRental'
  BY EjectionsStill DEF NoNewPop
<1>4. /\ intent' \in [RentalIds -> Intent]
      /\ events' \subseteq [kind : {"capturable", "succeeded", "canceled", "failed", "refunded"},
                             rental : RentalIds, cents : Nat]
      /\ gone' \in [RentalIds -> SUBSET Batteries] /\ crashes' \in 0..Crashes
  BY <1>1 DEF CoordinatorTypeOK
<1> QED
  BY <1>2, <1>3, <1>4, StepStill DEF RequestsGoOn

\* The intent of rental r moves, Stripe perhaps telling so.
IntentMoves(r) ==
  \E j \in Intent :
    /\ intent' = [intent EXCEPT ![r] = j]
    /\ Advance(intent[r], j) /\ IntentTrue(j, rentals[r])
    /\ \/ events' = events
       \/ \E kind \in {"capturable", "succeeded", "canceled", "failed", "refunded"}, cents \in Nat :
            /\ events' = events \cup {Event(kind, r, cents)}
            /\ EventTrue(Event(kind, r, cents), j, rentals[r])

LEMMA StripeMoves ==
  ASSUME CoordinatorInv, UNCHANGED <<vars, gone, crashes>>, NEW r \in DOMAIN rentals, IntentMoves(r),
         RequestsGoOn, NoNewPop
  PROVE  CoordinatorInv'
<1> PICK j \in Intent :
      /\ intent' = [intent EXCEPT ![r] = j]
      /\ Advance(intent[r], j) /\ IntentTrue(j, rentals[r])
      /\ \/ events' = events
         \/ \E kind \in {"capturable", "succeeded", "canceled", "failed", "refunded"}, cents \in Nat :
              /\ events' = events \cup {Event(kind, r, cents)}
              /\ EventTrue(Event(kind, r, cents), j, rentals[r])
  BY DEF IntentMoves
<1>1. CoordinatorTypeOK /\ r \in RentalIds /\ UNCHANGED rentals
  BY DEF CoordinatorInv, CoordinatorTypeOK, TypeOK, RentalsTyped, vars
<1>2. intent' \in [RentalIds -> Intent] /\ intent'[r] = j
      /\ \A o \in RentalIds \ {r} : intent'[o] = intent[o]
  BY <1>1 DEF CoordinatorTypeOK
<1>3. Advances
  BY <1>2 DEF Advances, Advance
<1>4. \A o \in RentalIds :
        intent'[o] = intent[o] \/ (o \in DOMAIN rentals' /\ IntentTrue(intent'[o], rentals'[o]))
  BY <1>1, <1>2
<1>5. /\ events' \subseteq [kind : {"capturable", "succeeded", "canceled", "failed", "refunded"},
                             rental : RentalIds, cents : Nat]
      /\ \A e \in events' : e \in events \/
           (e.rental \in DOMAIN rentals' /\ EventTrue(e, intent'[e.rental], rentals'[e.rental]))
  <2>1. CASE events' = events
    BY <1>1, <2>1 DEF CoordinatorTypeOK
  <2>2. CASE \E kind \in {"capturable", "succeeded", "canceled", "failed", "refunded"}, cents \in Nat :
               /\ events' = events \cup {Event(kind, r, cents)}
               /\ EventTrue(Event(kind, r, cents), j, rentals[r])
    <3> PICK kind \in {"capturable", "succeeded", "canceled", "failed", "refunded"}, cents \in Nat :
               /\ events' = events \cup {Event(kind, r, cents)}
               /\ EventTrue(Event(kind, r, cents), j, rentals[r])
      BY <2>2
    <3>1. Event(kind, r, cents).rental = r
          /\ Event(kind, r, cents) \in
               [kind : {"capturable", "succeeded", "canceled", "failed", "refunded"},
                rental : RentalIds, cents : Nat]
      BY <1>1 DEF Event
    <3> QED
      BY <1>1, <1>2, <3>1 DEF CoordinatorTypeOK
  <2> QED
    BY <2>1, <2>2
<1>6. CapturesBacked
  BY <1>1 DEF CapturesBacked
<1>7. AllKept => EjectionsTrue' /\ OneBatteryPerRental'
  BY EjectionsStill DEF NoNewPop
<1>8. gone' \in [RentalIds -> SUBSET Batteries] /\ crashes' \in 0..Crashes
  BY <1>1 DEF CoordinatorTypeOK
<1> QED
  BY <1>2, <1>3, <1>4, <1>5, <1>6, <1>7, <1>8, StepStill DEF RequestsGoOn

\* Only requests move.
LEMMA RequestStep ==
  ASSUME CoordinatorInv, UNCHANGED <<vars, intent, events, gone, crashes>>, RequestsGoOn, NoNewPop
  PROVE  CoordinatorInv'
BY TransactionStep DEF CapturesBacked, vars

-----------------------------------------------------------------------------
(* What each transaction records as captured.                              *)

NoCapture(old, new) ==
  new.payment.status = "CAPTURED" =>
    old.payment.status = "CAPTURED" /\ new.payment.captured = old.payment.captured

LEMMA OpeningCaptures ==
  ASSUME NEW r \in Rental, NEW cents \in Nat
  PROVE  /\ NoCapture(r, AttachIntent(r)) /\ NoCapture(r, MarkPaymentFailed(r, "stripe"))
         /\ \A to \in {"EXPIRED", "CANCELLED"} : NoCapture(r, ExpireUnconfirmed(r, to))
         /\ NoCapture(r, [RecordAuthorized(r, cents, "stripe") EXCEPT !.state = "PAYMENT_AUTH"])
<1>1. r.payment \in Payment
  BY DEF Rental
<1>2. PendingPayment.status = "PENDING" /\ Authorized(r.payment, cents, "stripe").status = "AUTHORIZED"
  BY <1>1 DEF PendingPayment, NoPayment, Authorized, Payment
<1>3. NoCapture(r, AttachIntent(r))
  BY <1>2 DEF NoCapture, AttachIntent, Rental
<1>4. NoCapture(r, MarkPaymentFailed(r, "stripe"))
  BY <1>1 DEF NoCapture, MarkPaymentFailed, Rental, Payment
<1>5. \A to \in {"EXPIRED", "CANCELLED"} : NoCapture(r, ExpireUnconfirmed(r, to))
  BY <1>1 DEF NoCapture, ExpireUnconfirmed, HasPayment, Rental, Payment
<1>6. NoCapture(r, [RecordAuthorized(r, cents, "stripe") EXCEPT !.state = "PAYMENT_AUTH"])
  BY <1>2 DEF NoCapture, RecordAuthorized, Rental
<1> QED
  BY <1>3, <1>4, <1>5, <1>6

LEMMA EjectingCaptures ==
  ASSUME NEW r \in Rental
  PROVE  /\ NoCapture(r, BeginEjection(r)) /\ NoCapture(r, MarkUncertain(r))
         /\ NoCapture(r, MarkReleased(FailEjection(r))) /\ NoCapture(r, MarkPaymentUnknown(r))
         /\ \A b \in Batteries, t \in Nat :
              /\ NoCapture(r, ActivateWithBattery(r, b, t))
              /\ NoCapture(r, ActivateWithBattery(BeginEjection(r), b, t))
<1>1. r.payment \in Payment /\ Freed(r.payment).status = "RELEASED"
  BY DEF Rental, Freed, Payment
<1>2. NoCapture(r, BeginEjection(r)) /\ NoCapture(r, MarkUncertain(r))
  BY DEF NoCapture, BeginEjection, MarkUncertain, Rental
<1>3. NoCapture(r, MarkReleased(FailEjection(r)))
  BY <1>1 DEF NoCapture, MarkReleased, FailEjection, Rental
<1>4. NoCapture(r, MarkPaymentUnknown(r))
  BY <1>1 DEF NoCapture, MarkPaymentUnknown, HasPayment, Rental, Payment
<1>5. ASSUME NEW b \in Batteries, NEW t \in Nat
      PROVE  /\ NoCapture(r, ActivateWithBattery(r, b, t))
             /\ NoCapture(r, ActivateWithBattery(BeginEjection(r), b, t))
  BY DEF NoCapture, ActivateWithBattery, BeginEjection, Rental
<1> QED
  BY <1>2, <1>3, <1>4, <1>5

LEMMA UpdateBacked ==
  ASSUME TypeOK, NEW r \in DOMAIN rentals, NEW record, Update(r, record),
         \/ NoCapture(rentals[r], record)
         \/ record.payment.status = "CAPTURED" /\ Taken(intent[r], record.payment.captured)
  PROVE  CapturesBacked
BY DEF Update, TypeOK, RentalsTyped, CapturesBacked, NoCapture

LEMMA SameBacked ==
  ASSUME UNCHANGED rentals
  PROVE  CapturesBacked
BY DEF CapturesBacked

LEMMA RefreshedBacked ==
  ASSUME TypeOK, rentals' = Refreshed(now)
  PROVE  CapturesBacked
<1> SUFFICES ASSUME NEW q \in DOMAIN rentals
             PROVE  rentals'[q].payment = rentals[q].payment
  BY DEF CapturesBacked, Refreshed
<1>1. rentals[q] \in Rental
  BY ThereTyped
<1> QED
  BY <1>1 DEF Refreshed, Rental

LEMMA CreateBacked ==
  ASSUME NEW r, NEW c, NEW s, Create(r, c, s)
  PROVE  CapturesBacked
BY DEF Create, CanOpen, AddRental, NewRental, NoPayment, CapturesBacked

LEMMA OpeningBacked ==
  ASSUME TypeOK, NEW r \in DOMAIN rentals, Opening(r)
  PROVE  CapturesBacked
<1>1. rentals[r] \in Rental /\ rentals[r].pricing.deposit \in Nat
  BY ThereTyped, PricingsAssumption DEF Rental, ValidGrid, Grid
<1>2. CASE AttachPayment(r)
  BY <1>1, <1>2, OpeningCaptures, UpdateBacked, SameBacked DEF AttachPayment
<1>3. CASE PaymentFailed(r)
  BY <1>1, <1>3, OpeningCaptures, UpdateBacked DEF PaymentFailed
<1>4. CASE Authorize(r)
  BY <1>1, <1>4, OpeningCaptures, UpdateBacked, SameBacked DEF Authorize
<1>5. ASSUME NEW to \in {"EXPIRED", "CANCELLED"}, Expire(r, to)
      PROVE  CapturesBacked
  BY <1>1, <1>5, OpeningCaptures, UpdateBacked, SameBacked DEF Expire
<1> QED
  BY <1>2, <1>3, <1>4, <1>5 DEF Opening

LEMMA EjectingBacked ==
  ASSUME TypeOK, NEW r \in DOMAIN rentals, Ejecting(r)
  PROVE  CapturesBacked
<1>1. rentals[r] \in Rental /\ Clock \subseteq Nat
  BY ThereTyped DEF Clock
<1>2. CASE ClaimEjection(r) \/ EjectionUncertain(r)
  BY <1>1, <1>2, EjectingCaptures, UpdateBacked DEF ClaimEjection, EjectionUncertain
<1>3. CASE FailAndRelease(r) \/ ResolveNotEjected(r)
  BY <1>1, <1>3, EjectingCaptures, UpdateBacked DEF FailAndRelease, ResolveNotEjected
<1>4. ASSUME NEW t \in Clock, EjectAndActivate(r, t)
      PROVE  CapturesBacked
  <2>1. CASE UNCHANGED rentals
    BY <2>1, SameBacked
  <2>2. ASSUME NEW x \in AvailableAt(rentals[r].station),
               Update(r, ActivateWithBattery(BeginEjection(rentals[r]), slots[x], t))
        PROVE  CapturesBacked
    <3>1. slots[x] \in Batteries
      BY DEF AvailableAt, TypeOK, InventoryTyped
    <3> QED
      BY <1>1, <2>2, <3>1, EjectingCaptures, UpdateBacked
  <2> QED
    BY <1>4, <2>1, <2>2 DEF EjectAndActivate
<1>5. ASSUME NEW b \in Batteries, NEW t \in Clock, RecordEjected(r, b, t) \/ ResolveEjected(r, b, t)
      PROVE  CapturesBacked
  BY <1>1, <1>5, EjectingCaptures, UpdateBacked DEF RecordEjected, ResolveEjected
<1> QED
  BY <1>2, <1>3, <1>4, <1>5 DEF Ejecting

LEMMA ReturnBacked ==
  ASSUME TypeOK, NEW r \in DOMAIN rentals, NEW s, NEW t, NEW detected, Return(r, s, t, detected)
  PROVE  CapturesBacked
<1>1. rentals[r] \in Rental
  BY ThereTyped
<1>2. NoCapture(rentals[r], PrepareReturn(rentals[r], s, t))
  BY <1>1 DEF NoCapture, PrepareReturn, Rental
<1> QED
  BY <1>2, UpdateBacked, SameBacked DEF Return

LEMMA SettlingBacked ==
  ASSUME TypeOK, NEW r \in DOMAIN rentals,
         \/ CompleteSettlement(r) \/ PaymentUnknown(r)
         \/ PaymentCaptured(r) /\ Taken(intent[r], rentals[r].amount)
  PROVE  CapturesBacked
<1>1. rentals[r] \in Rental
  BY ThereTyped
<1>2. CASE CompleteSettlement(r)
  <2>1. NoCapture(rentals[r], Complete(rentals[r]))
    BY <1>1 DEF NoCapture, Complete, Rental
  <2> QED
    BY <1>2, <2>1, UpdateBacked DEF CompleteSettlement
<1>3. CASE PaymentUnknown(r)
  BY <1>1, <1>3, EjectingCaptures, UpdateBacked DEF PaymentUnknown
<1>4. CASE PaymentCaptured(r) /\ Taken(intent[r], rentals[r].amount)
  <2> DEFINE due == rentals[r].amount
             new == MarkCaptured(rentals[r], due)
  <2>1. rentals[r].payment \in Payment /\ due \in Nat
    BY <1>1 DEF Rental
  <2>2. Captured(rentals[r].payment, due).status = "CAPTURED"
        /\ Captured(rentals[r].payment, due).captured = due
    BY <2>1 DEF Captured, Payment
  <2>3. NoCapture(rentals[r], new) \/ (new.payment.status = "CAPTURED" /\ new.payment.captured = due)
    BY <1>1, <2>2 DEF NoCapture, MarkCaptured, Complete, Rental
  <2>4. Update(r, new)
    BY <1>4 DEF PaymentCaptured
  <2> HIDE DEF new
  <2> QED
    BY <1>4, <2>3, <2>4, UpdateBacked
<1> QED
  BY <1>2, <1>3, <1>4

LEMMA RefundBacked ==
  ASSUME TypeOK, NEW r \in DOMAIN rentals, NEW cents,
         Update(r, [rentals[r] EXCEPT !.payment.refunded = cents])
  PROVE  CapturesBacked
<1>1. rentals[r] \in Rental /\ rentals[r].payment \in Payment
  BY ThereTyped DEF Rental
<1>2. NoCapture(rentals[r], [rentals[r] EXCEPT !.payment.refunded = cents])
  BY <1>1 DEF NoCapture, Rental, Payment
<1> QED
  BY <1>2, UpdateBacked

LEMMA LostBacked ==
  ASSUME TypeOK, NEW r \in DOMAIN rentals, NEW cents \in Nat, NEW t, DepositLost(r, cents, t),
         Taken(intent[r], cents)
  PROVE  CapturesBacked
<1>1. rentals[r] \in Rental /\ rentals[r].payment \in Payment
  BY ThereTyped DEF Rental
<1>2. Captured(rentals[r].payment, cents).status = "CAPTURED"
      /\ Captured(rentals[r].payment, cents).captured = cents
  BY <1>1 DEF Captured, Payment
<1>3. MarkLost(rentals[r], cents).payment.status = "CAPTURED"
      /\ MarkLost(rentals[r], cents).payment.captured = cents
  BY <1>1, <1>2 DEF MarkLost, Rental
<1> QED
  BY <1>3, UpdateBacked, SameBacked DEF DepositLost

LEMMA WebhookBacked ==
  ASSUME TypeOK, NEW r \in DOMAIN rentals, NEW cents \in Nat,
         \/ WebhookCapturable(r, cents) \/ WebhookRefunded(r, cents)
         \/ WebhookCanceled(r) \/ WebhookFailed(r)
         \/ WebhookSucceeded(r, cents) /\ Taken(intent[r], cents)
  PROVE  CapturesBacked
<1>1. rentals[r] \in Rental /\ rentals[r].payment \in Payment
  BY ThereTyped DEF Rental
<1>2. CASE WebhookCapturable(r, cents)
  <2>1. Authorized(rentals[r].payment, cents, "stripe").status = "AUTHORIZED"
    BY <1>1 DEF Authorized, Payment
  <2>2. NoCapture(rentals[r], [rentals[r] EXCEPT !.paymentState = "AUTHORIZED",
                                 !.payment = Authorized(@, cents, "stripe")])
    BY <1>1, <2>1 DEF NoCapture, Rental
  <2> QED
    BY <1>2, <2>2, UpdateBacked DEF WebhookCapturable, Project
<1>3. CASE WebhookRefunded(r, cents)
  BY <1>3, RefundBacked DEF WebhookRefunded, Project
<1>4. CASE WebhookCanceled(r)
  <2>1. Freed(rentals[r].payment).status = "RELEASED"
    BY <1>1 DEF Freed, Payment
  <2>2. NoCapture(rentals[r], [MarkReleased(rentals[r]) EXCEPT !.state = Unexpected(r)])
    BY <1>1, <2>1 DEF NoCapture, MarkReleased, Rental
  <2> QED
    BY <1>4, <2>2, UpdateBacked DEF WebhookCanceled, Project
<1>5. CASE WebhookFailed(r)
  <2>1. NoCapture(rentals[r], [rentals[r] EXCEPT !.paymentState = "FAILED", !.payment.status = "FAILED",
                                 !.state = Unexpected(r)])
    BY <1>1 DEF NoCapture, Rental, Payment
  <2> QED
    BY <1>5, <2>1, UpdateBacked DEF WebhookFailed, Project
<1>6. CASE WebhookSucceeded(r, cents) /\ Taken(intent[r], cents)
  <2>1. Captured(rentals[r].payment, cents).status = "CAPTURED"
        /\ Captured(rentals[r].payment, cents).captured = cents
    BY <1>1 DEF Captured, Payment
  <2>2. CASE cents > rentals[r].payment.authorized
    <3>1. NoCapture(rentals[r], [rentals[r] EXCEPT !.paymentState = "UNKNOWN", !.payment.status = "UNKNOWN"])
      BY <1>1 DEF NoCapture, Rental, Payment
    <3> QED
      BY <1>6, <2>2, <3>1, UpdateBacked DEF WebhookSucceeded, Project
  <2>3. CASE ~(cents > rentals[r].payment.authorized)
    <3> DEFINE new == [rentals[r] EXCEPT !.paymentState = "CAPTURED", !.payment = Captured(@, cents),
                         !.state = IF @ = "RETURNED" /\ cents = rentals[r].amount
                                   THEN "COMPLETED" ELSE @]
    <3>1. new.payment.status = "CAPTURED" /\ new.payment.captured = cents
      BY <1>1, <2>1 DEF Rental
    <3>2. Update(r, new)
      BY <1>6, <2>3 DEF WebhookSucceeded, Project
    <3> HIDE DEF new
    <3> QED
      BY <1>6, <3>1, <3>2, UpdateBacked
  <2> QED
    BY <2>2, <2>3
<1> QED
  BY <1>2, <1>3, <1>4, <1>5, <1>6

-----------------------------------------------------------------------------
(* What each call does to the intent at Stripe.                            *)

LEMMA IntentHere ==
  ASSUME CoordinatorInv, NEW r \in DOMAIN rentals
  PROVE  /\ r \in RentalIds /\ rentals[r] \in Rental /\ intent[r] \in Intent
         /\ intent \in [RentalIds -> Intent] /\ IntentTrue(intent[r], rentals[r])
         /\ rentals[r].pricing.deposit \in Nat /\ rentals[r].amount \in Nat
         /\ rentals[r].amount <= rentals[r].pricing.deposit
<1>1. TypeOK /\ ValidData /\ CoordinatorTypeOK /\ IntentsTrue
  BY DEF CoordinatorInv, CoordinatorTypeOK, CustodyInv, LifeInv
<1>2. r \in RentalIds /\ rentals[r] \in Rental
  BY <1>1, ThereTyped DEF TypeOK, RentalsTyped
<1>3. intent \in [RentalIds -> Intent] /\ IntentTrue(intent[r], rentals[r])
  BY <1>1, <1>2 DEF CoordinatorTypeOK, IntentsTrue
<1>4. rentals[r].pricing \in Pricings /\ rentals[r].amount \in Nat
      /\ rentals[r].amount <= rentals[r].pricing.cap
  BY <1>1, <1>2 DEF Rental, ValidData, ValidRental
<1>5. rentals[r].pricing.deposit \in Nat /\ rentals[r].pricing.cap \in Nat
      /\ rentals[r].pricing.cap <= rentals[r].pricing.deposit
  BY <1>4, PricingsAssumption DEF ValidGrid, Grid
<1> QED
  BY <1>2, <1>3, <1>4, <1>5

LEMMA SameMoves ==
  ASSUME CoordinatorInv, NEW r \in DOMAIN rentals, UNCHANGED <<intent, events>>
  PROVE  IntentMoves(r)
<1>1. intent' = [intent EXCEPT ![r] = intent[r]]
  BY IntentHere
<1> QED
  BY <1>1, IntentHere DEF IntentMoves, Advance

\* An intent whose status moves without money: opened, held or given up.
LEMMA StatusMoves ==
  ASSUME CoordinatorInv, NEW r \in DOMAIN rentals, Status(r) # "succeeded",
         NEW status \in {"requires_payment_method", "requires_capture", "canceled"},
         SetIntent(r, status),
         \/ UNCHANGED events
         \/ \E kind \in {"capturable", "canceled"}, cents \in {0, rentals[r].pricing.deposit} :
              Emit(Event(kind, r, cents))
  PROVE  IntentMoves(r)
<1> DEFINE j == [intent[r] EXCEPT !.status = status]
<1>1. /\ j \in Intent /\ j.status = status /\ j.taken = intent[r].taken
      /\ j.refunded = intent[r].refunded
  BY IntentHere DEF Intent
<1>2. intent' = [intent EXCEPT ![r] = j]
  BY IntentHere DEF SetIntent
<1>3. Advance(intent[r], j) /\ IntentTrue(j, rentals[r])
  BY <1>1, IntentHere DEF Advance, IntentTrue, Status
<1> HIDE DEF j
<1>4. CASE UNCHANGED events
  BY <1>1, <1>2, <1>3, <1>4 DEF IntentMoves
<1>5. ASSUME NEW kind \in {"capturable", "canceled"}, NEW cents \in {0, rentals[r].pricing.deposit},
             Emit(Event(kind, r, cents))
      PROVE  IntentMoves(r)
  <2>1. cents \in Nat /\ EventTrue(Event(kind, r, cents), j, rentals[r])
    BY IntentHere DEF EventTrue, Event
  <2> QED
    BY <1>1, <1>2, <1>3, <1>5, <2>1 DEF IntentMoves, Emit
<1> QED
  BY <1>4, <1>5

LEMMA CancelMoves ==
  ASSUME CoordinatorInv, NEW r \in DOMAIN rentals, Cancellable(r), Cancel(r)
  PROVE  IntentMoves(r)
<1>1. Status(r) # "succeeded"
  BY DEF Cancellable, Unsettled
<1> QED
  BY <1>1, SameMoves, StatusMoves DEF Cancel

\* The browser gets the secret of the intent.
LEMMA SecretMoves ==
  ASSUME CoordinatorInv, NEW r \in DOMAIN rentals, UNCHANGED events,
         intent' = [intent EXCEPT ![r].secret = TRUE]
  PROVE  IntentMoves(r)
<1> DEFINE j == [intent[r] EXCEPT !.secret = TRUE]
<1>1. /\ j \in Intent /\ j.status = intent[r].status /\ j.taken = intent[r].taken
      /\ j.refunded = intent[r].refunded
  BY IntentHere DEF Intent
<1>2. intent' = [intent EXCEPT ![r] = j]
  BY IntentHere
<1>3. Advance(intent[r], j) /\ IntentTrue(j, rentals[r])
  BY <1>1, IntentHere DEF Advance, IntentTrue
<1> QED
  BY <1>1, <1>2, <1>3 DEF IntentMoves

\* A capture takes the amount asked, at once or when it is replayed.
LEMMA CaptureMoves ==
  ASSUME CoordinatorInv, NEW r \in DOMAIN rentals, NEW cents, Capturable(r, cents), Capture(r, cents),
         \/ cents = rentals[r].pricing.deposit
         \/ rentals[r].returnedAt # Never /\ cents = rentals[r].amount
  PROVE  IntentMoves(r) /\ Taken(intent'[r], cents)
<1>1. cents \in Nat /\ cents <= rentals[r].pricing.deposit
  BY IntentHere
<1>2. CASE Status(r) = "succeeded"
  BY <1>2, SameMoves DEF Capture, Capturable, Taken, Status
<1>3. CASE Status(r) # "succeeded"
  <2> DEFINE j == [intent[r] EXCEPT !.status = "succeeded", !.taken = cents]
  <2>1. /\ j \in Intent /\ j.status = "succeeded" /\ j.taken = cents
        /\ j.refunded = intent[r].refunded /\ intent[r].refunded \in Nat
    BY <1>1, IntentHere DEF Intent
  <2>2. intent' = [intent EXCEPT ![r] = j] /\ events' = events \cup {Event("succeeded", r, cents)}
    BY <1>3, IntentHere DEF Capture, Emit
  <2>3. intent[r].refunded <= 0
    BY <1>3, IntentHere DEF IntentTrue, Status
  <2>4. Advance(intent[r], j) /\ IntentTrue(j, rentals[r])
    BY <1>1, <1>3, <2>1, <2>3 DEF Advance, IntentTrue, Status
  <2>5. EventTrue(Event("succeeded", r, cents), j, rentals[r])
    BY <1>1, <2>1 DEF EventTrue, Event, Taken
  <2>6. Taken(intent'[r], cents)
    BY <2>1, <2>2, IntentHere DEF Taken
  <2> HIDE DEF j
  <2> QED
    BY <1>1, <2>1, <2>2, <2>4, <2>5, <2>6 DEF IntentMoves
<1> QED
  BY <1>2, <1>3

LEMMA RefundMoves ==
  ASSUME CoordinatorInv, NEW r \in DOMAIN rentals, NEW cents \in Nat, Refundable(r, cents),
         NEW keys \in SUBSET Nat, GiveMoneyBack(r, cents, keys)
  PROVE  IntentMoves(r)
<1> DEFINE total == intent[r].refunded + cents
           j == [intent[r] EXCEPT !.refunded = total, !.keys = keys]
<1>1. total \in Nat /\ total <= intent[r].taken /\ intent[r].taken \in Nat
  BY IntentHere DEF Refundable, Intent
<1>2. /\ j \in Intent /\ j.status = intent[r].status /\ j.taken = intent[r].taken
      /\ j.refunded = total
  BY <1>1, IntentHere DEF Intent
<1>3. intent' = [intent EXCEPT ![r] = j] /\ events' = events \cup {Event("refunded", r, total)}
  BY IntentHere DEF GiveMoneyBack, Emit
<1>4. Advance(intent[r], j) /\ IntentTrue(j, rentals[r])
  BY <1>1, <1>2, IntentHere DEF Advance, IntentTrue
<1>5. total <= rentals[r].pricing.deposit
  BY <1>1, IntentHere DEF IntentTrue, Refundable, Status
<1>6. EventTrue(Event("refunded", r, total), j, rentals[r])
  BY <1>5 DEF EventTrue, Event
<1> HIDE DEF j, total
<1> QED
  BY <1>1, <1>2, <1>3, <1>4, <1>6 DEF IntentMoves

-----------------------------------------------------------------------------
(* The actions, one by one: those that start a request.                    *)

LEMMA ArriveStep ==
  ASSUME CoordinatorInv, NEW p \in Requests, Arrive(p)
  PROVE  CoordinatorInv'
<1>1. TypeOK /\ [Next]_vars /\ AllKept /\ CustodyInv'
  BY ArriveNext, LifeStep, CustodyStep DEF CoordinatorInv, CoordinatorTypeOK, CustodyInv
<1>2. ASSUME NEW r \in RentalIds, NEW c \in Customers, NEW s \in Stations, Begin(p, r, c, s)
      PROVE  CoordinatorInv'
  <2>1. CapturesBacked
    BY <1>2, CreateBacked, SameBacked DEF Begin, core, vars
  <2>2. r \in DOMAIN rentals'
    BY <1>2 DEF Begin, Create, AddRental, core, vars
  <2>3. "intent" \in Steps /\ "intent" \in FreeSteps
    BY DEF Steps, FreeSteps
  <2>4. RequestsGoOn /\ NoNewPop
    BY <1>2, <2>2, <2>3, BegunGoesOn, SameGoesOn DEF Begin
  <2> QED
    BY <1>1, <1>2, <2>1, <2>4, TransactionStep DEF Begin, outside
<1>3. ASSUME NEW r \in DOMAIN rentals, NEW s \in Stations, NEW detected \in BOOLEAN,
             ReturnBattery(p, r, s, detected)
      PROVE  CoordinatorInv'
  <2>1. CapturesBacked
    BY <1>1, <1>3, ReturnBacked DEF ReturnBattery
  <2>2. r \in DOMAIN rentals' /\ r \in RentalIds
    BY <1>1 DEF AllKept, TypeOK, RentalsTyped
  <2>3. rentals'[r].returnedAt # Never
    <3>1. CASE AlreadyReturned(rentals[r]) /\ UNCHANGED rentals
      BY <3>1 DEF AlreadyReturned, AwaitsSettlement, CoordinatorInv, CustodyInv, AllSound, Sound
    <3>2. CASE Update(r, PrepareReturn(rentals[r], s, now))
      <4>1. rentals[r] \in Rental /\ now \in Nat
        BY <1>1, ThereTyped DEF TypeOK
      <4>2. PrepareReturn(rentals[r], s, now).returnedAt # Never
        BY <4>1 DEF PrepareReturn, Never, Rental
      <4> QED
        BY <1>1, <3>2, <4>2 DEF Update, TypeOK, RentalsTyped
    <3> QED
      BY <1>3, <3>1, <3>2 DEF ReturnBattery, Return
  <2>4. "settle" \in Steps
    BY DEF Steps
  <2>5. RequestsGoOn /\ NoNewPop
    BY <1>3, <2>2, <2>3, <2>4, BegunGoesOn, SameGoesOn DEF ReturnBattery
  <2> QED
    BY <1>1, <1>3, <2>1, <2>5, TransactionStep DEF ReturnBattery, outside
<1>4. ASSUME NEW r \in DOMAIN rentals, NEW b, CloseEjected(p, r, b)
      PROVE  CoordinatorInv'
  <2>1. b \in Batteries /\ now \in Clock
    BY <1>1, <1>4, NowIsClock DEF CloseEjected, CoordinatorInv, CoordinatorTypeOK, TypeOK, RentalsTyped
  <2>2. CapturesBacked
    BY <1>1, <1>4, <2>1, EjectingBacked DEF CloseEjected, Ejecting
  <2> QED
    BY <1>1, <1>4, <2>2, SameGoesOn, TransactionStep DEF CloseEjected, outside
<1>5. ASSUME NEW r \in DOMAIN rentals, Confirm(p, r) \/ Abandon(p, r) \/ Expiry(p, r) \/ CloseNotEjected(p, r)
      PROVE  CoordinatorInv'
  <2>1. r \in RentalIds /\ UNCHANGED <<vars, intent, events, gone, crashes>>
    BY <1>1, <1>5 DEF TypeOK, RentalsTyped, Confirm, Abandon, Expiry, Stop, CloseNotEjected, core, outside
  <2>2. \E step \in {"check", "abandon", "abandoned", "cancel", "cancelled", "undo"} : Begun(p, step, r)
    BY <1>5 DEF Confirm, Abandon, Expiry, Stop, CloseNotEjected
  <2>3. {"check", "abandon", "abandoned", "cancel", "cancelled", "undo"} \subseteq Steps \cap FreeSteps
    BY DEF Steps, FreeSteps
  <2>4. r \in DOMAIN rentals'
    BY <1>1 DEF AllKept
  <2>5. RequestsGoOn /\ NoNewPop
    BY <2>1, <2>2, <2>3, <2>4, BegunGoesOn
  <2> QED
    BY <2>1, <2>5, RequestStep
<1>6. ASSUME NEW r \in DOMAIN rentals, Loss(p, r)
      PROVE  CoordinatorInv'
  <2> DEFINE payment == rentals[r].payment
             q == [Idle EXCEPT !.step = IF payment.status = "CAPTURED" THEN "lost" ELSE "forfeit",
                               !.rental = r,
                               !.cents = IF payment.status = "CAPTURED" THEN payment.captured
                                         ELSE rentals[r].pricing.deposit]
  <2>1. request' = [request EXCEPT ![p] = q] /\ UNCHANGED <<vars, intent, events, gone, crashes>>
    BY <1>6 DEF Loss, core, outside
  <2>2. payment \in Payment
    BY IntentHere DEF Rental
  <2>3. /\ q \in Request /\ q.rental = r
        /\ q.step = IF payment.status = "CAPTURED" THEN "lost" ELSE "forfeit"
        /\ q.cents = IF payment.status = "CAPTURED" THEN payment.captured
                     ELSE rentals[r].pricing.deposit
    BY <2>2, IntentHere DEF Idle, Request, Steps, Payment
  <2>4. rentals[r].returnedAt = Never
    BY <1>6 DEF Loss, LossEligible, CoordinatorInv, CustodyInv, LifeInv, AllCoherent, Coherent
  <2>5. payment.status = "CAPTURED" =>
          Taken(intent[r], payment.captured) /\ payment.captured = rentals[r].pricing.deposit
    BY <2>4, IntentHere DEF CoordinatorInv, CapturesTrue, Status, Taken, IntentTrue
  <2>6. Knows(q, intent[r], rentals[r]) /\ ~Popping(q) /\ r \in DOMAIN rentals
    BY <2>3, <2>5 DEF Knows, Popping
  <2> HIDE DEF q, payment
  <2>7. UNCHANGED <<rentals, intent>>
    BY <2>1 DEF vars
  <2>8. RequestsGoOn /\ NoNewPop
    BY <2>1, <2>3, <2>6, <2>7, NewRecordGoesOn
  <2> QED
    BY <2>1, <2>8, RequestStep
<1>7. ASSUME NEW r \in DOMAIN rentals, NEW cents \in RefundAmounts, RefundStart(p, r, cents)
      PROVE  CoordinatorInv'
  <2> DEFINE q == [Idle EXCEPT !.step = "refund", !.rental = r, !.cents = cents]
  <2>1. request' = [request EXCEPT ![p] = q] /\ UNCHANGED <<vars, intent, events, gone, crashes>>
    BY <1>7 DEF RefundStart, core, outside
  <2>2. q \in Request /\ q.rental = r /\ q.step = "refund"
    BY IntentHere, CoordinatorAssumption DEF Idle, Request, Steps
  <2> HIDE DEF q
  <2>3. Knows(q, intent'[r], rentals'[r]) /\ ~Popping(q) /\ r \in DOMAIN rentals'
    BY <1>1, <2>2, FreeKnows DEF FreeSteps, Popping, AllKept
  <2>4. RequestsGoOn /\ NoNewPop
    BY <2>1, <2>2, <2>3, NewRecordGoesOn
  <2> QED
    BY <2>1, <2>4, RequestStep
<1> QED
  BY <1>2, <1>3, <1>4, <1>5, <1>6, <1>7 DEF Arrive, ResolveEjectionAction, RefundAction

-----------------------------------------------------------------------------
(* Those that go on with one.                                              *)

\* What every running request knows when its turn comes.
LEMMA ContinueMeans ==
  ASSUME CoordinatorInv, NEW p \in Requests, Continue(p)
  PROVE  /\ request[p].step # "idle" /\ TypeOK /\ [Next]_vars /\ AllKept /\ CustodyInv'
         /\ request[p].rental \in DOMAIN rentals
<1>1. request[p].step # "idle"
  BY DEF Continue, At, BeginIntent, BeginAttach, Refuse, ConfirmCheck, ConfirmAuthorize, Activate, Claim,
         Choose, Pop, Record, Uncertain, GiveBack, Failed, Unknown, AbandonRelease, ExpiryRelease,
         Release, AbandonCommit, ExpiryCommit, Settle, CaptureDue, RecordCapture, CompleteReturn,
         Forfeit, RecordLoss, Undo, Undone, RefundCall, RefundRecord
<1> QED
  BY <1>1, RunningMeans, ContinueNext, LifeStep, CustodyStep
     DEF CoordinatorInv, CoordinatorTypeOK, CustodyInv

\* A call to Stripe after which the request relies on nothing new.
LEMMA CallStep ==
  ASSUME CoordinatorInv, NEW p \in Requests, Continue(p),
         LET r == request[p].rental IN
         \/ BeginIntent(p, r) \/ GiveBack(p, r) \/ AbandonRelease(p, r) \/ ExpiryRelease(p, r)
         \/ Undo(p, r) \/ RefundCall(p, r)
  PROVE  CoordinatorInv'
<1> DEFINE r == request[p].rental
<1>1. /\ request[p].step # "idle" /\ AllKept /\ r \in DOMAIN rentals /\ request[p] \in Request
  BY ContinueMeans, RunningMeans
<1> HIDE DEF r
<1>2. /\ UNCHANGED <<vars, gone, crashes>>
      /\ \E step \in FreeSteps \cup {"idle"} : Goto(p, step)
  BY DEF BeginIntent, GiveBack, AbandonRelease, ExpiryRelease, Undo, RefundCall, Release, Call, core,
         FreeSteps, r
<1>3. RequestsGoOn /\ NoNewPop
  BY <1>1, <1>2, FreeGoesOn
<1>4. IntentMoves(r)
  <2>1. CASE BeginIntent(p, r)
    <3>1. \/ intent' = [intent EXCEPT ![r].secret = TRUE] /\ UNCHANGED events
          \/ Status(r) = "none" /\ SetIntent(r, "requires_payment_method") /\ UNCHANGED events
          \/ UNCHANGED <<intent, events>>
      BY <2>1 DEF BeginIntent, Call
    <3> QED
      BY <1>1, <3>1, SecretMoves, StatusMoves, SameMoves
  <2>2. CASE GiveBack(p, r) \/ Undo(p, r) \/ AbandonRelease(p, r) \/ ExpiryRelease(p, r)
    <3>1. (Cancellable(r) /\ Cancel(r)) \/ UNCHANGED <<intent, events>>
      BY <2>2 DEF GiveBack, Undo, AbandonRelease, ExpiryRelease, Release, Call, Cancellable
    <3> QED
      BY <1>1, <3>1, CancelMoves, SameMoves
  <2>3. CASE RefundCall(p, r)
    <3> DEFINE cents == request[p].cents
               keys  == intent[r].keys
    <3>1. \/ cents \notin keys /\ Refundable(r, cents) /\ GiveMoneyBack(r, cents, keys \cup {cents})
          \/ UNCHANGED <<intent, events>>
      BY <2>3 DEF RefundCall, Call
    <3>2. cents \in Nat /\ keys \cup {cents} \in SUBSET Nat
      BY <1>1, IntentHere DEF Request, Intent
    <3> HIDE DEF cents, keys
    <3> QED
      BY <1>1, <3>1, <3>2, RefundMoves, SameMoves
  <2> QED
    BY <2>1, <2>2, <2>3 DEF r
<1> QED
  BY <1>1, <1>2, <1>3, <1>4, StripeMoves

\* A capture, and what is then known of it.
LEMMA CaptureStep ==
  ASSUME CoordinatorInv, NEW p \in Requests, Continue(p),
         LET r == request[p].rental IN CaptureDue(p, r) \/ Forfeit(p, r)
  PROVE  CoordinatorInv'
<1> DEFINE r == request[p].rental
           cents == IF At(p, "capture") THEN rentals[r].amount ELSE request[p].cents
           next == IF At(p, "capture") THEN "captured" ELSE "lost"
<1>1. /\ request[p].step # "idle" /\ AllKept /\ r \in DOMAIN rentals
      /\ request[p] \in Request /\ Knows(request[p], intent[r], rentals[r])
  BY ContinueMeans, RunningMeans
<1>2. request[p].step = IF At(p, "capture") THEN "capture" ELSE "forfeit"
  BY DEF CaptureDue, Forfeit, At
<1>3. \/ cents = rentals[r].pricing.deposit
      \/ rentals[r].returnedAt # Never /\ cents = rentals[r].amount
  BY <1>1, <1>2 DEF Knows, At
<1>4. /\ UNCHANGED <<vars, gone, crashes>>
      /\ \/ Capturable(r, cents) /\ Capture(r, cents) /\ Goto(p, next)
         \/ Capturable(r, cents) /\ Capture(r, cents) /\ Goto(p, "unknown")
         \/ UNCHANGED <<intent, events>> /\ Goto(p, "unknown")
  BY <1>2 DEF CaptureDue, Forfeit, Call, core, At
<1>5. next = "captured" => rentals[r].returnedAt # Never /\ cents = rentals[r].amount
  BY <1>1, <1>2 DEF Knows, At
<1>6. next = "lost" => cents = rentals[r].pricing.deposit /\ cents = request[p].cents
  BY <1>1, <1>2 DEF Knows, At
<1>7. next \in {"captured", "lost"} /\ next \in Steps /\ "unknown" \in FreeSteps /\ UNCHANGED rentals
  BY <1>4 DEF Steps, FreeSteps, vars
<1> HIDE DEF cents, next, r
<1>8. IntentMoves(r)
  BY <1>1, <1>3, <1>4, CaptureMoves, SameMoves
<1>9. RequestsGoOn /\ NoNewPop
  <2>1. CASE Goto(p, "unknown")
    BY <1>1, <1>7, <2>1, FreeGoesOn
  <2>2. CASE Capturable(r, cents) /\ Capture(r, cents) /\ Goto(p, next)
    <3> DEFINE q == [request[p] EXCEPT !.step = next]
    <3>1. q.step = next /\ q.cents = request[p].cents
      BY <1>1 DEF Request
    <3>2. Taken(intent'[r], cents)
      BY <1>1, <1>3, <2>2, CaptureMoves
    <3> HIDE DEF q
    <3>3. Knows(q, intent'[r], rentals'[r])
      BY <1>5, <1>6, <1>7, <3>1, <3>2 DEF Knows, Popping
    <3>4. next # "idle" /\ next \notin {"choose", "pop"}
      BY <1>7
    <3> QED
      BY <1>1, <1>7, <2>2, <3>3, <3>4, GotoGoesOn DEF r, q
  <2> QED
    BY <1>4, <2>1, <2>2
<1> QED
  BY <1>1, <1>4, <1>8, <1>9, StripeMoves

\* A transaction of the request, or its catch clause, then nothing it relies on.
LEMMA AttemptStep ==
  ASSUME CoordinatorInv, NEW p \in Requests, Continue(p),
         LET r == request[p].rental IN
         \/ Refuse(p, r) \/ Record(p, r) \/ Uncertain(p, r) \/ Failed(p, r) \/ Unknown(p, r)
         \/ AbandonCommit(p, r) \/ ExpiryCommit(p, r) \/ RecordCapture(p, r) \/ CompleteReturn(p, r)
         \/ RecordLoss(p, r) \/ Undone(p, r) \/ RefundRecord(p, r)
  PROVE  CoordinatorInv'
<1> DEFINE r == request[p].rental
<1>1. /\ request[p].step # "idle" /\ TypeOK /\ [Next]_vars /\ AllKept /\ r \in DOMAIN rentals
      /\ request[p] \in Request /\ Knows(request[p], intent[r], rentals[r])
  BY ContinueMeans, RunningMeans
<1> HIDE DEF r
<1>2. /\ UNCHANGED <<intent, events, gone, crashes>>
      /\ \E step \in FreeSteps \cup {"idle"} : Goto(p, step)
  BY DEF Refuse, Record, Uncertain, Failed, Unknown, AbandonCommit, ExpiryCommit, RecordCapture,
         CompleteReturn, RecordLoss, Undone, RefundRecord, Attempt, outside, FreeSteps, r
<1>3. RequestsGoOn /\ NoNewPop
  BY <1>1, <1>2, FreeGoesOn
<1>4. CapturesBacked
  <2>1. CASE Refuse(p, r) \/ AbandonCommit(p, r) \/ ExpiryCommit(p, r)
    <3>1. Opening(r) \/ UNCHANGED rentals
      BY <2>1 DEF Refuse, AbandonCommit, ExpiryCommit, Attempt, Opening, core, vars
    <3> QED
      BY <1>1, <3>1, OpeningBacked, SameBacked
  <2>2. CASE Record(p, r)
    <3>1. RecordEjected(r, request[p].battery, now) \/ UNCHANGED rentals
      BY <2>2 DEF Record, Attempt, core, vars
    <3>2. ASSUME RecordEjected(r, request[p].battery, now) PROVE request[p].battery \in Batteries
      BY <1>1, <3>2 DEF RecordEjected, AvailableAt, TypeOK, InventoryTyped
    <3>3. Ejecting(r) \/ UNCHANGED rentals
      BY <1>1, <3>1, <3>2, NowIsClock DEF Ejecting
    <3> QED
      BY <1>1, <3>3, EjectingBacked, SameBacked
  <2>3. CASE Uncertain(p, r) \/ Failed(p, r) \/ Undone(p, r)
    <3>1. Ejecting(r) \/ UNCHANGED rentals
      BY <2>3 DEF Uncertain, Failed, Undone, Attempt, Ejecting, core, vars
    <3> QED
      BY <1>1, <3>1, EjectingBacked, SameBacked
  <2>4. CASE Unknown(p, r) \/ CompleteReturn(p, r)
    BY <1>1, <2>4, SettlingBacked, SameBacked DEF Unknown, CompleteReturn, Attempt, core, vars
  <2>5. CASE RecordCapture(p, r)
    <3>1. Taken(intent[r], rentals[r].amount)
      BY <1>1, <2>5 DEF RecordCapture, At, Knows
    <3> QED
      BY <1>1, <2>5, <3>1, SettlingBacked, SameBacked DEF RecordCapture, Attempt, core, vars
  <2>6. CASE RecordLoss(p, r)
    <3>1. Taken(intent[r], request[p].cents) /\ request[p].cents \in Nat
      BY <1>1, <2>6 DEF RecordLoss, At, Knows, Request
    <3> QED
      BY <1>1, <2>6, <3>1, LostBacked, SameBacked DEF RecordLoss, Attempt, core, vars
  <2>7. CASE RefundRecord(p, r)
    BY <1>1, <2>7, RefundBacked, SameBacked DEF RefundRecord, Attempt, Refund, MarkRefunded, core, vars
  <2> QED
    BY <2>1, <2>2, <2>3, <2>4, <2>5, <2>6, <2>7 DEF r
<1> QED
  BY <1>1, <1>2, <1>3, <1>4, TransactionStep

\* The deposit is authorized, and the ejection is for the ejector or for the transaction.
LEMMA AuthorizeStep ==
  ASSUME CoordinatorInv, NEW p \in Requests, Continue(p),
         LET r == request[p].rental IN ConfirmAuthorize(p, r) \/ BeginAttach(p, r)
  PROVE  CoordinatorInv'
<1> DEFINE r == request[p].rental
<1>1. /\ request[p].step # "idle" /\ TypeOK /\ [Next]_vars /\ AllKept /\ r \in DOMAIN rentals
      /\ request[p] \in Request /\ CustodyInv'
  BY ContinueMeans, RunningMeans
<1> HIDE DEF r
<1>2. CapturesBacked
  <2>1. Opening(r) \/ UNCHANGED rentals
    BY DEF ConfirmAuthorize, BeginAttach, Attempt, Opening, core, vars, r
  <2> QED
    BY <1>1, <2>1, OpeningBacked, SameBacked
<1>3. CASE ConfirmAuthorize(p, r)
  <2> DEFINE next == IF Ejector THEN "claim" ELSE "activate"
             q == [request[p] EXCEPT !.step = next]
  <2>1. UNCHANGED <<intent, events, gone, crashes>> /\ (Goto(p, next) \/ Goto(p, "idle"))
    BY <1>3 DEF ConfirmAuthorize, Attempt, outside
  <2>2. q.step = next /\ next \in {"claim", "activate"} /\ next \in Steps
        /\ (next = "claim" => Ejector) /\ (next = "activate" => ~Ejector)
    BY <1>1 DEF Request, Steps
  <2> HIDE DEF q, next
  <2>3. Knows(q, intent'[r], rentals'[r]) /\ next \notin {"choose", "pop"} /\ next # "idle"
    BY <2>2 DEF Knows, Popping
  <2>4. RequestsGoOn /\ NoNewPop
    BY <1>1, <2>1, <2>2, <2>3, GotoGoesOn, FreeGoesOn DEF q, r
  <2> QED
    BY <1>1, <1>2, <2>1, <2>4, TransactionStep
<1>4. CASE BeginAttach(p, r)
  <2>1. /\ UNCHANGED <<events, gone, crashes>>
        /\ \/ intent' = [intent EXCEPT ![r].secret = TRUE]
           \/ UNCHANGED intent
        /\ \E step \in FreeSteps \cup {"idle"} : Goto(p, step)
    BY <1>4 DEF BeginAttach, FreeSteps
  <2>2. RequestsGoOn /\ NoNewPop
    BY <1>1, <2>1, FreeGoesOn
  <2>3. CASE UNCHANGED intent
    BY <1>1, <1>2, <2>1, <2>2, <2>3, TransactionStep
  <2>4. CASE intent' = [intent EXCEPT ![r].secret = TRUE]
    <3> DEFINE j == [intent[r] EXCEPT !.secret = TRUE]
    <3>1. /\ j \in Intent /\ j.status = intent[r].status /\ j.taken = intent[r].taken
          /\ j.refunded = intent[r].refunded
      BY <1>1, IntentHere DEF Intent
    <3>2. intent' = [intent EXCEPT ![r] = j]
      BY <1>1, <2>4, IntentHere
    <3> HIDE DEF j
    <3>3. intent' \in [RentalIds -> Intent] /\ intent'[r] = j /\ Advances
          /\ \A o \in RentalIds \ {r} : intent'[o] = intent[o]
      BY <1>1, <3>1, <3>2, IntentHere DEF Advances, Advance
    <3>4. r \in DOMAIN rentals' /\ IntentTrue(j, rentals'[r])
      <4>1. IntentTrue(j, rentals[r])
        BY <1>1, <3>1, IntentHere DEF IntentTrue
      <4> QED
        BY <1>1, <4>1, IntentStill DEF AllKept
    <3>5. /\ events' \subseteq [kind : {"capturable", "succeeded", "canceled", "failed", "refunded"},
                               rental : RentalIds, cents : Nat]
          /\ gone' \in [RentalIds -> SUBSET Batteries] /\ crashes' \in 0..Crashes
      BY <2>1 DEF CoordinatorInv, CoordinatorTypeOK
    <3>6. AllKept => EjectionsTrue' /\ OneBatteryPerRental'
      BY <2>1, <2>2, EjectionsStill DEF NoNewPop
    <3>7. \A o \in RentalIds :
            intent'[o] = intent[o] \/ (o \in DOMAIN rentals' /\ IntentTrue(intent'[o], rentals'[o]))
      BY <3>3, <3>4
    <3> QED
      BY <1>1, <1>2, <2>1, <2>2, <3>3, <3>5, <3>6, <3>7, StepStill DEF RequestsGoOn
  <2> QED
    BY <2>1, <2>3, <2>4
<1> QED
  BY <1>3, <1>4 DEF r

\* Steps that only look: at the intent, at the cabinet, at the rental just returned.
LEMMA LookStep ==
  ASSUME CoordinatorInv, NEW p \in Requests, Continue(p),
         LET r == request[p].rental IN ConfirmCheck(p, r) \/ Choose(p, r) \/ Settle(p, r)
  PROVE  CoordinatorInv'
<1> DEFINE r == request[p].rental
<1>1. /\ request[p].step # "idle" /\ AllKept /\ r \in DOMAIN rentals
      /\ request[p] \in Request /\ Knows(request[p], intent[r], rentals[r])
  BY ContinueMeans, RunningMeans
<1>2. UNCHANGED <<vars, intent, events, gone, crashes>> /\ UNCHANGED <<rentals, intent>>
  BY DEF ConfirmCheck, Choose, Settle, core, outside, vars
<1> HIDE DEF r
<1>3. CASE \E step \in FreeSteps \cup {"idle"} : Goto(p, step)
  BY <1>1, <1>2, <1>3, FreeGoesOn, RequestStep
<1>4. CASE At(p, "choose") /\ \E b \in Batteries :
             request' = [request EXCEPT ![p].step = "pop", ![p].battery = b]
  <2> PICK b \in Batteries : request' = [request EXCEPT ![p].step = "pop", ![p].battery = b]
    BY <1>4
  <2> DEFINE q == [request[p] EXCEPT !.step = "pop", !.battery = b]
  <2>1. q \in Request /\ q.step = "pop" /\ q.battery = b /\ q.rental = r
    BY <1>1 DEF Request, Steps, r
  <2>2. request' = [request EXCEPT ![p] = q]
    BY DEF CoordinatorInv, CoordinatorTypeOK
  <2> HIDE DEF q
  <2>3. Popping(request[p]) /\ Knows(q, intent[r], rentals[r]) /\ q.rental = request[p].rental
    BY <1>1, <1>4, <2>1 DEF Knows, At, Popping, r
  <2>4. RequestsGoOn /\ NoNewPop
    BY <1>1, <1>2, <2>1, <2>2, <2>3, NewRecordGoesOn
  <2> QED
    BY <1>2, <2>4, RequestStep
<1>5. CASE Settle(p, r)
  <2>1. PICK next \in {"complete", "capture"} : Goto(p, next)
    BY <1>5 DEF Settle
  <2> DEFINE q == [request[p] EXCEPT !.step = next]
  <2>2. q.step = next /\ next \in Steps
    BY <1>1 DEF Request, Steps
  <2> HIDE DEF q
  <2>3. rentals[r].returnedAt # Never
    BY <1>1, <1>5 DEF Settle, At, Knows
  <2>4. Knows(q, intent'[r], rentals'[r])
    BY <1>2, <2>2, <2>3 DEF Knows, Popping
  <2>5. RequestsGoOn /\ NoNewPop
    BY <1>1, <2>1, <2>2, <2>4, GotoGoesOn DEF q, r
  <2> QED
    BY <1>2, <2>5, RequestStep
<1>6. ASSUME ConfirmCheck(p, r) PROVE \E step \in FreeSteps \cup {"idle"} : Goto(p, step)
  BY <1>6 DEF ConfirmCheck, FreeSteps
<1>7. ASSUME Choose(p, r)
      PROVE  \/ \E step \in FreeSteps \cup {"idle"} : Goto(p, step)
             \/ At(p, "choose") /\ \E b \in Batteries :
                  request' = [request EXCEPT ![p].step = "pop", ![p].battery = b]
  BY <1>7 DEF Choose, FreeSteps
<1> QED
  BY <1>3, <1>4, <1>5, <1>6, <1>7 DEF r

-----------------------------------------------------------------------------
(* The ejections.                                                          *)

\* What does not depend on the claims is kept as by any transaction.
LEMMA EjectionStep ==
  ASSUME CoordinatorInv, [Next]_vars, UNCHANGED <<intent, events, crashes>>, CapturesBacked,
         RequestsGoOn, gone' \in [RentalIds -> SUBSET Batteries],
         AllKept => EjectionsTrue' /\ OneBatteryPerRental'
  PROVE  CoordinatorInv'
<1>1. CoordinatorTypeOK
  BY DEF CoordinatorInv
<1>2. Advances
  BY DEF Advances, Advance
<1>3. /\ intent' \in [RentalIds -> Intent] /\ crashes' \in 0..Crashes
      /\ events' \subseteq [kind : {"capturable", "succeeded", "canceled", "failed", "refunded"},
                             rental : RentalIds, cents : Nat]
  BY <1>1 DEF CoordinatorTypeOK
<1> QED
  BY <1>2, <1>3, StepStill DEF RequestsGoOn

\* Only a rental from which nothing was claimed yet has its ejection claimed, so no battery left
\* for it and no other request is ejecting one.
LEMMA ClaimStep ==
  ASSUME CoordinatorInv, NEW p \in Requests, Continue(p), Claim(p, request[p].rental)
  PROVE  CoordinatorInv'
<1> DEFINE r == request[p].rental
           q == [request[p] EXCEPT !.step = "choose"]
<1>1. /\ request[p].step # "idle" /\ TypeOK /\ [Next]_vars /\ AllKept /\ r \in DOMAIN rentals
      /\ request[p] \in Request /\ rentals[r] \in Rental
      /\ Knows(request[p], intent[r], rentals[r])
  BY ContinueMeans, RunningMeans
<1>2. q \in Request /\ q.step = "choose" /\ q.rental = r
  BY <1>1 DEF Request, Steps
<1>3. /\ UNCHANGED <<intent, events, gone, crashes>> /\ At(p, "claim")
      /\ \/ ClaimEjection(r) /\ Goto(p, "choose")
         \/ UNCHANGED vars /\ Goto(p, "idle")
  BY DEF Claim, Attempt, outside, core
<1>4. CASE UNCHANGED vars /\ Goto(p, "idle")
  BY <1>1, <1>3, <1>4, FreeGoesOn, RequestStep
<1>5. CASE ClaimEjection(r) /\ Goto(p, "choose")
  <2>1. rentals[r].state = "PAYMENT_AUTH" /\ rentals'[r].state = "EJECTING" /\ r \in DOMAIN rentals'
    BY <1>1, <1>5 DEF ClaimEjection, Update, BeginEjection, TypeOK, RentalsTyped, Rental
  <2>2. request' = [request EXCEPT ![p] = q] /\ request'[p] = q
        /\ \A o \in Requests \ {p} : request'[o] = request[o]
    BY <1>5 DEF Goto, CoordinatorInv, CoordinatorTypeOK
  <2> HIDE DEF q, r
  <2>3. Knows(q, intent'[r], rentals'[r])
    BY <1>1, <1>2, <1>3, <2>1 DEF Knows, At, Claimable
  <2>4. request' \in [Requests -> Request] /\ Running(request[p])'
    BY <1>2, <2>1, <2>2, <2>3 DEF Running, CoordinatorInv, CoordinatorTypeOK
  <2>5. RequestsGoOn
    BY <2>2, <2>4 DEF RequestsGoOn
  <2>6. r \in RentalIds /\ gone[r] = {}
    BY <1>1, <2>1 DEF CoordinatorInv, EjectionsTrue, TypeOK, RentalsTyped, Claimable
  <2>7. \A o \in Requests : Popping(request[o]) => request[o].rental # r
    <3> SUFFICES ASSUME NEW o \in Requests, Popping(request[o]), request[o].rental = r
                 PROVE  FALSE
      OBVIOUS
    <3>1. Knows(request[o], intent[r], rentals[r])
      BY RunningMeans DEF Popping
    <3> QED
      BY <2>1, <3>1 DEF Knows, Claimable
  <2>8. ASSUME AllKept PROVE EjectionsTrue' /\ OneBatteryPerRental'
    <3>1. EjectionsTrue /\ OneBatteryPerRental /\ gone' = gone /\ gone \in [RentalIds -> SUBSET Batteries]
      BY <1>3 DEF CoordinatorInv, CoordinatorTypeOK
    <3>2. \A o \in Requests : Popping(request'[o]) => gone'[request'[o].rental] = {}
      BY <1>2, <2>2, <2>6, <3>1 DEF EjectionsTrue
    <3>3. \A o, u \in Requests :
            (Popping(request'[o]) /\ Popping(request'[u]) /\ request'[o].rental = request'[u].rental) => o = u
      BY <1>2, <2>2, <2>7, <3>1 DEF EjectionsTrue
    <3>4. ASSUME NEW o \in RentalIds, gone'[o] # {}
          PROVE  /\ o \in DOMAIN rentals' /\ rentals'[o].state \notin Claimable
                 /\ ~Ejector => gone'[o] = {rentals'[o].battery}
      <4>1. o \in DOMAIN rentals /\ rentals[o].state \notin Claimable
            /\ (~Ejector => gone[o] = {rentals[o].battery} /\ rentals[o].battery # None)
        BY <3>1, <3>4, NoneAssumption DEF EjectionsTrue
      <4>2. o \in DOMAIN rentals' /\ Kept(rentals[o], rentals'[o])
        BY <2>8, <4>1 DEF AllKept
      <4> QED
        BY <3>1, <4>1, <4>2 DEF Kept
    <3> QED
      BY <3>1, <3>2, <3>3, <3>4 DEF EjectionsTrue, OneBatteryPerRental
  <2>9. CapturesBacked
    BY <1>1, <1>5, EjectingBacked DEF Ejecting
  <2>10. gone' \in [RentalIds -> SUBSET Batteries]
    BY <1>3 DEF CoordinatorInv, CoordinatorTypeOK
  <2> QED
    BY <1>1, <1>3, <2>5, <2>8, <2>9, <2>10, EjectionStep
<1> QED
  BY <1>3, <1>4, <1>5

\* The one request that holds the claim pops at most one battery.
LEMMA PopStep ==
  ASSUME CoordinatorInv, NEW p \in Requests, Continue(p), Pop(p, request[p].rental)
  PROVE  CoordinatorInv'
<1> DEFINE r == request[p].rental
           b == request[p].battery
<1>1. /\ request[p].step # "idle" /\ TypeOK /\ [Next]_vars /\ AllKept /\ r \in DOMAIN rentals
      /\ request[p] \in Request /\ Knows(request[p], intent[r], rentals[r])
  BY ContinueMeans, RunningMeans
<1>2. At(p, "pop") /\ Popping(request[p]) /\ b \in Batteries /\ Ejector
      /\ rentals[r].state \notin Claimable /\ r \in RentalIds
  BY <1>1 DEF Pop, At, Popping, Knows, TypeOK, RentalsTyped
<1>3. /\ UNCHANGED <<vars, intent, events, crashes>>
      /\ \E step \in FreeSteps : Goto(p, step)
      /\ UNCHANGED gone \/ gone' = [gone EXCEPT ![r] = @ \cup {b}]
  BY DEF Pop, core, FreeSteps
<1> HIDE DEF r, b
<1>4. RequestsGoOn /\ NoNewPop
  BY <1>1, <1>3, FreeGoesOn
<1>5. CASE UNCHANGED gone
  BY <1>3, <1>4, <1>5, RequestStep
<1>6. CASE gone' = [gone EXCEPT ![r] = @ \cup {b}]
  <2>1. EjectionsTrue /\ OneBatteryPerRental /\ gone \in [RentalIds -> SUBSET Batteries]
        /\ UNCHANGED rentals
    BY <1>3 DEF CoordinatorInv, CoordinatorTypeOK, vars
  <2>2. gone[r] = {}
    BY <1>2, <2>1 DEF EjectionsTrue, r
  <2>3. gone'[r] = {b} /\ (\A o \in RentalIds \ {r} : gone'[o] = gone[o])
        /\ gone' \in [RentalIds -> SUBSET Batteries]
    BY <1>2, <1>6, <2>1, <2>2
  <2>4. PICK step \in FreeSteps : Goto(p, step)
    BY <1>3
  <2>5. request'[p].step = step /\ ~Popping(request'[p])
        /\ \A o \in Requests \ {p} : request'[o] = request[o]
    BY <1>1, <2>4 DEF Goto, CoordinatorInv, CoordinatorTypeOK, Request, FreeSteps, Popping
  <2>6. \A o \in Requests : Popping(request'[o]) => Popping(request[o]) /\ request'[o] = request[o] /\ o # p
    BY <2>5
  <2>7. \A o \in Requests : Popping(request'[o]) => gone'[request'[o].rental] = {}
    <3> SUFFICES ASSUME NEW o \in Requests, Popping(request'[o])
                 PROVE  gone'[request'[o].rental] = {}
      OBVIOUS
    <3>1. Popping(request[o]) /\ request'[o] = request[o] /\ o # p
      BY <2>6
    <3>2. request[o].rental # r /\ gone[request[o].rental] = {}
      BY <1>2, <2>1, <3>1 DEF EjectionsTrue, r
    <3>3. request[o].rental \in RentalIds
      BY <3>1, RunningMeans DEF Popping
    <3> QED
      BY <2>3, <3>1, <3>2, <3>3
  <2>8. \A o, u \in Requests :
          (Popping(request'[o]) /\ Popping(request'[u]) /\ request'[o].rental = request'[u].rental) => o = u
    BY <2>1, <2>6 DEF EjectionsTrue
  <2>9. \A o \in RentalIds : gone'[o] # {} =>
          /\ o \in DOMAIN rentals' /\ rentals'[o].state \notin Claimable
          /\ ~Ejector => gone'[o] = {rentals'[o].battery}
    BY <1>1, <1>2, <2>1, <2>3 DEF EjectionsTrue
  <2>10. EjectionsTrue' /\ OneBatteryPerRental'
    BY <2>1, <2>3, <2>7, <2>8, <2>9 DEF EjectionsTrue, OneBatteryPerRental
  <2>11. CapturesBacked
    BY <2>1, SameBacked
  <2> QED
    BY <1>1, <1>3, <1>4, <2>3, <2>10, <2>11, EjectionStep
<1> QED
  BY <1>3, <1>5, <1>6

\* Without an ejector the battery that leaves is the one recorded, once for all.
LEMMA ActivateStep ==
  ASSUME CoordinatorInv, NEW p \in Requests, Continue(p), Activate(p, request[p].rental)
  PROVE  CoordinatorInv'
<1> DEFINE r == request[p].rental
<1>1. /\ request[p].step # "idle" /\ TypeOK /\ [Next]_vars /\ AllKept /\ r \in DOMAIN rentals
      /\ request[p] \in Request /\ Knows(request[p], intent[r], rentals[r]) /\ CustodyInv'
      /\ rentals[r] \in Rental
  BY ContinueMeans, RunningMeans
<1>2. ~Ejector /\ r \in RentalIds /\ r \in DOMAIN rentals'
  BY <1>1 DEF Activate, At, Knows, TypeOK, RentalsTyped, AllKept
<1>3. /\ UNCHANGED <<intent, events, crashes>>
      /\ \E step \in FreeSteps \cup {"idle"} : Goto(p, step)
      /\ \/ UNCHANGED <<vars, gone>>
         \/ EjectAndActivate(r, now) /\ gone' = [gone EXCEPT ![r] = @ \cup {rentals'[r].battery}]
  BY DEF Activate, core, FreeSteps
<1> HIDE DEF r
<1>4. RequestsGoOn /\ NoNewPop
  BY <1>1, <1>3, FreeGoesOn
<1>5. CASE UNCHANGED <<vars, gone>>
  BY <1>3, <1>4, <1>5, RequestStep
<1>6. CASE EjectAndActivate(r, now) /\ gone' = [gone EXCEPT ![r] = @ \cup {rentals'[r].battery}]
  <2>1. EjectionsTrue /\ OneBatteryPerRental /\ gone \in [RentalIds -> SUBSET Batteries]
    BY DEF CoordinatorInv, CoordinatorTypeOK
  <2>2. CapturesBacked
    BY <1>1, <1>6, NowIsClock, EjectingBacked DEF Ejecting
  <2>3. rentals'[r].state = "ACTIVE" /\ rentals'[r].battery \in Batteries
        /\ gone[r] \subseteq {rentals'[r].battery}
    <3>1. CASE rentals[r].state = "ACTIVE" /\ UNCHANGED rentals
      <4>1. ValidRental(rentals[r])
        BY <1>1 DEF CoordinatorInv, CustodyInv, LifeInv, ValidData
      <4>2. rentals[r].battery \in Batteries
        BY <1>1, <3>1, <4>1 DEF ValidRental, StartedStates, OutStates, Rental
      <4>3. gone[r] \subseteq {rentals[r].battery}
        BY <1>2, <2>1 DEF EjectionsTrue
      <4> QED
        BY <3>1, <4>2, <4>3
    <3>2. CASE /\ rentals[r].state = "PAYMENT_AUTH"
               /\ \E x \in AvailableAt(rentals[r].station) :
                    Update(r, ActivateWithBattery(BeginEjection(rentals[r]), slots[x], now))
      <4> PICK x \in AvailableAt(rentals[r].station) :
                 Update(r, ActivateWithBattery(BeginEjection(rentals[r]), slots[x], now))
        BY <3>2
      <4>1. slots[x] \in Batteries
        BY <1>1 DEF AvailableAt, TypeOK, InventoryTyped
      <4>2. rentals'[r] = ActivateWithBattery(BeginEjection(rentals[r]), slots[x], now)
        BY <1>1 DEF Update, TypeOK, RentalsTyped
      <4>3. rentals'[r].state = "ACTIVE" /\ rentals'[r].battery = slots[x]
        BY <1>1, <4>2 DEF ActivateWithBattery, BeginEjection, Rental
      <4>4. gone[r] = {}
        BY <1>2, <2>1, <3>2 DEF EjectionsTrue, Claimable
      <4> QED
        BY <4>1, <4>3, <4>4
    <3> QED
      BY <1>6, <3>1, <3>2 DEF EjectAndActivate
  <2>4. gone'[r] = {rentals'[r].battery} /\ (\A o \in RentalIds \ {r} : gone'[o] = gone[o])
        /\ gone' \in [RentalIds -> SUBSET Batteries]
    BY <1>2, <1>6, <2>1, <2>3
  <2>5. \A o \in Requests : ~Popping(request'[o])
    <3> SUFFICES ASSUME NEW o \in Requests, Popping(request[o])
                 PROVE  FALSE
      BY <1>4 DEF NoNewPop
    <3>1. Knows(request[o], intent[request[o].rental], rentals[request[o].rental])
      BY RunningMeans DEF Popping
    <3> QED
      BY <1>2, <3>1 DEF Knows, Popping
  <2>6. ASSUME NEW o \in RentalIds, gone'[o] # {}
        PROVE  /\ o \in DOMAIN rentals' /\ rentals'[o].state \notin Claimable
               /\ ~Ejector => gone'[o] = {rentals'[o].battery}
    <3>1. CASE o = r
      BY <1>2, <2>3, <2>4, <3>1 DEF Claimable
    <3>2. CASE o # r
      <4>1. gone'[o] = gone[o]
        BY <2>4, <3>2
      <4>2. o \in DOMAIN rentals /\ rentals[o].state \notin Claimable
            /\ gone[o] = {rentals[o].battery} /\ rentals[o].battery # None
        BY <1>2, <2>1, <2>6, <4>1, NoneAssumption DEF EjectionsTrue
      <4>3. o \in DOMAIN rentals' /\ Kept(rentals[o], rentals'[o])
        BY <1>1, <4>2 DEF AllKept
      <4> QED
        BY <4>1, <4>2, <4>3 DEF Kept
    <3> QED
      BY <3>1, <3>2
  <2>7. EjectionsTrue' /\ OneBatteryPerRental'
    BY <2>1, <2>4, <2>5, <2>6 DEF EjectionsTrue, OneBatteryPerRental
  <2> QED
    BY <1>1, <1>3, <1>4, <2>2, <2>4, <2>7, EjectionStep
<1> QED
  BY <1>3, <1>5, <1>6

LEMMA ContinueStep ==
  ASSUME CoordinatorInv, NEW p \in Requests, Continue(p)
  PROVE  CoordinatorInv'
BY CallStep, CaptureStep, AttemptStep, AuthorizeStep, LookStep, ClaimStep, PopStep, ActivateStep
   DEF Continue

-----------------------------------------------------------------------------
(* The world: Stripe, the card, the bank, crashes, the rest of the server. *)

LEMMA DeliverStep ==
  ASSUME CoordinatorInv, [Next]_vars, NEW e \in events, Deliver(e)
  PROVE  CoordinatorInv'
<1> DEFINE r == e.rental
<1>1. TypeOK /\ r \in DOMAIN rentals /\ EventTrue(e, intent[r], rentals[r]) /\ e.cents \in Nat
  BY DEF CoordinatorInv, CoordinatorTypeOK, EventsTrue
<1>2. /\ UNCHANGED <<request, intent, events, gone, crashes>>
      /\ \/ WebhookCapturable(r, e.cents) \/ WebhookRefunded(r, e.cents)
         \/ WebhookCanceled(r) \/ WebhookFailed(r)
         \/ WebhookSucceeded(r, e.cents) /\ Taken(intent[r], e.cents)
  BY <1>1 DEF Deliver, EventTrue, outside
<1>3. CapturesBacked
  BY <1>1, <1>2, WebhookBacked
<1> QED
  BY <1>2, <1>3, SameGoesOn, TransactionStep

LEMMA StripeSideStep ==
  ASSUME CoordinatorInv, [Next]_vars, StripeSide
  PROVE  CoordinatorInv'
<1>1. ASSUME NEW r \in DOMAIN rentals, CardAccepted(r) \/ CardRefused(r) \/ HoldEnds(r)
      PROVE  CoordinatorInv'
  <2>1. UNCHANGED <<vars, request, gone, crashes>>
    BY <1>1 DEF CardAccepted, CardRefused, HoldEnds, core
  <2>2. CASE CardAccepted(r)
    BY <2>2, StatusMoves, <2>1, SameGoesOn, StripeMoves DEF CardAccepted
  <2>3. CASE HoldEnds(r)
    BY <2>3, StatusMoves, <2>1, SameGoesOn, StripeMoves DEF HoldEnds
  <2>4. CASE CardRefused(r)
    <3>1. UNCHANGED intent /\ events' = events \cup {Event("failed", r, 0)}
      BY <2>4 DEF CardRefused, Emit
    <3>2. intent' = [intent EXCEPT ![r] = intent[r]]
      BY <3>1, IntentHere
    <3>3. EventTrue(Event("failed", r, 0), intent[r], rentals[r])
      BY IntentHere DEF EventTrue, Event
    <3>4. IntentMoves(r)
      BY <3>1, <3>2, <3>3, IntentHere DEF IntentMoves, Advance
    <3> QED
      BY <2>1, <3>4, SameGoesOn, StripeMoves
  <2> QED
    BY <1>1, <2>2, <2>3, <2>4
<1>2. ASSUME NEW r \in DOMAIN rentals, NEW cents \in RefundAmounts, DashboardRefund(r, cents)
      PROVE  CoordinatorInv'
  <2>1. cents \in Nat /\ intent[r].keys \in SUBSET Nat
    BY CoordinatorAssumption, IntentHere DEF Intent
  <2>2. IntentMoves(r)
    BY <1>2, <2>1, RefundMoves DEF DashboardRefund
  <2> QED
    BY <1>2, <2>2, SameGoesOn, StripeMoves DEF DashboardRefund, core
<1> QED
  BY <1>1, <1>2, DeliverStep DEF StripeSide

LEMMA CrashStep ==
  ASSUME CoordinatorInv, [Next]_vars, Crash
  PROVE  CoordinatorInv'
<1>1. CoordinatorTypeOK
  BY DEF CoordinatorInv
<1>2. UNCHANGED <<vars, intent, events, gone>> /\ crashes' \in 0..Crashes
      /\ request' = [p \in Requests |-> Idle]
  BY <1>1, CoordinatorAssumption DEF Crash, core, outside, CoordinatorTypeOK
<1>3. Idle \in Request /\ Idle.step = "idle"
  BY DEF Idle, Request, Steps
<1>4. RequestsGoOn /\ NoNewPop
  BY <1>2, <1>3 DEF RequestsGoOn, NoNewPop, Running, Popping
<1>5. UNCHANGED rentals
  BY <1>2 DEF vars
<1>6. Advances /\ CapturesBacked
  BY <1>2, <1>5, SameBacked DEF Advances, Advance
<1>7. AllKept => EjectionsTrue' /\ OneBatteryPerRental'
  BY <1>2, <1>4, EjectionsStill DEF NoNewPop
<1>8. /\ intent' \in [RentalIds -> Intent] /\ gone' \in [RentalIds -> SUBSET Batteries]
      /\ events' \subseteq [kind : {"capturable", "succeeded", "canceled", "failed", "refunded"},
                             rental : RentalIds, cents : Nat]
  BY <1>1, <1>2 DEF CoordinatorTypeOK
<1> QED
  BY <1>2, <1>4, <1>6, <1>7, <1>8, StepStill DEF RequestsGoOn

LEMMA CoordinatorStep ==
  ASSUME CoordinatorInv, [CoordinatorNext]_allVars
  PROVE  CoordinatorInv'
<1>1. [Next]_vars /\ TypeOK
  BY CoordinatorNextIsNext DEF CoordinatorInv, CoordinatorTypeOK
<1>2. CASE \E p \in Requests : Arrive(p) \/ Continue(p)
  BY <1>2, ArriveStep, ContinueStep
<1>3. CASE StripeSide
  BY <1>1, <1>3, StripeSideStep
<1>4. CASE Crash
  BY <1>1, <1>4, CrashStep
<1>5. CASE Background
  <2>1. UNCHANGED <<request, intent, events, gone, crashes>>
    BY <1>5 DEF Background, outside
  <2>2. UNCHANGED rentals \/ rentals' = Refreshed(now)
    BY <1>5 DEF Background, RefreshOverdue, Tick, OutOfService, BackInService
  <2>3. CapturesBacked
    BY <1>1, <2>2, SameBacked, RefreshedBacked
  <2> QED
    BY <1>1, <2>1, <2>3, SameGoesOn, TransactionStep
<1>6. CASE UNCHANGED allVars
  BY <1>6, SameGoesOn, RequestStep DEF allVars
<1> QED
  BY <1>2, <1>3, <1>4, <1>5, <1>6 DEF CoordinatorNext

-----------------------------------------------------------------------------
(* The theorems.                                                           *)

\* The inductive invariant: whatever the requests await, they go on with what still holds.
THEOREM CoordinatorInvariant == CoordinatorSpec => []CoordinatorInv
<1>1. CoordinatorInit => CoordinatorInv
  BY InitCoordinator
<1>2. CoordinatorInv /\ [CoordinatorNext]_allVars => CoordinatorInv'
  BY CoordinatorStep
<1> QED
  BY <1>1, <1>2, PTL DEF CoordinatorSpec

\* The coordinator implements the rental domain: however awaits, events, lost answers and crashes
\* interleave, the database only ever makes the steps of RentalTransactions.
THEOREM CoordinatorImplements == CoordinatorSpec => Spec
<1>1. CoordinatorInit => Init
  BY DEF CoordinatorInit
<1>2. CoordinatorInv /\ [CoordinatorNext]_allVars => [Next]_vars
  BY CoordinatorNextIsNext
<1> QED
  BY <1>1, <1>2, CoordinatorInvariant, PTL DEF CoordinatorSpec, Spec

\* Every variable of the coordinator keeps a value of its type.
THEOREM CoordinatorTypes == CoordinatorSpec => []CoordinatorTypeOK
<1>1. CoordinatorInv => CoordinatorTypeOK
  BY DEF CoordinatorInv
<1> QED
  BY <1>1, CoordinatorInvariant, PTL

\* What the database says was captured is what Stripe took, after any lost answer, replay, crash or
\* late event.
THEOREM CapturesAreTrue == CoordinatorSpec => []CapturesTrue
<1>1. CoordinatorInv => CapturesTrue
  BY DEF CoordinatorInv
<1> QED
  BY <1>1, CoordinatorInvariant, PTL

\* However many requests start the same rental, at most one battery leaves for it.
THEOREM OneBattery == CoordinatorSpec => []OneBatteryPerRental
<1>1. CoordinatorInv => OneBatteryPerRental
  BY DEF CoordinatorInv
<1> QED
  BY <1>1, CoordinatorInvariant, PTL

\* What is proved of the rental domain holds behind the coordinator: the battery a customer has is
\* RENTED, no battery leaves before its deposit is on record, the deposit is only forfeited late,
\* nothing stays on record as held once a rental is over, and what happened is written once.
THEOREM CoordinatorKeepsRules ==
  CoordinatorSpec =>
    /\ [](/\ BatteryWithCustomer /\ DepositBeforeBattery /\ ForfeitOnlyWhenLate
          /\ NothingHeldAtTheEnd /\ OneRentalPerCustomer)
    /\ HistoryWrittenOnce /\ TerminalIsFinal
<1> QED
  BY CoordinatorImplements, Custody, DepositFirst, ForfeitLate, NothingHeld, OneRental, WrittenOnce,
     TerminalFinal, PTL

-----------------------------------------------------------------------------
(* What Stripe took is due, however requests on one rental interleave.  An *)
(* order to take money is given by a request that read, before it, either  *)
(* the return or the lateness; neither goes back, whatever the others did  *)
(* meanwhile.                                                              *)

\* Stripe takes money only for a request that captures what is due or the deposit.
LEMMA TakenOnlyBy ==
  ASSUME CoordinatorInv, [CoordinatorNext]_allVars, NEW r \in RentalIds,
         ~Taken(intent[r], intent'[r].taken), intent'[r].status = "succeeded"
  PROVE  \E p \in Requests :
           /\ request[p].rental = r
           /\ \/ request[p].step = "capture" /\ intent'[r].taken = rentals[r].amount
              \/ request[p].step = "forfeit"
<1> USE DEF Taken
<1>1. intent \in [RentalIds -> Intent] /\ intent' # intent
  BY DEF CoordinatorInv, CoordinatorTypeOK
<1>2. ASSUME NEW o \in RentalIds, NEW status, status # "succeeded", SetIntent(o, status)
      PROVE  FALSE
  BY <1>1, <1>2 DEF SetIntent, Intent
<1>3. ASSUME NEW o \in RentalIds, intent' = [intent EXCEPT ![o].secret = TRUE]
      PROVE  FALSE
  BY <1>1, <1>3 DEF Intent
<1>4. ASSUME NEW o \in RentalIds, NEW cents, NEW keys, GiveMoneyBack(o, cents, keys)
      PROVE  FALSE
  BY <1>1, <1>4 DEF GiveMoneyBack, Intent
<1>5. ASSUME NEW o \in RentalIds, NEW cents, Capture(o, cents)
      PROVE  o = r /\ intent'[r].taken = cents
  BY <1>1, <1>5 DEF Capture, Intent
<1>6. ASSUME NEW p \in Requests, Arrive(p) PROVE FALSE
  BY <1>1, <1>6 DEF Arrive, Begin, Confirm, Abandon, Expiry, Stop, Loss, ResolveEjectionAction,
     CloseEjected, CloseNotEjected, RefundAction, RefundStart, ReturnBattery, outside
<1>7. ASSUME NEW p \in Requests, Continue(p)
      PROVE  /\ request[p].rental = r
             /\ \/ request[p].step = "capture" /\ intent'[r].taken = rentals[r].amount
                \/ request[p].step = "forfeit"
  <2> DEFINE o == request[p].rental
  <2>1. o \in RentalIds
    BY <1>7, ContinueMeans, RunningMeans
  <2> HIDE DEF o
  <2>2. CASE BeginIntent(p, o) \/ BeginAttach(p, o)
    <3>1. \/ UNCHANGED intent
          \/ intent' = [intent EXCEPT ![o].secret = TRUE]
          \/ SetIntent(o, "requires_payment_method")
      BY <2>2 DEF BeginIntent, BeginAttach, Call
    <3> QED
      BY <1>1, <1>2, <1>3, <2>1, <3>1
  <2>3. CASE GiveBack(p, o) \/ Undo(p, o) \/ AbandonRelease(p, o) \/ ExpiryRelease(p, o)
    <3>1. UNCHANGED intent \/ SetIntent(o, "canceled")
      BY <2>3 DEF GiveBack, Undo, AbandonRelease, ExpiryRelease, Release, Call, Cancel
    <3> QED
      BY <1>1, <1>2, <2>1, <3>1
  <2>4. CASE RefundCall(p, o)
    <3>1. UNCHANGED intent \/ \E cents, keys : GiveMoneyBack(o, cents, keys)
      BY <2>4 DEF RefundCall, Call
    <3> QED
      BY <1>1, <1>4, <2>1, <3>1
  <2>5. CASE CaptureDue(p, o)
    BY <1>1, <1>5, <2>1, <2>5 DEF CaptureDue, Call, At, o
  <2>6. CASE Forfeit(p, o)
    BY <1>1, <1>5, <2>1, <2>6 DEF Forfeit, Call, At, o
  <2> QED
    BY <1>1, <1>7, <2>2, <2>3, <2>4, <2>5, <2>6 DEF Continue, Refuse, ConfirmCheck, ConfirmAuthorize,
       Activate, Claim, Choose, Pop, Record, Uncertain, Failed, Unknown, AbandonCommit, ExpiryCommit,
       Settle, RecordCapture, CompleteReturn, RecordLoss, Undone, RefundRecord, Attempt, outside, o
<1>8. CASE StripeSide
  <2>1. DOMAIN rentals \subseteq RentalIds
    BY DEF CoordinatorInv, CoordinatorTypeOK, TypeOK, RentalsTyped
  <2>2. \/ UNCHANGED intent
        \/ \E o \in DOMAIN rentals : SetIntent(o, "requires_capture") \/ SetIntent(o, "canceled")
        \/ \E o \in DOMAIN rentals : \E cents, keys : GiveMoneyBack(o, cents, keys)
    BY <1>8 DEF StripeSide, CardAccepted, CardRefused, HoldEnds, DashboardRefund, Deliver, outside
  <2> QED
    BY <1>1, <1>2, <1>4, <2>1, <2>2
<1>9. CASE Crash \/ Background \/ UNCHANGED allVars
  BY <1>1, <1>9 DEF Crash, Background, outside, allVars
<1> QED
  BY <1>6, <1>7, <1>8, <1>9 DEF CoordinatorNext



\* The battery was still out the grace time after its deadline.
Late(rental, t) ==
  /\ rental.battery # None /\ rental.startedAt # Never
  /\ t + rental.simulated >= Deadline(rental) + LossGrace

\* Lateness does not go back: neither the clock nor the simulated delay does, and the start and the
\* rates were written once.
LEMMA StillLate ==
  ASSUME NEW old \in Rental, NEW new, Kept(old, new), NEW t \in Nat, NEW u \in Nat, u >= t,
         Late(old, t)
  PROVE  Late(new, u)
<1>1. old.battery # None /\ old.startedAt # Never
      /\ t + old.simulated >= Deadline(old) + LossGrace
  BY DEF Late
<1>2. /\ new.battery = old.battery /\ new.startedAt = old.startedAt /\ new.pricing = old.pricing
      /\ Grew(old.simulated, new.simulated)
  BY <1>1 DEF Kept
<1>3. /\ old.simulated \in Nat /\ new.simulated \in Nat /\ new.simulated >= old.simulated
      /\ Deadline(old) \in Int /\ LossGrace \in Nat /\ Deadline(new) = Deadline(old)
  <2>1. old.pricing \in Pricings /\ old.simulated \in Nat /\ old.startedAt \in Nat
    BY <1>1 DEF Rental
  <2> QED
    BY <1>2, <2>1, GridTyped, LossGraceAssumption DEF Deadline, Grew
<1> QED
  BY <1>1, <1>2, <1>3 DEF Late

\* Only the loss job goes to forfeit a deposit, for a rental it reads as lost.
LEMMA ForfeitOnlyBy ==
  ASSUME CoordinatorInv, [CoordinatorNext]_allVars, NEW p \in Requests, request'[p].step = "forfeit"
  PROVE  \/ request[p].step = "forfeit" /\ request'[p].rental = request[p].rental
         \/ request'[p].rental \in DOMAIN rentals /\ LossEligible(rentals[request'[p].rental], now)
<1>1. request \in [Requests -> Request]
  BY DEF CoordinatorInv, CoordinatorTypeOK
<1>2. ASSUME NEW o \in Requests, NEW step, step # "forfeit", Goto(o, step)
      PROVE  request[p].step = "forfeit" /\ request'[p].rental = request[p].rental
  BY <1>1, <1>2 DEF Goto, Idle, Request
<1>3. ASSUME NEW o \in Requests, NEW step, NEW r, step # "forfeit", Begun(o, step, r)
      PROVE  request[p].step = "forfeit" /\ request'[p].rental = request[p].rental
  BY <1>1, <1>3 DEF Begun, Idle, Request
<1>4. ASSUME request' = request
      PROVE  request[p].step = "forfeit" /\ request'[p].rental = request[p].rental
  BY <1>4
<1>5. ASSUME NEW o \in Requests, NEW r \in DOMAIN rentals, Loss(o, r)
      PROVE  \/ request[p].step = "forfeit" /\ request'[p].rental = request[p].rental
             \/ request'[p].rental \in DOMAIN rentals /\ LossEligible(rentals[request'[p].rental], now)
  BY <1>1, <1>5 DEF Loss, Idle, Request
<1>6. ASSUME NEW o \in Requests, Arrive(o), ~(\E r \in DOMAIN rentals : Loss(o, r))
      PROVE  request[p].step = "forfeit" /\ request'[p].rental = request[p].rental
  <2>1. ASSUME NEW r \in DOMAIN rentals, NEW cents, RefundStart(o, r, cents)
        PROVE  request[p].step = "forfeit" /\ request'[p].rental = request[p].rental
    BY <1>1, <2>1 DEF RefundStart, Idle, Request
  <2>2. ASSUME NEW r, NEW c, NEW s, Begin(o, r, c, s)
        PROVE  request[p].step = "forfeit" /\ request'[p].rental = request[p].rental
    BY <1>3, <1>4, <2>2 DEF Begin
  <2> QED
    BY <1>3, <1>4, <1>6, <2>1, <2>2 DEF Arrive, Confirm, Abandon, Expiry, Stop, ResolveEjectionAction,
       CloseEjected, CloseNotEjected, RefundAction, ReturnBattery
<1>7. ASSUME NEW o \in Requests, Continue(o)
      PROVE  request[p].step = "forfeit" /\ request'[p].rental = request[p].rental
  <2> DEFINE r == request[o].rental
  <2>1. CASE \/ BeginIntent(o, r) \/ BeginAttach(o, r) \/ Refuse(o, r) \/ ConfirmCheck(o, r)
             \/ ConfirmAuthorize(o, r) \/ Activate(o, r)
    <3>1. \E step : step # "forfeit" /\ Goto(o, step)
      BY <2>1 DEF BeginIntent, BeginAttach, Refuse, ConfirmCheck, ConfirmAuthorize, Activate, Call, Attempt
    <3> QED
      BY <1>2, <3>1
  <2>2. CASE Choose(o, r)
    <3>1. ASSUME NEW b, request' = [request EXCEPT ![o].step = "pop", ![o].battery = b]
          PROVE  request[p].step = "forfeit" /\ request'[p].rental = request[p].rental
      BY <1>1, <3>1 DEF Request
    <3> QED
      BY <1>2, <2>2, <3>1 DEF Choose
  <2>3. CASE \/ Claim(o, r) \/ Pop(o, r) \/ Record(o, r) \/ Uncertain(o, r) \/ GiveBack(o, r)
             \/ Failed(o, r) \/ Unknown(o, r)
    <3>1. \E step : step # "forfeit" /\ Goto(o, step)
      BY <2>3 DEF Claim, Pop, Record, Uncertain, GiveBack, Failed, Unknown, Call, Attempt
    <3> QED
      BY <1>2, <3>1
  <2>4. CASE \/ AbandonRelease(o, r) \/ ExpiryRelease(o, r) \/ AbandonCommit(o, r) \/ ExpiryCommit(o, r)
             \/ Undo(o, r) \/ Undone(o, r) \/ RefundCall(o, r) \/ RefundRecord(o, r)
    <3>1. \E step : step # "forfeit" /\ Goto(o, step)
      BY <2>4 DEF AbandonRelease, ExpiryRelease, Release, AbandonCommit, ExpiryCommit, Undo, Undone,
         RefundCall, RefundRecord, Call, Attempt
    <3> QED
      BY <1>2, <3>1
  <2>5. CASE \/ Settle(o, r) \/ CaptureDue(o, r) \/ RecordCapture(o, r) \/ CompleteReturn(o, r)
             \/ Forfeit(o, r) \/ RecordLoss(o, r)
    <3>1. \E step : step # "forfeit" /\ Goto(o, step)
      BY <2>5 DEF Settle, CaptureDue, RecordCapture, CompleteReturn, Forfeit, RecordLoss, Call, Attempt
    <3> QED
      BY <1>2, <3>1
  <2> QED
    BY <1>7, <2>1, <2>2, <2>3, <2>4, <2>5 DEF Continue
<1>8. CASE Crash
  BY <1>8 DEF Crash, Idle
<1>9. CASE StripeSide \/ Background \/ UNCHANGED allVars
  <2>1. request' = request
    BY <1>9 DEF StripeSide, CardAccepted, CardRefused, HoldEnds, DashboardRefund, Deliver, Background,
       allVars
  <2> QED
    BY <1>4, <2>1
<1> QED
  BY <1>5, <1>6, <1>7, <1>8, <1>9 DEF CoordinatorNext

\* The loss job reads as lost a rental whose battery was never brought back.
LEMMA EligibleIsLate ==
  ASSUME CoordinatorInv, NEW r \in DOMAIN rentals, LossEligible(rentals[r], now)
  PROVE  Late(rentals[r], now)
<1>1. TypeOK /\ rentals[r] \in Rental /\ ValidRental(rentals[r]) /\ rentals[r].state = "OVERDUE"
  BY ThereTyped DEF CoordinatorInv, CustodyInv, LifeInv, ValidData, LossEligible
<1>2. rentals[r].battery # None /\ rentals[r].startedAt # Never
  BY <1>1 DEF ValidRental, StartedStates, OutStates
<1>3. /\ rentals[r].simulated \in Nat /\ Deadline(rentals[r]) \in Int /\ now \in Nat
      /\ LossGrace \in Nat
  BY <1>1, <1>2, GridTyped, LossGraceAssumption DEF Rental, Deadline, Never, TypeOK
<1> QED
  BY <1>2, <1>3 DEF LossEligible, Late

\* What Stripe took of one rental is due.
Due(i, rental, t) ==
  i.status = "succeeded" =>
    \/ rental.returnedAt # Never /\ i.taken = rental.amount
    \/ i.taken = rental.pricing.deposit /\ Late(rental, t)
\* The invariant: that, and the lateness of what a request is about to forfeit.
DueInv ==
  /\ \A r \in DOMAIN rentals : Due(intent[r], rentals[r], now)
  /\ \A p \in Requests : At(p, "forfeit") => Late(rentals[request[p].rental], now)

LEMMA DueStep ==
  ASSUME CoordinatorInv, CoordinatorInv', DueInv, [CoordinatorNext]_allVars
  PROVE  DueInv'
<1>1. [Next]_vars /\ AllKept
  BY CoordinatorNextIsNext, LifeStep DEF CoordinatorInv, CustodyInv
<1>2. now \in Nat /\ now' \in Nat /\ now' >= now
  BY <1>1, ClockAdvances DEF CoordinatorInv, CoordinatorTypeOK, TypeOK
<1>3. ASSUME NEW r \in DOMAIN rentals, Late(rentals[r], now)
      PROVE  r \in DOMAIN rentals' /\ Late(rentals'[r], now')
  BY <1>1, <1>2, <1>3, StillLate, ThereTyped DEF AllKept, CoordinatorInv, CoordinatorTypeOK
<1>4. ASSUME NEW r \in DOMAIN rentals', intent'[r].status = "succeeded"
      PROVE  Due(intent'[r], rentals'[r], now')
  <2>1. r \in RentalIds /\ IntentTrue(intent'[r], rentals'[r])
    BY DEF CoordinatorInv, CoordinatorTypeOK, TypeOK, RentalsTyped, IntentsTrue
  <2>2. CASE Taken(intent[r], intent'[r].taken)
    <3>1. r \in DOMAIN rentals
      BY <2>1, <2>2 DEF CoordinatorInv, IntentsTrue, NoIntent, Taken
    <3>2. Due(intent[r], rentals[r], now) /\ Kept(rentals[r], rentals'[r])
      BY <1>1, <3>1 DEF DueInv, AllKept
    <3> QED
      BY <1>3, <2>2, <3>1, <3>2 DEF Due, Taken, Kept
  <2>3. CASE ~Taken(intent[r], intent'[r].taken)
    <3>1. PICK p \in Requests :
            /\ request[p].rental = r
            /\ \/ request[p].step = "capture" /\ intent'[r].taken = rentals[r].amount
               \/ request[p].step = "forfeit"
      BY <1>4, <2>1, <2>3, TakenOnlyBy
    <3>2. r \in DOMAIN rentals /\ Knows(request[p], intent[r], rentals[r])
      BY <3>1, RunningMeans
    <3>3. CASE request[p].step = "capture" /\ intent'[r].taken = rentals[r].amount
      BY <1>1, <3>2, <3>3 DEF Knows, AllKept, Kept, Due
    <3>4. CASE request[p].step = "forfeit"
      <4>1. Late(rentals'[r], now')
        BY <1>3, <3>1, <3>2, <3>4 DEF DueInv, At
      <4> QED
        BY <1>4, <2>1, <4>1 DEF Due, IntentTrue
    <3> QED
      BY <3>1, <3>3, <3>4
  <2> QED
    BY <2>2, <2>3
<1>5. ASSUME NEW p \in Requests, request'[p].step = "forfeit"
      PROVE  Late(rentals'[request'[p].rental], now')
  <2>1. CASE request[p].step = "forfeit" /\ request'[p].rental = request[p].rental
    <3>1. request[p].rental \in DOMAIN rentals
      BY <2>1, RunningMeans
    <3> QED
      BY <1>3, <2>1, <3>1 DEF DueInv, At
  <2>2. CASE request'[p].rental \in DOMAIN rentals /\ LossEligible(rentals[request'[p].rental], now)
    BY <1>3, <2>2, EligibleIsLate
  <2> QED
    BY <1>5, <2>1, <2>2, ForfeitOnlyBy
<1> QED
  BY <1>4, <1>5 DEF DueInv, Due, At

\* What Stripe took is due, however a return, the loss job, an expired hold, crashes and lost answers
\* cross: the price of a battery that came back, or the whole deposit of one that was still out the
\* grace time after its deadline.
THEOREM TakenDue == CoordinatorSpec => []TakenIsDue
<1>1. CoordinatorInit => DueInv
  <2> SUFFICES ASSUME CoordinatorInit PROVE DueInv
    OBVIOUS
  <2>1. DOMAIN rentals = {} /\ request = [p \in Requests |-> Idle]
    BY DEF CoordinatorInit, Init
  <2> QED
    BY <2>1 DEF DueInv, At, Idle
<1>2. CoordinatorInv /\ CoordinatorInv' /\ DueInv /\ [CoordinatorNext]_allVars => DueInv'
  BY DueStep
<1>3. DueInv => TakenIsDue
  BY DEF DueInv, Due, Late, TakenIsDue, Status
<1> QED
  BY <1>1, <1>2, <1>3, CoordinatorInvariant, PTL DEF CoordinatorSpec

=============================================================================
