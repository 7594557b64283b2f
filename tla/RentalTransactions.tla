------------------------- MODULE RentalTransactions -------------------------
(***************************************************************************)
(* The rental domain as its repository sees it: one action per transaction *)
(* that the HTTP handlers, the Stripe coordinator, the webhooks, the cron  *)
(* job and the back office run, in any order and from any number of        *)
(* callers.  A repository transaction is atomic; it reaches the database   *)
(* only if validateData accepts the result (the "Commit" conjunct), and on *)
(* PostgreSQL only if the constraints and triggers of prisma/migrations do *)
(* too.  A transaction that throws changes nothing: it is a stutter here,  *)
(* and a step of its own in StripeCoordinator.                             *)
(***************************************************************************)
EXTENDS RentalEngine

CONSTANTS
  RentalIds,      \* identifiers a rental may get
  Slots,          \* the slots of all the cabinets
  StationOf,      \* the station each slot belongs to
  InitialSlots,   \* what the slots hold at the start
  StationFlags,   \* station flags that change in this instance
  FailureModes,   \* failures the demo simulator may give a station ("none" always)
  Store,          \* "postgres" in production, "d1" in the preview (the only one with a simulator)
  Modes,          \* payment modes of the deployment: {"mock"}, {"stripe"} or both
  WebhookAmounts, \* amounts a Stripe event may carry
  MaxTime,        \* bound of the clock, in hours
  MaxLag,         \* age a request's own clock reading may have when it commits
  MaxSimulated    \* bound of the simulator's added time

ASSUME SlotsAssumption ==
  /\ StationOf \in [Slots -> Stations]
  /\ InitialSlots \in [Slots -> Batteries \cup {None}]
  /\ \A x, y \in Slots : InitialSlots[x] = InitialSlots[y] /\ InitialSlots[x] # None => x = y
ASSUME ModesAssumption == Modes # {} /\ Modes \subseteq {"mock", "stripe"}
\* options.demo is a constant of the preview runtime, which takes no card.
Demo == Store = "d1"
ASSUME StoreAssumption == Store \in {"postgres", "d1"} /\ (Demo => Modes = {"mock"})
ASSUME FailureModesAssumption ==
  FailureModes \subseteq {"payment", "timeout", "ejection"} /\ StationFlags \subseteq {"online", "blocked"}
ASSUME BoundsAssumption ==
  /\ MaxTime \in Nat /\ MaxLag \in Nat /\ MaxSimulated \in Nat
  /\ WebhookAmounts \subseteq Nat

VARIABLES
  rentals,    \* the rentals created so far, each with its payment
  slots,      \* the battery recorded in each slot
  batteries,  \* the recorded status of each battery (MISSING also: never seen yet)
  stations,   \* online, blocked for maintenance, simulated failure
  grid,       \* the active pricing grid
  mode,       \* how deposits are taken
  now         \* the clock

inventory == <<slots, batteries>>
settings  == <<stations, grid, mode>>
vars == <<rentals, slots, batteries, stations, grid, mode, now>>

Station == [online : BOOLEAN, blocked : BOOLEAN, failure : FailureModes \cup {"none"}]

RentalsTyped ==
  DOMAIN rentals \subseteq RentalIds /\ rentals \in [DOMAIN rentals -> Rental]
InventoryTyped ==
  slots \in [Slots -> Batteries \cup {None}] /\ batteries \in [Batteries -> BatteryStatuses]
SettingsTyped ==
  stations \in [Stations -> Station] /\ grid \in Pricings /\ mode \in Modes
\* Every column keeps a value its type allows, whatever Stripe or a cabinet reports.
TypeOK == RentalsTyped /\ InventoryTyped /\ SettingsTyped /\ now \in Nat

Init ==
  /\ rentals = [r \in {} |-> NoPayment]
  /\ slots = InitialSlots
  /\ batteries = [b \in Batteries |->
                    IF \E x \in Slots : InitialSlots[x] = b THEN "AVAILABLE" ELSE "MISSING"]
  /\ stations = [s \in Stations |-> [online |-> TRUE, blocked |-> FALSE, failure |-> "none"]]
  /\ grid \in Pricings
  /\ mode \in Modes
  /\ now = 0

-----------------------------------------------------------------------------
(* The commit gate: validateData on the whole database, then PostgreSQL.   *)

SlottedOnce ==
  \A x, y \in Slots : slots[x] = slots[y] /\ slots[x] # None => x = y
Open == {r \in DOMAIN rentals : IsOpen(rentals[r])}
OneOpenPerCustomer ==
  \A q, r \in Open : rentals[q].customer = rentals[r].customer => q = r
OneOpenPerBattery ==
  \A q, r \in Open :
    (rentals[q].battery = rentals[r].battery /\ rentals[q].battery # None) => q = r
InSlot(b) == \E x \in Slots : slots[x] = b
HolderIn(b, states) == \E r \in DOMAIN rentals : rentals[r].battery = b /\ rentals[r].state \in states
BatteryLocation ==
  \A b \in Batteries :
    /\ InSlot(b) <=> batteries[b] \notin {"RENTED", "LOST", "MISSING"}
    /\ batteries[b] = "RENTED" => HolderIn(b, OpenStates)
    /\ batteries[b] = "LOST" => HolderIn(b, {"LOST"})

ValidData ==
  /\ SlottedOnce /\ OneOpenPerCustomer /\ OneOpenPerBattery /\ BatteryLocation
  /\ \A r \in DOMAIN rentals : ValidRental(rentals[r])

\* CHECK constraints and the deferred location trigger.
SqlChecks ==
  /\ \A r \in DOMAIN rentals : LET p == rentals[r].payment IN
       /\ p.status = "AUTHORIZED" => p.captured = 0 /\ p.released = 0
       /\ p.status = "FAILED" => p.authorized = 0 /\ p.captured = 0 /\ p.released = 0
  /\ \A b \in Batteries : batteries[b] = "RENTED" =>
       HolderIn(b, {"ACTIVE", "OVERDUE", "EJECTING", "RETURN_PENDING", "RETURNED", "ERROR"})
\* Trigger batyeo_rental_immutable: the row of a finished rental, not that of its payment.
TerminalRowsImmutable ==
  \A r \in DOMAIN rentals :
    rentals[r].state \in TerminalStates =>
      rentals'[r] = [rentals[r] EXCEPT !.payment = rentals'[r].payment]

Commit == ValidData' /\ (Store = "postgres" => SqlChecks' /\ TerminalRowsImmutable)

-----------------------------------------------------------------------------
(* Slots and the mock station provider. *)

AvailableAt(s) ==
  {x \in Slots : StationOf[x] = s /\ slots[x] # None /\ batteries[slots[x]] = "AVAILABLE"}
FreeAt(s) == {x \in Slots : StationOf[x] = s /\ slots[x] = None}
Holding(b) == {x \in Slots : slots[x] = b}

TakeFrom(x) ==
  /\ slots' = [slots EXCEPT ![x] = None]
  /\ batteries' = [batteries EXCEPT ![slots[x]] = "RENTED"]
PutInto(b, x) == slots' = [y \in Slots |-> IF y = x THEN b ELSE IF slots[y] = b THEN None ELSE slots[y]]

\* returnBattery: the customer's own declaration needs the station and a slot of it.
PlaceDeclared(b, s) ==
  /\ stations[s].online
  /\ \E x \in IF Holding(b) # {} THEN {y \in Holding(b) : StationOf[y] = s} ELSE FreeAt(s) :
       PutInto(b, x)
  /\ batteries' = IF Holding(b) # {} THEN batteries ELSE [batteries EXCEPT ![b] = "AVAILABLE"]
\* Mutant: a detected return leaves the slots to the next cabinet reading.
PlaceDetectedLater(b, s) == s \in Stations /\ UNCHANGED <<slots, batteries>>
\* placeReturned: the cabinet has the battery, so any free slot of the network will do.
PlaceDetected(b, s) ==
  /\ \E x \in LET here == {y \in Holding(b) : StationOf[y] = s}
              IN  IF here # {} THEN here
                  ELSE IF FreeAt(s) # {} THEN FreeAt(s) ELSE {y \in Slots : slots[y] = None} :
       PutInto(b, x)
  /\ batteries' = [batteries EXCEPT ![b] = "AVAILABLE"]

\* A request reads the clock when it starts and commits with that reading.
Clock == {t \in 0..now : now - t <= MaxLag}
Update(r, record) == rentals' = [rentals EXCEPT ![r] = record]
Refreshed(t) == [r \in DOMAIN rentals |->
                   IF IsLate(rentals[r], t) THEN [rentals[r] EXCEPT !.state = "OVERDUE"] ELSE rentals[r]]

-----------------------------------------------------------------------------
(* Opening a rental. *)

CanOpen(r, c, s) ==
  /\ r \in RentalIds \ DOMAIN rentals
  /\ \A q \in DOMAIN rentals : ~(rentals[q].customer = c /\ IsOpen(rentals[q]))
  /\ stations[s].online /\ ~stations[s].blocked
  /\ AvailableAt(s) # {}
AddRental(r, record, others) ==
  rentals' = [q \in DOMAIN rentals \cup {r} |-> IF q = r THEN record ELSE others[q]]

Create(r, c, s) ==
  /\ mode = "stripe"
  /\ CanOpen(r, c, s)
  /\ AddRental(r, NewRental(c, s, grid), rentals)
  /\ UNCHANGED <<inventory, settings, now>>
  /\ Commit

\* The mock deployment runs the whole start in one transaction: authorize, eject, activate.
MockStart(r, c, s) ==
  LET opened == NewRental(c, s, grid)
      authorized == BeginEjection(RecordAuthorized(opened, grid.deposit, "mock"))
  IN
  /\ mode = "mock"
  /\ CanOpen(r, c, s)
  /\ \/ /\ stations[s].failure = "payment"
        /\ AddRental(r, MarkPaymentFailed(opened, "mock"), Refreshed(now))
        /\ UNCHANGED inventory
     \/ /\ stations[s].failure = "none"
        /\ \E x \in AvailableAt(s) :
             /\ TakeFrom(x)
             /\ AddRental(r, ActivateWithBattery(authorized, slots[x], now), Refreshed(now))
     \/ /\ stations[s].failure \in {"timeout", "ejection"}
        /\ AddRental(r, MarkReleased(FailEjection(authorized)), Refreshed(now))
        /\ UNCHANGED inventory
  /\ UNCHANGED <<settings, now>>
  /\ Commit

AttachPayment(r) ==
  /\ \/ HasPayment(rentals[r]) /\ UNCHANGED rentals
     \/ /\ ~HasPayment(rentals[r]) /\ rentals[r].state = "CREATED"
        /\ Update(r, AttachIntent(rentals[r]))
  /\ UNCHANGED <<inventory, settings, now>>
  /\ Commit

PaymentFailed(r) ==
  /\ HasPayment(rentals[r]) => rentals[r].payment.provider = "stripe"
  /\ Update(r, MarkPaymentFailed(rentals[r], "stripe"))
  /\ UNCHANGED <<inventory, settings, now>>
  /\ Commit

Expire(r, to) ==
  /\ IF rentals[r].state = "CREATED" THEN Update(r, ExpireUnconfirmed(rentals[r], to))
     ELSE UNCHANGED rentals
  /\ UNCHANGED <<inventory, settings, now>>
  /\ Commit

-----------------------------------------------------------------------------
(* Ejection. *)

Authorize(r) ==
  LET deposit == rentals[r].pricing.deposit IN
  /\ \/ rentals[r].state \in {"PAYMENT_AUTH", "EJECTING", "ACTIVE"} /\ UNCHANGED rentals
     \/ /\ rentals[r].state = "CREATED"
        /\ CanRecordAuthorized(rentals[r], deposit)
        /\ Update(r, [RecordAuthorized(rentals[r], deposit, "stripe") EXCEPT !.state = "PAYMENT_AUTH"])
  /\ UNCHANGED <<inventory, settings, now>>
  /\ Commit

\* Station without an ejector of its own: begin, eject and activate are one transaction.
EjectAndActivate(r, t) ==
  /\ \/ rentals[r].state = "ACTIVE" /\ UNCHANGED <<rentals, inventory>>
     \/ /\ rentals[r].state = "PAYMENT_AUTH"
        /\ stations[rentals[r].station].online
        /\ stations[rentals[r].station].failure \notin {"timeout", "ejection"}
        /\ \E x \in AvailableAt(rentals[r].station) :
             /\ TakeFrom(x)
             /\ Update(r, ActivateWithBattery(BeginEjection(rentals[r]), slots[x], t))
  /\ UNCHANGED <<settings, now>>
  /\ Commit

\* Mutant: a claim already taken is granted again.
ClaimEjectionAgain(r) ==
  /\ rentals[r].state \in {"PAYMENT_AUTH", "EJECTING"}
  /\ Update(r, BeginEjection(rentals[r]))
  /\ UNCHANGED <<inventory, settings, now>>
  /\ Commit
\* With a real cabinet the claim commits alone; who does not find PAYMENT_AUTH backs off.
ClaimEjection(r) ==
  /\ rentals[r].state = "PAYMENT_AUTH"
  /\ Update(r, BeginEjection(rentals[r]))
  /\ UNCHANGED <<inventory, settings, now>>
  /\ Commit

\* On a rental that is already ACTIVE a second battery would leave its slot for nobody: the
\* gate (a RENTED battery has its rental) refuses that, so only EJECTING is a case here.
RecordEjected(r, b, t) ==
  /\ rentals[r].state = "EJECTING"
  /\ \E x \in AvailableAt(rentals[r].station) : slots[x] = b /\ TakeFrom(x)
  /\ Update(r, ActivateWithBattery(rentals[r], b, t))
  /\ UNCHANGED <<settings, now>>
  /\ Commit

\* The coordinator only gets this far with a rental it saw past CREATED, paid at Stripe.
Confirmed(r) ==
  /\ rentals[r].payment.provider = "stripe"
  /\ rentals[r].state \notin {"CREATED", "PAYMENT_FAILED", "EXPIRED", "CANCELLED"}

FailAndRelease(r) ==
  /\ Confirmed(r)
  /\ CanMarkReleased(FailEjection(rentals[r]))
  /\ Update(r, MarkReleased(FailEjection(rentals[r])))
  /\ UNCHANGED <<inventory, settings, now>>
  /\ Commit

EjectionUncertain(r) ==
  /\ Confirmed(r)
  /\ CanMarkUncertain(rentals[r])
  /\ Update(r, MarkUncertain(rentals[r]))
  /\ UNCHANGED <<inventory, settings, now>>
  /\ Commit

PaymentUnknown(r) ==
  /\ Confirmed(r)
  /\ Update(r, MarkPaymentUnknown(rentals[r]))
  /\ UNCHANGED <<inventory, settings, now>>
  /\ Commit

\* An operator closes an uncertain ejection: the battery did leave, or it did not.
ResolveEjected(r, b, t) == rentals[r].physicalState = "UNKNOWN" /\ RecordEjected(r, b, t)
ResolveNotEjected(r)    == rentals[r].physicalState = "UNKNOWN" /\ FailAndRelease(r)

-----------------------------------------------------------------------------
(* Return, settlement and loss. *)

\* Mutant: a return reported twice is recorded twice.
ReturnReplayed(r, s, t, detected) ==
  /\ rentals[r].battery # None /\ rentals[r].state \in {"ACTIVE", "OVERDUE", "RETURNED"}
  /\ t >= rentals[r].startedAt
  /\ IF detected THEN PlaceDetected(rentals[r].battery, s)
     ELSE PlaceDeclared(rentals[r].battery, s)
  /\ Update(r, PrepareReturn(rentals[r], s, t))
  /\ UNCHANGED <<settings, now>>
  /\ Commit
Return(r, s, t, detected) ==
  /\ \/ AlreadyReturned(rentals[r]) /\ UNCHANGED <<rentals, inventory>>
     \/ /\ ~AlreadyReturned(rentals[r])
        /\ CanReturn(rentals[r], t)
        /\ IF detected THEN PlaceDetected(rentals[r].battery, s)
           ELSE PlaceDeclared(rentals[r].battery, s)
        /\ Update(r, PrepareReturn(rentals[r], s, t))
  /\ UNCHANGED <<settings, now>>
  /\ Commit

\* Mock deployment: return, capture and completion are one transaction.
MockReturn(r, s, t, detected) ==
  LET record  == IF detected THEN rentals[r] ELSE Refreshed(now)[r]
      due     == PrepareReturn(record, s, t)
  IN
  /\ mode = "mock"
  /\ CanReturn(record, t)
  /\ IF detected THEN PlaceDetected(record.battery, s) ELSE PlaceDeclared(record.battery, s)
  /\ CanMarkCaptured(due, due.amount)
  /\ rentals' = [IF detected THEN rentals ELSE Refreshed(now) EXCEPT ![r] = MarkCaptured(due, due.amount)]
  /\ UNCHANGED <<settings, now>>
  /\ Commit

PaymentCaptured(r) ==
  /\ CanMarkCaptured(rentals[r], rentals[r].amount)
  /\ Update(r, MarkCaptured(rentals[r], rentals[r].amount))
  /\ UNCHANGED <<inventory, settings, now>>
  /\ Commit

CompleteSettlement(r) ==
  /\ CanComplete(rentals[r])
  /\ Update(r, Complete(rentals[r]))
  /\ UNCHANGED <<inventory, settings, now>>
  /\ Commit

\* In a Stripe deployment a payment without a Stripe reference is refused.
AtProvider(r) == mode = "stripe" => rentals[r].payment.provider = "stripe"

Refund(r, cents) ==
  /\ AtProvider(r)
  /\ CanMarkRefunded(rentals[r], cents)
  /\ Update(r, MarkRefunded(rentals[r], cents))
  /\ UNCHANGED <<inventory, settings, now>>
  /\ Commit

DepositLost(r, cents, t) ==
  /\ AtProvider(r)
  /\ \/ LossReplay(rentals[r], cents) /\ UNCHANGED <<rentals, inventory>>
     \/ /\ CanMarkLost(rentals[r], cents, t)
        /\ Update(r, MarkLost(rentals[r], cents))
        /\ batteries' = [batteries EXCEPT ![rentals[r].battery] = "LOST"]
        /\ UNCHANGED slots
  /\ UNCHANGED <<settings, now>>
  /\ Commit

RefreshOverdue ==
  /\ rentals' = Refreshed(now)
  /\ UNCHANGED <<inventory, settings, now>>
  /\ Commit
-----------------------------------------------------------------------------
(* Projection of Stripe events onto the rental whose payment they carry.   *)
(* An event for a rental that has no payment row yet is ignored.           *)

FromStripe(r) == HasPayment(rentals[r]) /\ rentals[r].payment.provider = "stripe"
Project(r, record) == Update(r, record) /\ UNCHANGED <<inventory, settings, now>> /\ Commit
Unexpected(r) == IF rentals[r].state \in {"ACTIVE", "OVERDUE"} THEN "ERROR" ELSE rentals[r].state

\* Mutant: Stripe's own word for the status is stored.
WebhookCapturableRaw(r, cents) ==
  /\ FromStripe(r)
  /\ rentals[r].payment.status \in {"PENDING", "AUTHORIZING"}
  /\ Project(r, [rentals[r] EXCEPT !.paymentState = "requires_capture",
                   !.payment.status = "AUTHORIZED", !.payment.authorized = cents])

WebhookCapturable(r, cents) ==
  /\ FromStripe(r)
  /\ rentals[r].payment.status \in {"PENDING", "AUTHORIZING"}
  /\ Project(r, [rentals[r] EXCEPT !.paymentState = "AUTHORIZED",
                   !.payment = Authorized(@, cents, "stripe")])

WebhookSucceeded(r, cents) ==
  /\ FromStripe(r)
  /\ rentals[r].payment.status \in {"AUTHORIZED", "CAPTURING", "UNKNOWN"}
  /\ IF cents > rentals[r].payment.authorized
     THEN Project(r, [rentals[r] EXCEPT !.paymentState = "UNKNOWN", !.payment.status = "UNKNOWN"])
     ELSE Project(r, [rentals[r] EXCEPT !.paymentState = "CAPTURED", !.payment = Captured(@, cents),
                        !.state = IF @ = "RETURNED" /\ cents = rentals[r].amount
                                  THEN "COMPLETED" ELSE @])

WebhookCanceled(r) ==
  /\ FromStripe(r)
  /\ rentals[r].payment.status \notin {"CAPTURED", "RELEASED"}
  /\ Project(r, [MarkReleased(rentals[r]) EXCEPT !.state = Unexpected(r)])

WebhookFailed(r) ==
  /\ FromStripe(r)
  /\ rentals[r].payment.status \notin {"CAPTURED", "RELEASED"}
  /\ Project(r, [rentals[r] EXCEPT !.paymentState = "FAILED", !.payment.status = "FAILED",
                   !.state = Unexpected(r)])

\* Stripe sends the running total of the refunds.
WebhookRefunded(r, total) ==
  /\ FromStripe(r)
  /\ Project(r, [rentals[r] EXCEPT !.payment.refunded =
                   IF total <= rentals[r].payment.captured THEN total ELSE rentals[r].payment.captured])

-----------------------------------------------------------------------------
(* Back office, cabinet mirror, simulator, deployment and clock.           *)

SetStation(s, field, value) ==
  /\ stations' = [stations EXCEPT ![s][field] = value]
  /\ UNCHANGED <<rentals, inventory, grid, mode, now>>
SetFlag(s, flag, value) == SetStation(s, flag, value)
SetFailure(s, failure) == Demo /\ SetStation(s, "failure", failure)

SetPricing(g) == grid' = g /\ UNCHANGED <<rentals, inventory, stations, mode, now>>

OutOfService(b) ==
  /\ batteries[b] \notin {"RENTED", "LOST"}
  /\ batteries' = [batteries EXCEPT ![b] = "MAINTENANCE"]
  /\ UNCHANGED <<rentals, slots, settings, now>>
  /\ Commit
\* Mutant: any battery without a slot is put back on sale.
BackInServiceAnywhere(b, s) ==
  /\ batteries' = [batteries EXCEPT ![b] = "AVAILABLE"]
  /\ IF Holding(b) = {} THEN \E x \in FreeAt(s) : PutInto(b, x) ELSE UNCHANGED slots
  /\ UNCHANGED <<rentals, settings, now>>
  /\ Commit
BackInService(b, s) ==
  /\ batteries[b] # "RENTED"
  /\ batteries' = [batteries EXCEPT ![b] = "AVAILABLE"]
  /\ IF batteries[b] = "LOST" THEN \E x \in FreeAt(s) : PutInto(b, x) ELSE UNCHANGED slots
  /\ UNCHANGED <<rentals, settings, now>>
  /\ Commit

\* Mutant: what the cabinet reports wins over a rental in progress.
MirrorCabinetOverRental(s, content) ==
  LET incoming == {content[x] : x \in DOMAIN content} \ {None} IN
  /\ slots' = [x \in Slots |-> IF x \in DOMAIN content THEN content[x]
                              ELSE IF slots[x] \in incoming THEN None ELSE slots[x]]
  /\ batteries' = [b \in Batteries |->
        IF b \in incoming THEN "AVAILABLE"
        ELSE IF \E x \in DOMAIN content : slots[x] = b THEN "MISSING" ELSE batteries[b]]
  /\ UNCHANGED <<rentals, settings, now>>
  /\ Commit
\* Local slots follow what the cabinet of station s reported ("content" of its slots).
MirrorCabinet(s, content) ==
  LET incoming == {content[x] : x \in DOMAIN content} \ {None} IN
  /\ \A r \in DOMAIN rentals : rentals[r].station = s =>
        rentals[r].state \notin {"CREATED", "PAYMENT_AUTH", "EJECTING"}
  /\ \A b \in incoming : batteries[b] # "RENTED"
  /\ slots' = [x \in Slots |-> IF x \in DOMAIN content THEN content[x]
                              ELSE IF slots[x] \in incoming THEN None ELSE slots[x]]
  /\ batteries' = [b \in Batteries |->
        IF b \in incoming
        THEN IF batteries[b] \in {"MISSING", "LOST"} THEN "AVAILABLE" ELSE batteries[b]
        ELSE IF \E x \in DOMAIN content : slots[x] = b THEN "MISSING" ELSE batteries[b]]
  /\ UNCHANGED <<rentals, settings, now>>
  /\ Commit
\* A cabinet never reports one battery twice (such a reading is refused).
Contents(s) ==
  {f \in [{x \in Slots : StationOf[x] = s} -> Batteries \cup {None}] :
     \A x, y \in DOMAIN f : f[x] = f[y] /\ f[x] # None => x = y}

SimulateStock(s, status) ==
  /\ Demo
  /\ rentals' = Refreshed(now)
  /\ batteries' = [b \in Batteries |->
                     IF \E x \in Slots : StationOf[x] = s /\ slots[x] = b THEN status ELSE batteries[b]]
  /\ UNCHANGED <<slots, settings, now>>
  /\ Commit
SimulateDelay(r, hours) ==
  LET delayed == [Refreshed(now)[r] EXCEPT !.simulated = @ + hours] IN
  /\ Demo
  /\ delayed.state \in {"ACTIVE", "OVERDUE"} /\ delayed.simulated <= MaxSimulated
  /\ rentals' = [Refreshed(now) EXCEPT ![r] =
                   IF IsLate(delayed, now) THEN [delayed EXCEPT !.state = "OVERDUE"] ELSE delayed]
  /\ UNCHANGED <<inventory, settings, now>>
  /\ Commit

SwitchToStripe ==
  /\ "stripe" \in Modes /\ mode = "mock"
  /\ mode' = "stripe"
  /\ UNCHANGED <<rentals, inventory, stations, grid, now>>

Tick == now < MaxTime /\ now' = now + 1 /\ UNCHANGED <<rentals, inventory, settings>>

-----------------------------------------------------------------------------
MockStep ==
  \/ \E r \in RentalIds, c \in Customers, s \in Stations : MockStart(r, c, s)
  \/ \E r \in DOMAIN rentals, s \in Stations, t \in 0..now, detected \in BOOLEAN :
        MockReturn(r, s, t, detected)

Opening(r) ==
  \/ AttachPayment(r) \/ PaymentFailed(r) \/ Authorize(r)
  \/ \E to \in {"EXPIRED", "CANCELLED"} : Expire(r, to)
Ejecting(r) ==
  \/ ClaimEjection(r) \/ FailAndRelease(r) \/ EjectionUncertain(r) \/ ResolveNotEjected(r)
  \/ \E t \in Clock : EjectAndActivate(r, t)
  \/ \E b \in Batteries, t \in Clock : RecordEjected(r, b, t) \/ ResolveEjected(r, b, t)
Settling(r) ==
  \/ \E s \in Stations, t \in 0..now, detected \in BOOLEAN : Return(r, s, t, detected)
  \/ PaymentCaptured(r) \/ CompleteSettlement(r) \/ PaymentUnknown(r)
Webhook(r) ==
  \/ \E cents \in WebhookAmounts :
       WebhookCapturable(r, cents) \/ WebhookSucceeded(r, cents) \/ WebhookRefunded(r, cents)
  \/ WebhookCanceled(r) \/ WebhookFailed(r)
StripeStep ==
  /\ mode = "stripe"
  /\ \/ \E r \in RentalIds, c \in Customers, s \in Stations : Create(r, c, s)
     \/ \E r \in DOMAIN rentals : Opening(r) \/ Ejecting(r) \/ Settling(r) \/ Webhook(r)

\* The jobs and the finance desk do the same in both modes.
CommonStep ==
  \/ RefreshOverdue
  \/ \E r \in DOMAIN rentals : \E cents \in 1..rentals[r].payment.captured : Refund(r, cents)
  \/ \E r \in DOMAIN rentals, t \in Clock :
       \E cents \in {rentals[r].pricing.deposit, rentals[r].payment.captured} : DepositLost(r, cents, t)

Operate ==
  \/ \E s \in Stations, flag \in StationFlags, value \in BOOLEAN : SetFlag(s, flag, value)
  \/ \E g \in Pricings : SetPricing(g)
  \/ \E b \in Batteries, s \in Stations : OutOfService(b) \/ BackInService(b, s)
  \/ \E s \in Stations : \E content \in Contents(s) : MirrorCabinet(s, content)
Simulate ==
  \/ \E s \in Stations, f \in FailureModes \cup {"none"} : SetFailure(s, f)
  \/ \E s \in Stations, status \in {"AVAILABLE", "MAINTENANCE"} : SimulateStock(s, status)
  \/ \E r \in DOMAIN rentals, hours \in 1..MaxSimulated : SimulateDelay(r, hours)

Next == MockStep \/ StripeStep \/ CommonStep \/ Operate \/ Simulate \/ SwitchToStripe \/ Tick

Spec == Init /\ [][Next]_vars

-----------------------------------------------------------------------------
(* Properties.                                                             *)

\* A customer has this rental's battery: it left and no return was recorded.
Out(r) == r.battery # None /\ r.returnedAt = Never /\ r.state \in {"ACTIVE", "OVERDUE", "ERROR"}

\* A battery is recorded as RENTED exactly while some rental has it out.  validateData only
\* asks for an open rental that names it: the mirror, the service desk and a second return
\* must also leave alone a battery that is in a customer's hands.
BatteryWithCustomer ==
  \A b \in Batteries :
    batteries[b] = "RENTED" <=>
      \E r \in DOMAIN rentals : rentals[r].battery = b /\ Out(rentals[r])

\* No battery is claimed, and none leaves, before the exact deposit of the rental's own grid is
\* recorded as authorized (RentalEngine.recordAuthorized, whatever amount a webhook wrote).
DepositBeforeBattery ==
  \A r \in DOMAIN rentals :
    rentals[r].state \notin {"CREATED", "PAYMENT_FAILED", "EXPIRED", "CANCELLED"} =>
      rentals[r].payment.authorized = rentals[r].pricing.deposit

\* Nothing stays held for a rental that is over: its payment is captured, released, or never
\* authorized anything.  No later transaction, webhook or retry may disturb that.
NothingHeldAtTheEnd ==
  \A r \in DOMAIN rentals :
    rentals[r].state \in TerminalStates =>
      \/ rentals[r].payment.status \in {"NONE", "CAPTURED", "RELEASED"}
      \/ rentals[r].payment.status = "FAILED" /\ rentals[r].payment.authorized = 0

\* The whole deposit is only ever forfeited for a battery still out LossGrace hours after the
\* deadline (overdueLossEligible), however returns, retries and the job interleave.
ForfeitOnlyWhenLate ==
  \A r \in DOMAIN rentals :
    rentals[r].state = "LOST" =>
      /\ rentals[r].returnedAt = Never
      /\ now + rentals[r].simulated >= Deadline(rentals[r]) + LossGrace

\* A customer has one rental at a time, stuck ones (ERROR) included: OPEN_STATES.
OneRentalPerCustomer ==
  \A q, r \in DOMAIN rentals :
    ( /\ rentals[q].customer = rentals[r].customer
      /\ Edges[rentals[q].state] # {} /\ Edges[rentals[r].state] # {} ) => q = r

\* A state without outgoing edge is final (state-machine.ts), on both stores.
TerminalIsFinal ==
  [][\A r \in DOMAIN rentals :
       Edges[rentals[r].state] = {} => r \in DOMAIN rentals' /\ rentals'[r].state = rentals[r].state]_vars

\* What happened physically is written once: the battery a rental got, when it left, and once
\* returned where, when and at what price; a second detection or declaration of the return, a
\* retry or a late webhook never changes it.
HistoryWrittenOnce ==
  [][\A r \in DOMAIN rentals :
       /\ rentals[r].battery # None =>
            /\ rentals'[r].battery = rentals[r].battery
            /\ rentals'[r].startedAt = rentals[r].startedAt
       /\ rentals[r].returnedAt # Never =>
            /\ rentals'[r].returnedAt = rentals[r].returnedAt
            /\ rentals'[r].returnStation = rentals[r].returnStation
            /\ rentals'[r].amount = rentals[r].amount]_vars
=============================================================================
