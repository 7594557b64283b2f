-------------------------- MODULE StripeCoordinator --------------------------
(***************************************************************************)
(* StripeRentalCoordinator (src/core/stripe-coordinator.ts): what happens  *)
(* BETWEEN the transactions of RentalTransactions.  A request is a process *)
(* that awaits one thing at a time: a repository transaction, a call to    *)
(* Stripe, or a command to the cabinet.  Each step below is the code from  *)
(* one await to the next, so any other request, a Stripe event or a crash  *)
(* of the server may come between two of them.                             *)
(*                                                                         *)
(* A transaction that throws (its own guards, or the gate of the database) *)
(* changes nothing and takes the request to its catch clause: "Attempt".   *)
(***************************************************************************)
EXTENDS RentalTransactions

CONSTANTS
  Requests,     \* requests the server handles at the same time
  Ejector,      \* whether a real cabinet ejects (AsyncBatteryEjector)
  Lossy,        \* whether an answer of Stripe may be lost
  Crashes,      \* how many times the server may lose its running requests
  RefundAmounts, \* amounts the finance desk refunds
  BankCancels   \* whether Stripe may end a hold by itself (expiry, dashboard)

ASSUME CoordinatorAssumption ==
  /\ Ejector \in BOOLEAN /\ Lossy \in BOOLEAN /\ BankCancels \in BOOLEAN
  /\ Crashes \in Nat /\ RefundAmounts \subseteq Nat \ {0} /\ Modes = {"stripe"}
\* The events carry what Stripe holds, takes and refunds: no more than a deposit.
ASSUME AmountsAssumption == \A g \in Pricings : 0..g.deposit \subseteq WebhookAmounts

VARIABLES
  request,   \* what each request is about to do
  intent,    \* the PaymentIntents at Stripe, by rental
  events,    \* the Stripe events emitted so far: any of them may be delivered, again
  gone,      \* the batteries that physically left a cabinet for each rental
  crashes    \* crashes so far

core == vars
outside == <<intent, events, gone>>
allVars == <<vars, request, intent, events, gone, crashes>>

Idle == [step |-> "idle", rental |-> None, battery |-> None, cents |-> 0]
Steps == {"idle", "intent", "attach", "refuse", "check", "authorize", "activate", "claim",
          "choose", "pop", "record", "uncertain", "giveback", "failed", "unknown",
          "cancel", "cancelled", "abandon", "abandoned", "settle", "capture", "captured", "complete",
          "forfeit", "lost", "undo", "undone", "refund", "refunded"}
Request == [step : Steps, rental : RentalIds \cup {None}, battery : Batteries \cup {None}, cents : Nat]

\* "secret": the browser has the client secret, so the customer may put a card on the intent;
\* "keys": the amounts already refunded under this server's idempotency keys.
Intent == [status : {"none", "requires_payment_method", "requires_capture", "succeeded", "canceled"},
           secret : BOOLEAN, taken : Nat, refunded : Nat, keys : SUBSET Nat]
NoIntent == [status |-> "none", secret |-> FALSE, taken |-> 0, refunded |-> 0, keys |-> {}]

Event(kind, r, cents) == [kind |-> kind, rental |-> r, cents |-> cents]

CoordinatorTypeOK ==
  /\ TypeOK
  /\ request \in [Requests -> Request]
  /\ intent \in [RentalIds -> Intent]
  /\ events \subseteq [kind : {"capturable", "succeeded", "canceled", "failed", "refunded"},
                       rental : RentalIds, cents : Nat]
  /\ gone \in [RentalIds -> SUBSET Batteries]
  /\ crashes \in 0..Crashes

CoordinatorInit ==
  /\ Init
  /\ request = [p \in Requests |-> Idle]
  /\ intent = [r \in RentalIds |-> NoIntent]
  /\ events = {}
  /\ gone = [r \in RentalIds |-> {}]
  /\ crashes = 0

-----------------------------------------------------------------------------
(* A request's next step; what an await may give back.                     *)

At(p, step) == request[p].step = step
Begun(p, step, r) == request' = [request EXCEPT ![p] = [Idle EXCEPT !.step = step, !.rental = r]]
Goto(p, step) == request' = [request EXCEPT ![p] =
                               IF step = "idle" THEN Idle ELSE [@ EXCEPT !.step = step]]

\* One repository transaction: it commits, or throws and leaves everything as it was.
Attempt(p, Tx, done, thrown) ==
  /\ \/ Tx /\ Goto(p, done)
     \/ ~ENABLED Tx /\ UNCHANGED core /\ Goto(p, thrown)
  /\ UNCHANGED <<outside, crashes>>

Status(r) == intent[r].status
SetIntent(r, status) == intent' = [intent EXCEPT ![r].status = status]
Emit(e) == events' = events \cup {e}

\* A call that has its effect at Stripe when it is possible, or is refused; the answer is "done", or
\* an error: refused, never received by Stripe, or executed with the answer lost.
Call(p, possible, refused, Effect, done, failed) ==
  /\ \/ possible /\ Effect /\ Goto(p, done)
     \/ Lossy /\ possible /\ Effect /\ Goto(p, failed)
     \/ (Lossy \/ refused) /\ UNCHANGED <<intent, events>> /\ Goto(p, failed)
  /\ UNCHANGED <<core, gone, crashes>>

\* Cancelling again replays the answer kept under the idempotency key, for a day; then it is refused.
Unsettled(r)   == Status(r) \in {"requires_payment_method", "requires_capture"}
Cancellable(r) == Unsettled(r) \/ Status(r) = "canceled"
Cancel(r) ==
  IF Status(r) = "canceled" THEN UNCHANGED <<intent, events>>
  ELSE SetIntent(r, "canceled") /\ Emit(Event("canceled", r, 0))
\* So does capturing the same amount again.
Capturable(r, cents) ==
  Status(r) = "requires_capture" \/ (Status(r) = "succeeded" /\ intent[r].taken = cents)
Capture(r, cents) ==
  IF Status(r) = "succeeded" THEN UNCHANGED <<intent, events>>
  ELSE /\ intent' = [intent EXCEPT ![r].status = "succeeded", ![r].taken = cents]
       /\ Emit(Event("succeeded", r, cents))

Referenced(r) == HasPayment(rentals[r]) /\ rentals[r].payment.provider = "stripe"
                   /\ Status(r) # "none"

-----------------------------------------------------------------------------
(* begin: create the rental and its intent.  Its first step, expireStale for *)
(* this customer, is the Expire request below: it may come just before.      *)

Begin(p, r, c, s) ==
  /\ At(p, "idle")
  /\ \/ Create(r, c, s)
     \/ /\ r \in DOMAIN rentals /\ IsOpen(rentals[r])
        /\ rentals[r].customer = c /\ rentals[r].station = s
        /\ UNCHANGED core
  /\ IF rentals'[r].state = "CREATED" THEN Begun(p, "intent", r) ELSE UNCHANGED request
  /\ UNCHANGED <<outside, crashes>>

BeginIntent(p, r) ==
  /\ At(p, "intent")
  /\ \/ /\ Referenced(r)          \* retrieve the intent of an earlier begin
        /\ \/ intent' = [intent EXCEPT ![r].secret = TRUE] /\ Goto(p, "idle")
           \/ Lossy /\ UNCHANGED intent /\ Goto(p, "refuse")
        /\ UNCHANGED <<core, events, gone, crashes>>
     \/ /\ ~Referenced(r)
        /\ Call(p, TRUE, FALSE,
                /\ IF Status(r) = "none" THEN SetIntent(r, "requires_payment_method") ELSE UNCHANGED intent
                /\ UNCHANGED events,
                "attach", "refuse")

BeginAttach(p, r) ==
  /\ At(p, "attach")
  /\ \/ /\ AttachPayment(r)
        /\ intent' = [intent EXCEPT ![r].secret = TRUE]
        /\ Goto(p, "idle")
     \/ /\ ~ENABLED AttachPayment(r)
        /\ UNCHANGED <<core, intent>>
        /\ Goto(p, "refuse")
  /\ UNCHANGED <<events, gone, crashes>>

Refuse(p, r) == At(p, "refuse") /\ Attempt(p, PaymentFailed(r), "idle", "idle")

-----------------------------------------------------------------------------
(* confirm: read the intent back, authorize, make the battery leave.       *)

Confirm(p, r) ==
  /\ At(p, "idle")
  /\ rentals[r].state = "CREATED" /\ Referenced(r)
  /\ Begun(p, "check", r)
  /\ UNCHANGED <<core, outside, crashes>>

\* Mutant: any intent that was not cancelled passes for a held deposit.
ConfirmCheckLenient(p, r) ==
  /\ At(p, "check")
  /\ Goto(p, IF Status(r) = "canceled" THEN "refuse" ELSE "authorize")
  /\ UNCHANGED <<core, outside, crashes>>
ConfirmCheck(p, r) ==
  /\ At(p, "check")
  /\ Goto(p, CASE Status(r) = "requires_capture" -> "authorize"
               [] Status(r) = "canceled" -> "refuse"
               [] OTHER -> "idle")
  /\ UNCHANGED <<core, outside, crashes>>

ConfirmAuthorize(p, r) ==
  At(p, "authorize") /\ Attempt(p, Authorize(r), IF Ejector THEN "claim" ELSE "activate", "idle")

\* No ejector: the battery is out as soon as the transaction commits.
Activate(p, r) ==
  /\ At(p, "activate")
  /\ \/ /\ EjectAndActivate(r, now)
        /\ gone' = [gone EXCEPT ![r] = @ \cup {rentals'[r].battery}]
        /\ Goto(p, "idle")
     \/ /\ ~ENABLED EjectAndActivate(r, now)
        /\ UNCHANGED <<core, gone>>
        /\ Goto(p, "giveback")
  /\ UNCHANGED <<intent, events, crashes>>

Claim(p, r) == At(p, "claim") /\ Attempt(p, ClaimEjection(r), "choose", "idle")

Present(b) == \A q \in DOMAIN rentals : b \in gone[q] => rentals[q].returnedAt # Never
\* ejectBatteryAsync: a battery both the database and the cabinet show at this station...
Choose(p, r) ==
  LET candidates == {b \in Batteries : Present(b) /\
                       \E x \in AvailableAt(rentals[r].station) : slots[x] = b} IN
  /\ At(p, "choose")
  /\ \/ \E b \in candidates :
          request' = [request EXCEPT ![p].step = "pop", ![p].battery = b]
     \/ (Lossy \/ candidates = {}) /\ Goto(p, "giveback")
  /\ UNCHANGED <<core, outside, crashes>>
\* ... is popped: it leaves and is seen gone, or refused, or nobody knows.  Popping the slot of a
\* battery another request has just taken looks like a success.
Pop(p, r) ==
  LET b == request[p].battery IN
  /\ At(p, "pop")
  /\ \/ /\ Present(b)
        /\ gone' = [gone EXCEPT ![r] = @ \cup {b}]
        /\ \/ Goto(p, "record")
           \/ Lossy /\ Goto(p, "uncertain")
     \/ /\ ~Present(b)
        /\ UNCHANGED gone
        /\ Goto(p, "record")
     \/ /\ UNCHANGED gone
        /\ \/ Goto(p, "giveback")
           \/ Lossy /\ Goto(p, "uncertain")
  /\ UNCHANGED <<core, intent, events, crashes>>

Record(p, r) ==
  At(p, "record") /\ Attempt(p, RecordEjected(r, request[p].battery, now), "idle", "giveback")
Uncertain(p, r) == At(p, "uncertain") /\ Attempt(p, EjectionUncertain(r), "idle", "idle")

\* handleEjectionError: release first, then fail the rental; a failed release is an unknown payment.
GiveBack(p, r) == At(p, "giveback") /\ Call(p, Cancellable(r), ~Unsettled(r), Cancel(r), "failed", "unknown")
Failed(p, r)  == At(p, "failed") /\ Attempt(p, FailAndRelease(r), "idle", "idle")
Unknown(p, r) == At(p, "unknown") /\ Attempt(p, PaymentUnknown(r), "idle", "idle")

-----------------------------------------------------------------------------
(* abandon and expireStale: cancel the intent first.                       *)

\* Mutant: only a rental that got as far as its intent can be given up.
StopWithIntent(p, r, cancel, commit) ==
  /\ At(p, "idle")
  /\ rentals[r].state = "CREATED" /\ Referenced(r)
  /\ Begun(p, cancel, r)
  /\ UNCHANGED <<core, outside, crashes>>
Stop(p, r, cancel, commit) ==
  /\ At(p, "idle")
  /\ rentals[r].state = "CREATED"
  /\ Begun(p, IF Referenced(r) THEN cancel ELSE commit, r)
  /\ UNCHANGED <<core, outside, crashes>>
Abandon(p, r) == Stop(p, r, "abandon", "abandoned")
Expiry(p, r)  == Stop(p, r, "cancel", "cancelled")

\* Mutant: the rental is closed although the release failed.
ReleaseBestEffort(p, r, step, commit) ==
  /\ At(p, step)
  /\ \/ Unsettled(r) /\ Cancel(r)
     \/ UNCHANGED <<intent, events>>
  /\ Goto(p, commit)
  /\ UNCHANGED <<core, gone, crashes>>
\* releaseIntent: an intent that is read back as cancelled was released, whatever cancel answered.
Release(p, r, step, commit) ==
  /\ At(p, step)
  /\ \/ Unsettled(r) /\ Cancel(r) /\ Goto(p, commit)
     \/ Status(r) = "canceled" /\ UNCHANGED <<intent, events>> /\ Goto(p, commit)
     \/ Lossy /\ Unsettled(r) /\ Cancel(r) /\ Goto(p, "idle")
     \/ (Lossy \/ ~Cancellable(r)) /\ UNCHANGED <<intent, events>> /\ Goto(p, "idle")
  /\ UNCHANGED <<core, gone, crashes>>
AbandonRelease(p, r) == Release(p, r, "abandon", "abandoned")
ExpiryRelease(p, r)  == Release(p, r, "cancel", "cancelled")
AbandonCommit(p, r)  == At(p, "abandoned") /\ Attempt(p, Expire(r, "CANCELLED"), "idle", "idle")
ExpiryCommit(p, r)   == At(p, "cancelled") /\ Attempt(p, Expire(r, "EXPIRED"), "idle", "idle")

-----------------------------------------------------------------------------
(* return: the battery first, then the money.                              *)

ReturnBattery(p, r, s, detected) ==
  /\ At(p, "idle")
  /\ Return(r, s, now, detected)
  /\ IF rentals'[r].state = "COMPLETED" THEN UNCHANGED request ELSE Begun(p, "settle", r)
  /\ UNCHANGED <<outside, crashes>>
Settle(p, r) ==
  /\ At(p, "settle")
  /\ Goto(p, IF rentals[r].payment.status = "CAPTURED" THEN "complete" ELSE "capture")
  /\ UNCHANGED <<core, outside, crashes>>
\* Mutant: an error of the capture call is taken for a success.
CaptureDueOptimistic(p, r) ==
  LET due == rentals[r].amount IN
  /\ At(p, "capture")
  /\ Call(p, Capturable(r, due), Status(r) # "requires_capture", Capture(r, due), "captured", "captured")
\* Mutant: the whole hold is captured, the customer being refunded later.
CaptureDueWhole(p, r) ==
  LET due == rentals[r].pricing.deposit IN
  /\ At(p, "capture")
  /\ Call(p, Capturable(r, due), Status(r) # "requires_capture", Capture(r, due), "captured", "unknown")
CaptureDue(p, r) ==
  LET due == rentals[r].amount IN
  /\ At(p, "capture")
  /\ Call(p, Capturable(r, due), Status(r) # "requires_capture", Capture(r, due), "captured", "unknown")
RecordCapture(p, r) == At(p, "captured") /\ Attempt(p, PaymentCaptured(r), "idle", "idle")
CompleteReturn(p, r) == At(p, "complete") /\ Attempt(p, CompleteSettlement(r), "idle", "idle")

-----------------------------------------------------------------------------
(* captureOverdueLoss, called by the job for the rentals it reads as lost. *)

Loss(p, r) ==
  LET payment == rentals[r].payment IN
  /\ At(p, "idle")
  /\ LossEligible(rentals[r], now) /\ Referenced(r)
  /\ request' = [request EXCEPT ![p] =
       [Idle EXCEPT !.step = IF payment.status = "CAPTURED" THEN "lost" ELSE "forfeit", !.rental = r,
                    !.cents = IF payment.status = "CAPTURED" THEN payment.captured
                              ELSE rentals[r].pricing.deposit]]
  /\ UNCHANGED <<core, outside, crashes>>
Forfeit(p, r) ==
  LET deposit == request[p].cents IN
  /\ At(p, "forfeit")
  /\ Call(p, Capturable(r, deposit), Status(r) # "requires_capture", Capture(r, deposit), "lost", "unknown")
RecordLoss(p, r) == At(p, "lost") /\ Attempt(p, DepositLost(r, request[p].cents, now), "idle", "idle")

-----------------------------------------------------------------------------
(* An operator closes an uncertain ejection, after looking at the cabinet. *)

CloseEjected(p, r, b) ==
  /\ At(p, "idle")
  /\ b \in gone[r]
  /\ ResolveEjected(r, b, now)
  /\ UNCHANGED <<request, outside, crashes>>
CloseNotEjected(p, r) ==
  /\ At(p, "idle")
  /\ gone[r] = {}
  /\ rentals[r].physicalState = "UNKNOWN" /\ Referenced(r)
  /\ Begun(p, "undo", r)
  /\ UNCHANGED <<core, outside, crashes>>
Undo(p, r)   == At(p, "undo") /\ Call(p, Cancellable(r), ~Unsettled(r), Cancel(r), "undone", "unknown")
Undone(p, r) == At(p, "undone") /\ Attempt(p, ResolveNotEjected(r), "idle", "idle")

-----------------------------------------------------------------------------
(* refund, and the refunds the finance desk makes at Stripe directly.      *)

RefundStart(p, r, cents) ==
  /\ At(p, "idle")
  /\ Referenced(r) /\ rentals[r].payment.status = "CAPTURED"
  /\ request' = [request EXCEPT ![p] = [Idle EXCEPT !.step = "refund", !.rental = r, !.cents = cents]]
  /\ UNCHANGED <<core, outside, crashes>>
Refundable(r, cents) == Status(r) = "succeeded" /\ intent[r].refunded + cents <= intent[r].taken
GiveMoneyBack(r, cents, keys) ==
  /\ intent' = [intent EXCEPT ![r].refunded = @ + cents, ![r].keys = keys]
  /\ Emit(Event("refunded", r, intent[r].refunded + cents))
\* A second refund of the same amount replays the answer of the first.
RefundCall(p, r) ==
  LET cents == request[p].cents
      keys  == intent[r].keys
  IN
  /\ At(p, "refund")
  /\ Call(p, cents \in keys \/ Refundable(r, cents), ~Refundable(r, cents),
          IF cents \in keys THEN UNCHANGED <<intent, events>>
          ELSE GiveMoneyBack(r, cents, keys \cup {cents}),
          "refunded", "idle")
DashboardRefund(r, cents) ==
  /\ Refundable(r, cents)
  /\ GiveMoneyBack(r, cents, intent[r].keys)
  /\ UNCHANGED <<core, request, gone, crashes>>
RefundRecord(p, r) == At(p, "refunded") /\ Attempt(p, Refund(r, request[p].cents), "idle", "idle")

-----------------------------------------------------------------------------
(* Stripe, the customer's card, the bank, and the rest of the server.      *)

CardAccepted(r) ==
  /\ Status(r) = "requires_payment_method" /\ intent[r].secret
  /\ SetIntent(r, "requires_capture")
  /\ Emit(Event("capturable", r, rentals[r].pricing.deposit))
  /\ UNCHANGED <<core, request, gone, crashes>>
CardRefused(r) ==
  /\ Status(r) = "requires_payment_method" /\ intent[r].secret
  /\ Emit(Event("failed", r, 0))
  /\ UNCHANGED <<core, request, intent, gone, crashes>>
HoldEnds(r) ==
  /\ BankCancels /\ Status(r) = "requires_capture"
  /\ SetIntent(r, "canceled") /\ Emit(Event("canceled", r, 0))
  /\ UNCHANGED <<core, request, gone, crashes>>

\* An event is delivered late, twice or before an earlier one; one that is never delivered is lost.
Deliver(e) ==
  LET r == e.rental IN
  /\ \/ e.kind = "capturable" /\ WebhookCapturable(r, e.cents)
     \/ e.kind = "succeeded"  /\ WebhookSucceeded(r, e.cents)
     \/ e.kind = "canceled"   /\ WebhookCanceled(r)
     \/ e.kind = "failed"     /\ WebhookFailed(r)
     \/ e.kind = "refunded"   /\ WebhookRefunded(r, e.cents)
  /\ UNCHANGED <<request, outside, crashes>>

Crash ==
  /\ crashes < Crashes
  /\ \E p \in Requests : ~At(p, "idle")
  /\ request' = [p \in Requests |-> Idle]
  /\ crashes' = crashes + 1
  /\ UNCHANGED <<core, outside>>

Background ==
  /\ \/ RefreshOverdue \/ Tick
     \/ \E b \in Batteries, s \in Stations : Present(b) /\ (OutOfService(b) \/ BackInService(b, s))
  /\ UNCHANGED <<request, outside, crashes>>

-----------------------------------------------------------------------------
\* The operator's dialogs.  A battery is picked among those the page shows available at the station
\* of the rental; the most that can be refunded is what the page showed, perhaps before another refund.
ResolveEjectionAction(p, r) ==
  \/ \E x \in AvailableAt(rentals[r].station) : CloseEjected(p, r, slots[x])
  \/ CloseNotEjected(p, r)
RefundAction(p, r) ==
  \E cents \in RefundAmounts : cents <= rentals[r].payment.captured /\ RefundStart(p, r, cents)

Arrive(p) ==
  \/ \E r \in RentalIds, c \in Customers, s \in Stations : Begin(p, r, c, s)
  \/ \E r \in DOMAIN rentals :
       \/ Confirm(p, r) \/ Abandon(p, r) \/ Expiry(p, r) \/ Loss(p, r)
       \/ ResolveEjectionAction(p, r) \/ RefundAction(p, r)
       \/ \E s \in Stations, detected \in BOOLEAN : ReturnBattery(p, r, s, detected)
Continue(p) ==
  LET r == request[p].rental IN
  \/ BeginIntent(p, r) \/ BeginAttach(p, r) \/ Refuse(p, r)
  \/ ConfirmCheck(p, r) \/ ConfirmAuthorize(p, r) \/ Activate(p, r)
  \/ Claim(p, r) \/ Choose(p, r) \/ Pop(p, r) \/ Record(p, r) \/ Uncertain(p, r)
  \/ GiveBack(p, r) \/ Failed(p, r) \/ Unknown(p, r)
  \/ AbandonRelease(p, r) \/ ExpiryRelease(p, r) \/ AbandonCommit(p, r) \/ ExpiryCommit(p, r)
  \/ Settle(p, r) \/ CaptureDue(p, r) \/ RecordCapture(p, r) \/ CompleteReturn(p, r)
  \/ Forfeit(p, r) \/ RecordLoss(p, r) \/ Undo(p, r) \/ Undone(p, r)
  \/ RefundCall(p, r) \/ RefundRecord(p, r)
StripeSide ==
  \/ \E r \in DOMAIN rentals : CardAccepted(r) \/ CardRefused(r) \/ HoldEnds(r)
  \/ \E r \in DOMAIN rentals, cents \in RefundAmounts : DashboardRefund(r, cents)
  \/ \E e \in events : Deliver(e)

CoordinatorNext ==
  \/ \E p \in Requests : Arrive(p) \/ Continue(p)
  \/ StripeSide \/ Crash \/ Background

CoordinatorSpec == CoordinatorInit /\ [][CoordinatorNext]_allVars
-----------------------------------------------------------------------------
(* Fairness: a request that is running goes on (it is one asynchronous     *)
(* function); the expiry job comes back (every day, and at every visit) and *)
(* Stripe does not fail for ever.                                          *)

Expiring(p, r) == r \in DOMAIN rentals /\ Expiry(p, r)
Released(p, r) == ExpiryRelease(p, r) /\ At(p, "cancel") /\ request'[p].step = "cancelled"

FairCoordinatorSpec ==
  /\ CoordinatorSpec
  /\ \A p \in Requests :
       /\ WF_allVars(Continue(p))
       /\ \A r \in RentalIds : SF_allVars(Expiring(p, r)) /\ SF_allVars(request[p].rental = r /\ Released(p, r))

-----------------------------------------------------------------------------
(* Properties.                                                             *)

\* A battery leaves a cabinet only while Stripe holds this rental's deposit (confirm: the intent
\* "must genuinely hold this rental's exact deposit before a single battery is released").
HeldWhenBatteryLeaves ==
  [][\A r \in RentalIds : gone'[r] # gone[r] => Status(r) = "requires_capture"]_allVars

\* What the database says was captured is what Stripe took: lost answers, crashes, replays under
\* an idempotency key and late events all lead to the same amount.
CapturesTrue ==
  \A r \in DOMAIN rentals :
    LET p == rentals[r].payment IN
    p.status = "CAPTURED" => Status(r) = "succeeded" /\ p.captured = intent[r].taken

\* What the database says was released is held no more.
ReleasesTrue ==
  \A r \in DOMAIN rentals :
    rentals[r].payment.status = "RELEASED" => Status(r) = "canceled"

\* No deposit stays held at Stripe behind a rental that was given up (expireStale: the intent is
\* cancelled first, "so a card confirmed a moment too late cannot be charged for a rental that no
\* longer exists"; handleEjectionError: no "still-authorized deposit behind a rental that looks
\* fully closed out").
NothingStranded ==
  \A r \in DOMAIN rentals :
    rentals[r].state \in {"EJECTION_FAILED", "EXPIRED", "CANCELLED"} => Status(r) # "requires_capture"

\* A rental refused for its payment holds nothing either (begin: a replay "finds the same rental
\* and the same intent").
RefusedHoldsNothing ==
  \A r \in DOMAIN rentals : rentals[r].state = "PAYMENT_FAILED" => Status(r) # "requires_capture"

\* A card refused first does not stop the next one: a deposit that is held can be confirmed
\* (confirm: anything short of it "leaves the rental CREATED so the customer can try another card").
AnotherCardWorks ==
  \A r \in DOMAIN rentals :
    (rentals[r].state = "CREATED" /\ HasPayment(rentals[r]) /\ Status(r) = "requires_capture")
      => ENABLED Authorize(r)

\* A rental closed as "no battery left" had none leave (activate: never "fail the rental and release
\* a deposit the customer had earned the battery with").
FailedMeansNoBattery ==
  \A r \in DOMAIN rentals : rentals[r].state = "EJECTION_FAILED" => gone[r] = {}

\* However many times a start is submitted, one rental makes at most one battery leave (activate:
\* who does not get the claim backs off instead of "ejecting a second battery").
OneBatteryPerRental == \A r \in RentalIds : \A a, b \in gone[r] : a = b

\* Once the battery is back, Stripe takes the price and never the whole deposit
\* (markDepositLost: "elle a ete restituee entre-temps").
PriceOnceBack ==
  [][\A r \in DOMAIN rentals :
       (Status(r) # "succeeded" /\ intent'[r].status = "succeeded" /\ rentals[r].returnedAt # Never)
         => intent'[r].taken = rentals[r].amount]_allVars

\* What Stripe took is due: the price of a battery that came back, or the whole deposit of one that was
\* still out the grace time after its deadline (captureOverdueLoss), even when the return, the loss job,
\* an expired hold and lost answers cross.
TakenIsDue ==
  \A r \in DOMAIN rentals :
    Status(r) = "succeeded" =>
      \/ rentals[r].returnedAt # Never /\ intent[r].taken = rentals[r].amount
      \/ /\ intent[r].taken = rentals[r].pricing.deposit
         /\ rentals[r].startedAt # Never
         /\ now + rentals[r].simulated >= Deadline(rentals[r]) + LossGrace

\* The loss job may be replayed after Stripe took the deposit (markDepositLost: "un rejeu apres
\* capture reussie ne fait rien").
LossReplayAccepted ==
  \A r \in DOMAIN rentals :
    (LossEligible(rentals[r], now) /\ intent[r].taken = rentals[r].pricing.deposit)
      => ENABLED DepositLost(r, intent[r].taken, now)

\* The refunds on record were made (applyStripeWebhook: the running total "stays right whether the
\* refund came from BATYEO or straight from the Stripe dashboard").
RefundsTrue == \A r \in DOMAIN rentals : rentals[r].payment.refunded <= intent[r].refunded

\* The states payment-state.ts leaves without a way out are final.
SettledPaymentFinal ==
  [][\A r \in DOMAIN rentals :
       rentals[r].payment.status \in {"CAPTURED", "RELEASED"} =>
         rentals'[r].payment.status = rentals[r].payment.status]_allVars

\* A card that is never confirmed does not hold a customer hostage: the rental is freed.
Unpaid(r) == r \in DOMAIN rentals /\ rentals[r].state = "CREATED"
NotHostage == \A r \in RentalIds : Unpaid(r) ~> ~Unpaid(r)
=============================================================================
