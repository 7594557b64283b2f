# BATYEO: a formal model of the rental, its deposit, its battery and its stations

BATYEO rents power banks from cabinets placed in shops. A customer scans a cabinet, puts a
deposit on a card, a battery leaves, and it is returned later to any cabinet; the price is taken
from the deposit and the rest is given back. Two things must agree at all times although they
live in three places (BATYEO's database, Stripe, the cabinet): **who has the battery** and
**what is held, taken or given back of the deposit**. Around that agreement stand the parts that
could break it unnoticed: the store every write goes through, the jobs of the night, the mirror of
the cabinets, the logins of the back office and its forms, the screens of the stations, and the
page and the application of the customer. Each has a module here.

## 1. The system

### Components, their state and their operations

| Component (source) | State it keeps | Operations | What makes it correct |
|---|---|---|---|
| Rental engine (`core/rental.ts`, `state-machine.ts`, `pricing.ts`) | rental rows, payment rows | create, authorize, eject, return, settle, refund, expire, overdue sweep, loss | exact deposit before a battery leaves; history written once; finished is final; nothing held at the end |
| Commit gate (`core/invariants.ts`, `prisma/migrations`) | none: a predicate on the whole database | accepts or refuses a transaction | a battery is in one place; one open rental per customer |
| Mock providers (`core/providers.ts`) | slots, battery status, station flags | eject, return, set online, simulate failure | RENTED exactly while a rental has it out |
| Stripe coordinator (`core/stripe-coordinator.ts`, `stripe.ts`) | none between awaits; Stripe keeps the intents | begin, confirm, abandon, expireStale, return, captureOverdueLoss, refund, resolutions, webhook projection | the database agrees with Stripe; no deposit stranded; one battery per rental |
| Cabinet ejector (`core/manufacturer.ts`) | the cabinet | choose, pop, see it gone | an uncertain ejection is never retried blindly |
| Manufacturer sync (`core/manufacturer-sync.ts`) | links, snapshots, run lock | run, detect returns, mirror, link, move | a return is detected when real, and noticed; the mirror converges |
| Station administration (`core/station-admin.ts`) | stations, venues, slots, partners | create, relocate, transfer, block, archive, battery service | a battery a customer has is left alone; rows stay in their tenant |
| Back office (`server/http.ts`, `components/batyeo/portal.tsx`) | venues, stations, commissions, tickets; the dashboard a page shows | forms, refresh, statements | a partner reaches its own rows only; the page catches up |
| Accounts (`core/accounts.ts`, `totp.ts`, `security.ts`) | users, sessions, second factor | login, disable, password, second factor, team | a code opens one session; a disabled account has none; somebody can always manage |
| Enrolment and station runtime (`core/enrollment.ts`, `runtime-access.ts`, `station-runtime.ts`, `queries.ts`) | tokens, credentials, versioned settings, the queue of the runtime | enrol, rotate, revoke, poll, apply, restart | one runtime per station; every write reaches the screen; versions never go back |
| Venue screens (`core/screen.ts`, `app/kiosk`, `kiosk-poster.tsx`) | branding, promotions, playlist; slides, timers, language | edit, fetch, turn, touch | a promotion on its hours; a language on offer; the code comes back |
| Customer page and application (`rental.tsx`, `mobile/`) | idempotency key, pending key, session | start, pay, return, cancel, resume, hand off | no second rental before the first was seen |
| Notices (`core/notifications.ts`, `mailer.ts`) | notice events | plan, send, record | a day's warning before a loss |
| Webhook ledger (`server/http.ts`, `core/retention.ts`) | webhook events | receive, retry, purge | an acknowledged event is applied |
| Repository (`infrastructure/`) | the rows, a revision | transaction | every transaction is atomic and told truly |
| Kiosk watchdog and Android application (`runtime/`) | crash counters | restart, reconnect | not modelled |
| Reports, texts, widgets | none | views | not modelled: they change no state |

### How they interact

Every route of `server/http.ts` reaches the state through `repository.transaction`, which is
atomic (a locked row on PostgreSQL, compare-and-swap on D1: module `Store`) and refuses a result
that `validateData`, or on PostgreSQL a constraint or trigger, rejects. The coordinator never calls
Stripe or a cabinet inside a transaction: it reads, awaits, and commits again. Stripe answers
through the return value of a call, and again later, any number of times and in any order,
through `stripe/webhook`. The cron route and every visit of the site run the overdue sweep, the
expiry of unpaid rentals, the notices and the loss captures. Cabinets are read by synchronisations
that the cron, the manufacturer's webhook and the operators start. Pages, screens and phones poll:
what they show, and what their forms start from, is always a copy that may be old. So the hard
behaviours are what happens *between* two steps of one request: another request for the same
rental, a Stripe event, an expiry, a crash, an answer that is lost or overtaken.

## 2. Modules

| Module | Role |
|---|---|
| `RentalEngine` | Pure operators: the states, `calculatePrice`, and every method of the engine as `CanX` (does not throw) and `X` (what it leaves) |
| `RentalTransactions` | The state machine of the database: one action per transaction, each ending in the gate `Commit` |
| `StripeCoordinator` | Requests as processes that go from await to await over `RentalTransactions`, with Stripe, the cabinet, events, lost answers and crashes |
| `CabinetSync` | Synchronisations as processes against real cabinets, links and the inventory mirror |
| `Accounts` | Logins, sessions, second factor, and the forms and scripts that change them |
| `StationScreens` | Settings of a station, enrolment of its runtime, delivery of its configuration |
| `BackOffice`, `Portal` | The rows the back office administers and its routes; the pages whose forms call them |
| `VenueScreen` | Branding, promotions and clips of a venue, and the page that turns them |
| `CustomerClient` | The rental page and the application before lost and late answers |
| `AtomicStore` | The abstract port: a transaction is done whole at one instant, or not at all |
| `Store` | The two adapters, which implement it |
| `NightlyJob` | Cron, loss capture, notices and both webhooks, over `Store` |
| `RentalProofs`, `SyncProofs`, `NightlyProofs`, `AccountsProofs`, `ScreensProofs`, `VenueProofs`, `PortalProofs`, `CustomerProofs` | Theorems for every value of the constants |
| `MC...` | Small instances for TLC |

### `RentalEngine`

A rental record carries its payment (the code finds at most one payment per rental;
status `NONE` is "no payment row"). Time is in hours, `None` and `Never` stand for null. The
deadline is derived, as the code writes it together with `startedAt`. Left out because no rule of
the life cycle reads them: `createdAt`, texts and errors, the commission, `disputedAt`, the
idempotency key, `providerReference` (which goes with provider `stripe`).

### `RentalTransactions`

`rentals`, `slots`, `batteries`, `stations`, `grid`, `mode`, `now` are the rows of the same
names, the deployment's payment mode and the clock. A transaction that throws changes nothing,
so it is a stutter in this module. `Commit` is the primed gate: `ValidData` (validateData) and on
PostgreSQL also `SqlChecks` and the trigger `TerminalRowsImmutable`; the preview store (`Store =
"d1"`) has validateData alone. A request commits with the clock reading it took when it started
(`Clock`, at most `MaxLag` old). `WebhookAmounts` are whatever amounts an event may carry,
including wrong ones; under `StripeCoordinator`, whose events are Stripe's, they hold at least every
amount up to a deposit (`AmountsAssumption`). `MirrorCabinet` takes any reading a cabinet may give that the code does not
refuse. A battery not seen yet is modelled as `MISSING`; slots are not added or removed.

Two simplifications rest on the gate: recording a battery for a rental that is already ACTIVE, and
ejecting where `cappedAvailability` shows fewer, are refusals and therefore need no action.

### `StripeCoordinator`

A request `p` has the record `request[p]`: the step it will take next, its rental, the battery it
chose, the amount it read. Each step is the code from one `await` to the next. `Attempt` is one
repository transaction: it commits, or, exactly when it cannot, throws to the request's catch
clause. `Call` is a Stripe call: done; refused; or, when `Lossy`, lost before or after its effect.
Idempotency keys are modelled by what they do: a repeated cancel, capture or refund answers as
the first one did. `intent` is what Stripe holds, `gone` which batteries physically left for
which rental, `events` the events emitted: any of them may be delivered at any time, again, or
never. `Crash` drops all running requests. Code that is not in the repository (Stripe, the card,
the bank, the cabinet) is modelled from how the source uses it.

Abstractions: the 15 minutes of `STALE_UNCONFIRMED_MS` are not timed, so an unpaid rental may
expire at once; `expireStale` inside `begin` is the separate request `Expiry`; a request's clock
reading is `now`; the intent's amount is the deposit (the code writes it so and checks it back);
the day-old warning before a loss is not required here, which only allows more losses.

`TakenIsDue` is about the capture itself: what Stripe took is the price of a battery that came back,
or the deposit of one that was late enough, whatever crosses it.

The portal's `RefundAction` and `ResolveEjectionAction` say which refunds and resolutions may be
asked for: the resolution of an uncertain ejection by any battery or slot its form offers.

### `CabinetSync`

`cabinets` is the real thing; `links`, `stored`, `slots`, `status`, `online` are what the database
says of it. A request selects links, reads each cabinet over the network (`Read`, `ReadFails`),
stores the reading (`Commit`), closes the rentals whose battery it shows (`CloseRental`) and makes
the slots follow (`Mirror`): separate transactions, so customers, operators replacing or moving a
cabinet, and a second run after the lock has expired act in between. Time is left out: the lock's
ten minutes and the age of a snapshot are choices that may fall at any moment. The one timing
assumption is `Prompt`: a reading is used before the two minutes of `RETURN_SETTLE_MS` are over.
`Faults` bounds what is outside the protocol (a battery taken out or brought in by hand, a crash).
At first a battery is in one place and a station has one cabinet (`CabinetsAssumption`).

### `Accounts`

A login, a change of password, and each step of the second factor verify a hash or a code between
two transactions; such a request has a state with what it read. Other routes check their session
again in their one transaction and are one action. Time is in TOTP steps. `TwoFactorCard`,
`TeamRowActions` and `TeamPanel` are the forms. Random tokens and secrets never repeat.

### `StationScreens`

A stamped write moves the clock, so two writes never share a millisecond and clocks are not skewed
(if they were, the version, a maximum of stamps, could stay the same). `Tick` lets time pass without
a write: the windows of the media (`WindowOf`: `startsAt`, `endsAt`) open and close, and the playlist
a station is served changes with them. A venue has the name and the address its form writes
(`Entries`); `updateVenue` stamps the stations that lose their Location, and nothing when only the
name changes. A runtime's answers arrive
in any order or not at all; it queues and applies them one at a time, writes before it shows
(`Write`, `Written`), and restarts from what is stored. `making` is the Stripe Location being made
between the two halves of `station/stripe-location/create`: the station, or its venue, may move
meanwhile. An operator who types or picks a Location chooses the right one.
Forms act on the dashboard of now, except the pairing dialog, which may be old. Left out:
heartbeats, and `RuntimeEnrollmentRegistry` and `upsertRuntimeCredential`, which no route uses.

### `BackOffice` and `Portal`

`db` has one field per table. A route checks the actor and the tenant inside the transaction that
writes, and one route is one action. In `Portal` a page shows the last dashboard it was given; its
forms offer what that dashboard shows and send what they were filled with, a partner may also call
the routes with a program of its own, and answers may be lost or overtake each other (`reads`). A rental goes as far as a statement tells
apart: GOING, RETURNED (back and priced), then COMPLETED, or ERROR when Stripe could not take the price
(`PaymentFails`) and COMPLETED later; CLOSED is an end without a return, and a lost battery has none.
`Owed` adds what `partnerStatements` counts: RETURNED and COMPLETED, at the rate each rental froze.

### `VenueScreen`

One clock serves the calendar (minutes of a Paris week, without the summer time change) and the
page's timers, which go on when the calendar reaches `MaxTime`. The studio's forms are small sets
that contain windows across midnight and across the week's end. Translations, the maintenance
banner, `branding.updatedAt` and renames are left out.

### `CustomerClient`

The bodies of the routes are one step each (their awaits are `StripeCoordinator`'s); `CLOSED` stands
for failed, cancelled and expired. The page keeps its key from the tap to the end of the rental; the
application keeps the key of an attempt it has not seen answered. Requests may be lost before or
after their effect, and outlive the page or the application that sent them (`gone`): they are served
at any time, also after the next page has loaded. `dropped` notes the keys a device no longer follows:
given up at another rental (`Dropped`), or forgotten by a reload or a relaunch with the request on its
way (`Forgot`). `confirmPayment` asks again until the deposit is held or it gives up: its request waits, or is
refused. A poll is one step (overtaken answers are `Portal`'s); the session's seven days are left out.

### `AtomicStore`, `Store` and `NightlyJob`

`Store` has the steps of the two adapters: on PostgreSQL the `FOR UPDATE` that fixes the snapshot,
the wait for the lock that ends in a serialization failure when the holder committed, the write; on
D1 the snapshot with its callback, and the conditional batch. Both retry a lost race `Attempts`
times, a connection may break with or without commit, and the caller is told. The callbacks are the
parameters `Accepts` and `Mutate`, so the proofs hold for all of them. `StoreIsAtomic` is
`AtomicStore!Spec` under the mapping that shows a transaction as a call.

`NightlyJob` instantiates the callbacks with those of the cron route, the loss route, a return and
the two webhooks, and splits each request at its transactions and mails. Days are the unit of
time, from the deadline on. A job is shorter than a tick (the platform ends it after five
minutes). The cron route sweeps overdue rentals and purges the ledger (`Swept`), the loss route only
sweeps (`RefreshOverdue`). `expireStale`, the synchronisation and the operators' digest of the cron are left out
(other modules, or no state). A refused insert of a duplicate manufacturer event is shown as a
refusal of the store. Captures are the simulated ones; Stripe's, between awaits, are
`StripeCoordinator`'s.

## 3. Runs

| Run (module, configuration) | Instance | What it shows |
|---|---|---|
| `rental_demo` (`MCRental`, `MCDemo`) | 2 rentals, 2 customers, 2 batteries in the 2 slots of a station, preview store, failures `payment` and `timeout`, one grid | custody, one unfinished rental per customer, finished is final, with validateData as the only gate |
| `rental_stripe` (`MCRental`, `MCStripe`) | 1 rental, 2 stations, clock to 3 h, request clocks up to 1 h old, events of 2 or 3 against a deposit of 3 | exact deposit, nothing held at the end, losses only when late, history written once |
| `coord_cabinet` (`MCCoordinator`, `MCCabinet`) | 2 requests, 1 rental, 2 batteries, a real cabinet, clock to 2 h with the deadline at 1 h and the loss due 1 h later, lost answers, 1 crash, refunds, holds ended by the bank | captured in the database is captured at Stripe; one battery per rental; what Stripe took is due, with returns and the loss job crossing |
| `coord_sequential` (`MCCoordinator`, `MCSequential`) | 1 request at a time, 2 rentals, lost answers, 1 crash, demo station, fairness | released is released; nothing stranded; held when the battery leaves; an unpaid rental is always freed |
| `accounts` (`MCAccounts`) | an owner, a demo login and a partner's, 2 requests, 2 tokens, 2 TOTP steps | the second factor stays usable; somebody owns; a session is its account's; a code opens one session |
| `screens` (`MCScreens`) | 1 station, 2 venues of which 1 may change its name or its address, 2 media of which 1 goes off the air, 2 runtimes of which 1 followed, 2 tokens, clock to 4 (2 writes or ticks), 2 answers in flight | one runtime per station; the version covers every write; only late Locations are wrong; never back; catches up |
| `cabinet_sync` (`MCSync`) | 2 stations, 2 cabinets (2 positions and 1), 1 battery, 1 rental, 2 requests, 1 fault | a valid inventory; a return is real; it is noticed; the mirror converges |
| `portal` (`MCPortal`) | an administrator's page and a partner's program, 2 partners, 3 venues, 2 stations, 2 writes | rows stay consistent and in their tenant; what is owed moves with the rentals alone; the page catches up |
| `venue` (`MCVenue`) | weeks of 2 days of 3 minutes, 1 promotion, 1 clip, 3 edits, 1 touch; deadlock checked | right hours, right language, the code comes back |
| `customer` (`MCCustomer`) | 2 rentals, 2 keys, taps without limit, 2 faults (a lost answer, a reload or a relaunch each), with and without cards | by attempts it followed, a device never opens the next rental before it has shown the one before |
| `nightly` (`MCNightly`) | 2 requests, 1 rental, a Stripe and a manufacturer event, 3 runs, 1 fault, both stores, 2 attempts | the store is atomic; no loss without a warning a day old; acknowledged is applied |
| `held_deposit` (`MCCoordinator`, `FindHeld`) | 2 requests, 1 rental | violation: see below |

The bounds: a rental needs one battery, two customers to compete and one slot free to return to;
a second battery matters only where two may leave (`coord_cabinet`); three hours are a rental, a
deadline (1 h), a grace period (1 or 2 h in place of 48) and a return after it; in `coord_cabinet` two
hours are enough for the loss job to take a deposit while another request returns the battery. The prices 1 and 2
under a deposit of 2 or 3 tell the price, the cap and the deposit apart. Two requests are enough
for every pair of steps to overlap; a crash stops all of them. Two stamped writes give a newer and
an older configuration in flight together, or a write and a window that closes; two faults are a reload
with a start on its way and a lost answer after it, and the two rentals of `customer` are the pair the
property is about (`SeenFirst` has any number); two cabinets, one linked at first, give a replacement
and a move; two partners give a foreign tenant; a two-day week has a window across its end; one
fault at any of the places a fault may strike shows what it does. Bounds are named in the modules
(`MaxTime`, `MaxRuns`, `Faults`, ...) and stand in the guards. Where they stop the system, deadlock
is not checked; `VenueScreen` has timers that never stop, and there it is. Identical rentals,
customers, tokens and requests are symmetric, except where liveness is checked.

### Fairness

* `coord_sequential`: a running request goes on (one asynchronous function in one process: weak
  fairness of `Continue`), the expiry comes back for a rental that is unpaid again and again (the
  daily cron and every visit: strong fairness of `Expiring`), and Stripe does not fail the
  cancellation of one intent for ever (strong fairness of `Released`). Customers, cards and events
  have no fairness.
* `screens`: the runtime polls for ever, and its answers and its storage work now and then. Nothing
  is assumed of the back office.
* `cabinet_sync`: one request, which stands for the cron and the visits, comes back for ever; a
  reading of a cabinet on line succeeds now and then, and the mirror is not always too late. The
  other request, customers' batteries and operators have none.
* `portal`: the timer of an open page runs, its requests end, and answers get through now and then.
* `venue`: time passes and the page's timers bring answers.

### Disagreements found

`held_deposit` shows the code doing other than what it says: a confirmation that has read
`requires_capture` is overtaken by a cancellation or an expiry, and the battery leaves with nothing
held. `PROJECT.json` quotes the lines.

The other configurations named `Find...` are diagnostics of the same kind, each with the property it
violates. With `MCCoordinator`:

* `FindStranded` (`NothingStranded`, two requests): an expiry between the creation of an intent and
  its attachment leaves the intent live; a card accepted later stays held.
* `FindEjected` (`FailedMeansNoBattery`): a battery put out of service between the choice and the
  record makes the bookkeeping fail after it left; the deposit is released.
* `FindRefund` (`RefundsTrue`): the running total of a `charge.refunded` event is recorded before
  `markRefunded` adds the same amount.
* `FindRefused` (`RefusedHoldsNothing`): a replayed `begin` that cannot read its intent refuses the
  rental with the intent still live.
* `FindSettled` (`SettledPaymentFinal`): a late `markPaymentFailed` overwrites RELEASED, which
  `payment-state.ts` says is final; `transitionPayment` is never called.
* `FindWholeDeposit` (`PriceOnceBack`, two requests): the loss job reads a rental as lost, a return commits,
  and the job still takes the whole deposit. `TakenIsDue` holds meanwhile: the battery was late enough
  when the job read it.
* `FindLossReplay` (`LossReplayAccepted`): when the `succeeded` event of a loss capture comes before
  its record, replaying the job throws for ever.
* `FindOtherCard` (`AnotherCardWorks`): a refused card makes the next good one useless.

Elsewhere:

* `FindSaturated` (`MCSync`, `DetectedReturnCloses`): a return the cabinet has confirmed is not
  recorded when the local slots are full, against the comment of `placeReturned`.
* `FindLocation` (`MCScreens`, `LocationNamesItsAddress`): a station moved
  while Stripe makes its Location keeps a card reader at the former address.
* `FindWindow` (`MCScreens`, `VersionTellsSettings`): a media window that opens or closes, or a venue
  renamed, changes what is served under the same version, so that the screen ignores it until the next
  write, against the comment of `displayConfigFor`. `VersionCoversWrites` says what is left: every
  write of the station's texts, translations and Location, and of the library.
* `FindTouch` (`MCVenue`, `TouchHolds`): a new answer may replace the slide somebody has just
  touched, where `app/kiosk` says that nothing rotates away under them.
* `FindDismissed`, `FindPending`, `FindResume`, `FindDropped` (`MCCustomer`): a cancelled rental may be
  resumed by the page at once; the pending key of the phone outlives its rental and blocks another
  station; the resumption may open a second rental on an answer that was old; and (`AlwaysSeen`) a page reloaded,
  or a phone relaunched, with a start on its way has lost its key, and so has a page where "new
  rental" is tapped below an old receipt or a phone answered with the page's rental: the request
  left behind and the next tap may then open two rentals, the first one unseen.
  `SeenBeforeNext` is therefore about attempts the device followed, their key not given up in
  any of these ways, and
  about consecutive rentals: a reloaded page shows the last one, not those that ended before.

Also met while modelling, and stated by no property: in the customer's clients, the payment session
of an old rental is never cleared by "again", a confirmation overtaken by a later answer leaves the
page on the old rental, a phone whose token has expired cannot rent again, and with a mailer
configured every mobile start is refused because it sends no address (`http.ts:319`). In the back
office, whole-record forms filled from an old dashboard overwrite another's work, a creation or a
refund repeated after a lost answer is done again (two refunds of one amount excepted, which Stripe
takes for one), a return detected late may fall in a period already exported, and a statement's end
differs between its two forms on the day the clocks change. A manufacturer event recorded whose
request dies is not reconciled by its redelivery (the scheduled synchronisation covers it). A
deactivated link with open records shows as degraded for ever.

`coord_sequential` checks the coordinator's promises with one request at a time: there they hold, so
`held_deposit` and `FindStranded` need two overlapping requests.

## 4. Proofs

### The rental and its gate

Part one of `RentalProofs` proves, for every set of rentals, customers, stations, slots and
batteries, every admissible grid, both stores and all modes, from the named assumptions of the
modules (grids satisfy validatePricing, initial slots hold a battery once, `None` is not a member
of the sets):

| Theorem | Statement |
|---|---|
| `TypeCorrect` | `[]TypeOK` |
| `OneRental` | `[]OneRentalPerCustomer` |
| `LifeInvariant` | `[]LifeInv`, the inductive invariant below |
| `ForfeitLate` | `[]ForfeitOnlyWhenLate` |
| `DepositFirst` | `[]DepositBeforeBattery` |
| `TerminalFinal` | `TerminalIsFinal` |
| `WrittenOnce` | `HistoryWrittenOnce` |

The argument. Every engine operator maps a typed record to a typed record (the "Typed" lemmas),
hence every action keeps `TypeOK`. `StepGated`: every action passes `Commit` or leaves rentals,
slots and batteries alone, hence `DataValid`, and with the table of edges `OneRental`.

Neither is enough for the rest: the gate says nothing of a rental in ERROR, nor of what a rental
was before the step. `LifeInv` adds for each rental (`Coherent`) that a battery is recorded only
after the start, a return only in RETURNED, COMPLETED or ERROR, and that past the opening states
the exact deposit is on record; and `ForfeitOnlyWhenLate`. `Evolves(old, new)` is what any
operation but the forfeit may do to one rental: finished rentals keep their state, battery, start,
return and price are kept once written, nobody becomes LOST, and the result is coherent. It is
proved for each operator under its guard, composes (`EvolvesTwice`: the webhook and the mock
deployment apply several operators in one transaction), and lifts to actions: `NextProgress` says
every step is progress of all rentals or the forfeit of one. `LifeStep` closes the induction, and
the theorems follow by temporal logic. TLC checks `LifeInv` on the instances of the runs.

### The store

The first part of `NightlyProofs` proves, for any clients, operations, callbacks, databases and number of attempts:

| Theorem | Statement |
|---|---|
| `StoreInvariant` | `[]Inv`, the inductive invariant below |
| `StoreImplementsPort` | `StoreIsAtomic`: every behaviour of `Store`, with its calls and data, is one of `AtomicStore` |

`Inv` says of each transaction under way (`TxOK`) that it is pending on one of the operations; that
its snapshot is the database as long as the revision has not moved; that the lock is held exactly by
the transaction that has passed it, on a current snapshot, and on PostgreSQL; and that a D1
transaction that has read holds a snapshot its callback accepted. Without the second part a write
could not be shown to be the operation of the port on the data of now; without the third, two
transactions could write at once. A step then maps as follows: the commit of either adapter is `Do`,
a refusal is `Refuse` at the instant of the snapshot, an exhausted retry or a broken connection
before the write is `Fail`, and every other step is a stutter.

### Custody and the deposit

In the second half of part one, under the same assumptions:

| Theorem | Statement |
|---|---|
| `CustodyInvariant` | `[]CustodyInv`: `LifeInv`, `AllSound` and `BatteryWithCustomer` |
| `Custody` | `[]BatteryWithCustomer` |
| `NothingHeld` | `[]NothingHeldAtTheEnd` |

Neither property is inductive. `Sound(r)` adds what the operations keep of one rental: back means
returned, a failed ejection has released the deposit, a released deposit is never told as unknown,
and nothing stays held once the rental is over. For the battery, every step is calm (no rental
takes, gives back or loses one) or moves one rental: a battery leaves with it, or its custody ends.
`OutMeans` turns "has a battery out" into what the row says (battery, no return, not lost), and the
gate's one open rental per battery shows that no second rental has the battery that comes back.
A deposit that Stripe really holds exists only on PostgreSQL (`StoreAssumption`: the preview store runs
in mock mode): there, where a webhook alone would break `Sound`, the constraints and the trigger on
terminal rows refuse it (`Gated`). In mock mode the operations keep it by themselves.

### The coordinator

| Theorem of `RentalProofs`, part two | Statement |
|---|---|
| `CoordinatorInvariant` | `[]CoordinatorInv`, the inductive invariant |
| `CoordinatorImplements` | `CoordinatorSpec => Spec`: it only makes the steps of `RentalTransactions` |
| `CoordinatorKeepsRules` | the theorems on the rental, its gate and custody, through the refinement |
| `CoordinatorTypes` | `[]CoordinatorTypeOK` |
| `CapturesAreTrue` | `[]CapturesTrue` |
| `OneBattery` | `[]OneBatteryPerRental` |
| `TakenDue` | `[]TakenIsDue` |

For any requests, rentals, batteries, number of crashes and lost answers. An `Attempt` commits, or
throws exactly when it cannot (`ENABLED`); the proofs allow it to throw at any time, which only adds
behaviours. The refinement needs one lemma per step: its transaction is one of `RentalTransactions`,
with the clock of now and an amount some event of Stripe may carry (`AmountsAssumption`).

The safety of the money needs what a request still knows when it goes on after an await
(`Knows`): while it captures, the battery is back; once it has captured, Stripe took that
amount; with a claim, the rental is no longer claimable. These survive the steps of the others because
return, price and the end of a rental are written once (`NextProgress`) and Stripe's `succeeded` is
final. Events are delayed for ever, so `EventsTrue` says of each one emitted that it tells what
Stripe did. `OneBattery` rests on `EjectionsTrue`: the claim is held by one request and taken
before any battery has left.

`TakenDue` assumes nothing of which requests overlap. `DueInv` adds to the invariant that a request
about to forfeit a deposit is about a rental that is late by the grace time. A request that captures
has read one of two facts before its await, the return with its price or that lateness; neither goes
back afterwards (`NextProgress`, and the clock), whoever moves the rental in between. So
Stripe's `succeeded`, which is final, has one of them behind it. It is the strongest statement of
the kind that the code keeps: that the price, and not the deposit, is taken of a battery brought back
in between is false (`FindWholeDeposit`).

There is no theorem on `ReleasesTrue`, `NothingStranded` and `HeldWhenBatteryLeaves`. Overlapping
requests about one rental break each of them (`FindStranded`, `held_deposit`), and no lock of
the code keeps such requests apart, so they are checked with one request at a time (`coord_sequential`)
and not proved. `RefundsTrue`, `FailedMeansNoBattery`, `RefusedHoldsNothing`,
`LossReplayAccepted` and `AnotherCardWorks` are violated even so (see `Find...`).

### The cabinets

| Theorem of `SyncProofs` | Statement |
|---|---|
| `SyncInvariant` | `[]SyncInv`, the inductive invariant |
| `InventoryValid` | `[]ValidInventory` |
| `ReturnsAreReal` | `[]ReturnIsReal`, assuming `Prompt` |

For any stations, cabinets, positions, batteries, rentals and requests. `ValidInventory` is not
inductive: a mirror that shows a battery as present must know that no rental has it out. `InventoryOK`
says that RENTED is exactly what active rentals have, `RentalsOK` that the batteries out are distinct
and in no real cabinet until they are given back, and `StoredOK` that a stored reading shows no
battery twice, however old it is. `Contents` that come from a reading older than a
rental are the difficulty of `ReturnIsReal`: `Real` says that a rental that had `settled` before
the reading was taken and shows in it was given back. It uses `Prompt` alone; `MCSync` has the same
assumption.

### The jobs and the webhooks

| Theorem of `NightlyProofs` | Statement |
|---|---|
| `NightInvariant` | `[]NightInv`, the inductive invariant |
| `NobodyLosesUnwarned` | `[]LossAfterWarning` |
| `NoEventIsLost` | `[]AcknowledgedIsApplied` |
| `NightIsAtomic` | `StoreIsAtomic` |

For any requests at a time, rentals, events, days, runs, faults and attempts, on both databases. `Wired`
is what the configuration of `MCNightly` says: the operations and callbacks of the store are those
of `NightlyJob` and its database is `Fresh`. On top of the store's `Inv`, `Justified` says of every
transaction somebody waits for, at whatever attempt, that it is right to do it whenever the store
comes to it: a notice is recorded for a mail that was taken, a deposit is taken from
somebody who was mailed `Lead` before, an event is settled once the rows reflect it. It stays true
because mails, effects and dates only accumulate; the transaction itself looks again at
the state of the rental. `JobOK` has the assumption that a job ends within its day, without
which a notice could be recorded at an older date than its mail. The ledger alone would not do:
`ProcessedApplied` ties PROCESSED to the effect, and an entry purged or received again loses the
claim, not the effect.

### The accounts

| Theorem of `AccountsProofs` | Statement |
|---|---|
| `AccountsInvariant` | `[]AccountsInv`, the inductive invariant |
| `SomeoneAlwaysOwns` | `[]SomeoneOwns` |
| `SessionsCurrent` | `[]SessionIsCurrent` |
| `RowsConsistent` | `[]AccountsConsistent` |
| `OneSessionPerCode` | `CodeOpensOneSession` |

For any users, tokens, secrets and requests in flight. Requests are the difficulty: each holds what it
read before its transaction. `InFlight` says what a request may hold; `Accounted`, that a stored
hash is that of the password of today; `Signed`, that no session of an older password or of a closed
account is kept. A code opens one session because a secret is one account's (`Private`), a secret
being set up is nobody's yet and no code of it was used (`Unseen`), and a code once used is not later
than `totpLastStep` of the account that has its secret (`Spent`). Without `Unseen` the transaction
that enables a second factor could install a secret one of whose codes is already spent.

### The screens

| Theorem of `ScreensProofs` | Statement |
|---|---|
| `ScreensInvariant` | `[]ScreensInv`, the inductive invariant |
| `OneRuntime` | `[]OneRuntimePerStation` |
| `VersionCovers` | `[]VersionCoversWrites` |
| `NeverBack` | `ScreenNeverGoesBack` |
| `LateLocations` | `OnlyLateLocations` |

For any stations, venues, names, media with any windows, runtimes, tokens and stamps. `Rows` says that every stamp is in the
past, so that a write always makes a version no runtime has seen; the version is a maximum, and
`MaxOf` derives what a maximum is from the well-foundedness of the naturals. `Known` says of every
configuration a runtime holds, on its way, queued, stored or shown, that it is not newer than its
station and, at the station's own version, covers what was written of it (`Fits`): the texts, the pack
and the Location of now, and the playlist the present library gave at some moment since that version.
Time alone keeps that true, and any write that would break it makes a newer version. `Devices` says that what
is stored and what is shown differ only during a write, when the newer one is about to be shown:
a restart then goes forward. `OneAtWork` is the uniqueness that enrolment re-establishes.
`LateLocations` is about a step that makes a card reader wrong: every action but `StripeLocationMade`
writes the right Location, clears it, or leaves both it and the address alone, and that action writes
the address its request had read. `FindLocation` shows that this one does happen.

### The back office

| Theorem of `PortalProofs` | Statement |
|---|---|
| `PortalInvariant` | `[]PortalInv`, the inductive invariant |
| `RowsAreConsistent` | `[]PortalConsistent` |
| `Tenants` | `TenantConfined` |
| `OwedFollows` | `OwedFollowsReturns` |

For any tabs, programs, partners, venues, stations and rows, and any initial database that is
consistent. The argument never uses that a form shows what the database holds. Of a dashboard, at
any age and in any order of answers (`Seen`), it needs only that it names existing partners, since no
route checks that column against a row (`Sent`). There is one lemma per table a route may touch
(`VenuesKept`, `StationsKept`, `RentalsKept`, ...), and a transfer keeps `OpenRentalKeepsPartner`
because `relocateStation` refuses a station with an open rental. `Tenants` then needs no more of the
invariant than the fields of the tables: the check of each route on the row itself confines it.

`OwedFollows` is about a sum over a set, which the library computes by a fold. The induction on sets is
made by hand, through a smallest counterexample (`Smallest`, from the well-foundedness of the
naturals): every finite set has a tally (`HasTally`), tallies agree where the rates do (`SameTally`), and
the order in which the fold takes rentals out does not matter (`TakenOut`). Then `EarnedMoves`: a step lets
at most one rental in or out of those that count (`MovedOne`), and changes the rate of none (`RentalsMove`). The database is assumed to hold
finitely many rentals at first.

### The screens of a venue

| Theorem of `VenueProofs` | Statement |
|---|---|
| `VenueInvariant` | `[]VenueInv`, the inductive invariant |
| `OnSchedule` | `[]PromoOnSchedule` |
| `SpeaksOnOffer` | `[]LanguageOnOffer` |

For any promotions, dates, hours and days, any lengths of a day and a week, any languages, clips and
durations. `OnSchedule` compares two ways to say when a promotion runs: the code's, from the weekday
and the minute of now with a case for the hours after midnight, and the reference, the windows
that open on the days ticked. `Windows` shows them equal: only the windows opened today or yesterday can
cover a moment (`Covers`), and yesterday's weekday is right across the week's end (`Yesterday`). The
provers know little of `\div` and `%`, so `Division` and `Quotient` say that a number has
one quotient and one remainder. `SpeaksOnOffer` holds although the language a customer chose may be
withdrawn while it is shown: `PosterSpeaks` needs of the branding only that it is one the studio can
write, for each kind of layout. `VenueInv` also says that the timer of the slides runs
exactly when there are several, at any age of the page, and that the timer of the language runs as long as one is chosen,
which is what `QrComesBack` rests on. That the live promotions have an order at all
(`InOrderIs`) is an induction on the number of places, made by its least counterexample.
Assumed: every duration is at least one unit (the routes refuse less than seconds), BATYEO's list
of languages is not empty, and the forms hold what the routes accept.

### The customers

| Theorem of `CustomerProofs` | Statement |
|---|---|
| `CustomerInvariant` | `[]CustomerInv`, the inductive invariant |
| `SeenFirst` | `[]SeenBeforeNext` |

For any stations and any number of rentals, taps, reloads, relaunches, lost answers and requests
that outlive their sender. `SeenBeforeNext` speaks of two rentals, and by the second one it is too late: the
invariant says before what a device may still do. A device that acts for a customer has at most one
attempt that may still open a rental, that of one key (`Single`): every other request it has under way
carries a key that opened one already, or one that was given up; and it has seen the last rental it
opened, unless that same key opened it. So when an attempt opens a rental (`Opened`), its key is that one,
and the rental before has been seen (`BeforeIsSeen`). The key is the one on the page, or the pending
one of the application. While a page loads or a phone starts there is none, and the requests left
behind, which may be served at any time, are what could go wrong: `Quiet` says that each of them
carries a key that opened a rental already or one the device gave up when it was left (`ForgotIs`), and so
opens nothing the property speaks of. The first answer of the server is the last rental (`CurrentLast`),
which the page then shows. That is where `OpenIsLast` and `KeyOnce` are needed: only the last rental of a
customer may be under way, and a key opens one. A key is given up at a rental on display: its own,
or it is one of those the property leaves aside (`SingleGivenUp`). The handoff moves the application
to another customer; `ByWhom` says that it took nothing for that customer before. `None` is assumed to be no
key, no view of a rental and no attempt.

### What is only model-checked

`ReleasesTrue`, `NothingStranded` and `HeldWhenBatteryLeaves`, one request at a time. All liveness (`NotHostage`, `ScreenCatchesUp`, `ReturnNoticed`,
`InventoryConverges`, `PageCatchesUp`, `QrComesBack`).
Out of the prover's reach: liveness under fairness and `ENABLED`, induction over recursive data,
recursive operators. No module uses one.

## 5. Plan

Modelled so far: everything of section 2. What is left, in this order:

1. `RentalPromise`: an abstract specification of custody and money (a battery is in the network,
   with a customer or lost; a deposit is free, held, or settled once), implemented by
   `StripeCoordinator` with one request at a time by a refinement mapping.
2. `Pricing`: minute rounding, commission and partner overrides against a reference definition over
   bounded inputs.
3. `Watchdog`: the crash counter, restart window and reconnection of the Android kiosk.

## 6. Not modelled

* Views, statements, texts, translations, charts, generic widgets (`components/ui`), the posters' and
  pages' layout: they compute nothing that is written.
* Parsing, signatures, hashing and encodings at the edges of the HTTP layer; rate limits, which only
  refuse. Security itself is not a subject of these modules.
* The Android application and its watchdog (`runtime/`), the build and deployment scripts.
* The coordinator's `start`, which no route calls; dispute events, whose timestamp no rule reads.
* Stripe events in mock mode, which are acknowledged and dropped.
* The seed and the repair of fixtures on D1; PostgreSQL's constraints are in `RentalTransactions`, not
  in `Store`.
