----------------------------- MODULE BackOffice -----------------------------
(***************************************************************************)
(* The rows the back office administers, and its routes: venues, stations, *)
(* their transfer from one partner to another, commissions, tickets, and   *)
(* what a partner is owed.  A route checks the actor and the tenant inside *)
(* the transaction that writes; whoever form may have seen other rows.    *)
(* Rentals are here only as far as these routes read them: who earns which *)
(* rate, whether one is open, and whether a statement counts it.           *)
(***************************************************************************)
EXTENDS Integers, FiniteSetsExt, Functions

CONSTANTS
  None,
  Tabs,       \* pages of the back office, each used by one login
  RoleOf,     \* role of that login
  PartnerOf,  \* its partner, None for BATYEO staff
  Partners, Venues, Stations, Rentals, Tickets,
  Addresses,  \* what a venue form may contain
  Rates,      \* commission rates, the grid's or a partner's own
  MaxWrites   \* bound of the accepted requests, and of the ends of the rentals but their return

Staff == {"SUPER_ADMIN", "ADMIN", "OPERATIONS", "FINANCE", "SUPPORT"}
PartnerRoles == {"PARTNER_ADMIN", "PARTNER_USER"}
Roles == Staff \cup PartnerRoles
Tenant == Partners \cup {None}

ASSUME TabsAssumption ==
  /\ RoleOf \in [Tabs -> Roles] /\ PartnerOf \in [Tabs -> Tenant]
  /\ \A b \in Tabs : PartnerOf[b] = None <=> RoleOf[b] \in Staff
  /\ None \notin Partners \cup Venues \cup Stations \cup Addresses
ASSUME RatesAssumption == Rates \subseteq Nat /\ Rates # {} /\ MaxWrites \in Nat

VARIABLES
  db,        \* the rows, one field per table
  form,      \* the form of each tab: "idle", or answered "done" or "refused"
  writes     \* those so far
server == <<db, form, writes>>

Venue   == [partner : Partners, address : Addresses]
Station == [venue : Venues, partner : Partners, archived : BOOLEAN, blocked : BOOLEAN]
\* GOING: not back yet; RETURNED: back and priced; ERROR: back, and its payment failed;
\* COMPLETED: paid; CLOSED: ended without a return, the lost ones too.
OpenStates == {"GOING", "RETURNED", "ERROR"}
States == OpenStates \cup {"COMPLETED", "CLOSED"}
\* A statement counts what has a return date and is not in error.
Counted == {"RETURNED", "COMPLETED"}
Rental  == [station : Stations, partner : Partners, rate : Rates, state : States]
IsOpen(rental) == rental.state \in OpenStates
Ticket  == [partner : Tenant, open : BOOLEAN]

-----------------------------------------------------------------------------
(* Who may do what. *)

\* authorize.
MayUse(capability) ==
  CASE capability = "read"     -> Roles
    [] capability = "operate"  -> {"SUPER_ADMIN", "ADMIN", "OPERATIONS"}
    [] capability = "support"  -> Roles \ {"FINANCE"}
    [] capability = "settings" -> {"SUPER_ADMIN", "ADMIN", "PARTNER_ADMIN"}
    [] capability = "pricing"  -> {"SUPER_ADMIN", "ADMIN", "FINANCE"}
Owners == {"SUPER_ADMIN", "ADMIN"}
InTenant(b, p) == RoleOf[b] \notin PartnerRoles \/ (PartnerOf[b] # None /\ PartnerOf[b] = p)

\* What dashboard shows the login of a tab: the rows of its tenant.
Mine(b, table) == Restrict(table, {k \in DOMAIN table : InTenant(b, table[k].partner)})
Dashboard(b) ==
  [partners |-> Restrict(db.partners, {p \in Partners : InTenant(b, p)}), grid |-> db.grid,
   venues |-> Mine(b, db.venues), stations |-> Mine(b, db.stations),
   rentals |-> Mine(b, db.rentals), tickets |-> Mine(b, db.tickets)]

-----------------------------------------------------------------------------
(* The rows themselves. *)

With(table, k, row) == [i \in DOMAIN table \cup {k} |-> IF i = k THEN row ELSE table[i]]
Open(d, s) == {r \in DOMAIN d.rentals : d.rentals[r].station = s /\ IsOpen(d.rentals[r])}

CanCreateStation(p, v) == p \in Partners /\ v \in DOMAIN db.venues /\ db.venues[v].partner = p
NewStation(p, v) == [venue |-> v, partner |-> p, archived |-> FALSE, blocked |-> FALSE]

\* Mutant: a rental going on does not keep the station where it is.
CanRelocateAnyTime(s, v) ==
  /\ s \in DOMAIN db.stations /\ v \in DOMAIN db.venues
CanRelocate(s, v) ==
  /\ s \in DOMAIN db.stations /\ v \in DOMAIN db.venues
  /\ \/ db.stations[s].venue = v /\ db.stations[s].partner = db.venues[v].partner
     \/ Open(db, s) = {}
Relocated(s, v) == [db.stations[s] EXCEPT !.venue = v, !.partner = db.venues[v].partner]
CanArchive(s) == s \in DOMAIN db.stations /\ (db.stations[s].archived \/ Open(db, s) = {})

\* pricingForPartner: the rate a rental opened now will keep.
RateFor(p) == IF db.partners[p] = None THEN db.grid ELSE db.partners[p]
\* Mutant: a statement applies the rate of the day it is made.
OwedAtTodaysRate(d, p) ==
  MapThenSumSet(LAMBDA r : IF d.partners[p] = None THEN d.grid ELSE d.partners[p],
                {r \in DOMAIN d.rentals : d.rentals[r].partner = p /\ d.rentals[r].state \in Counted})
\* partnerStatements, over one period that holds every return.
Owed(d, p) ==
  MapThenSumSet(LAMBDA r : d.rentals[r].rate,
                {r \in DOMAIN d.rentals : d.rentals[r].partner = p /\ d.rentals[r].state \in Counted})

-----------------------------------------------------------------------------
(* The routes.  Each answers a request q of tab b. *)

\* write: the actor is read again and authorized in the transaction.
Asks(b, q, op, capability) ==
  /\ q.op = op
  /\ RoleOf[b] \in MayUse(capability)
  /\ writes < MaxWrites
Served(b) == form' = [form EXCEPT ![b] = "done"] /\ writes' = writes + 1

CreateVenue(b, q) ==
  /\ Asks(b, q, "venue/create", "settings")
  /\ InTenant(b, q.partner)
  /\ \E v \in Venues \ DOMAIN db.venues :
       db' = [db EXCEPT !.venues = With(db.venues, v, [partner |-> q.partner, address |-> q.address])]
  /\ Served(b)

\* updateVenue: the partner stays.
UpdateVenue(b, q) ==
  /\ Asks(b, q, "venue/update", "settings")
  /\ q.venue \in DOMAIN db.venues
  /\ InTenant(b, db.venues[q.venue].partner)
  /\ db' = [db EXCEPT !.venues[q.venue].address = q.address]
  /\ Served(b)

CreateStation(b, q) ==
  /\ Asks(b, q, "station/create", "settings")
  /\ InTenant(b, q.partner)
  /\ CanCreateStation(q.partner, q.venue)
  /\ \E s \in Stations \ DOMAIN db.stations :
       db' = [db EXCEPT !.stations = With(db.stations, s, NewStation(q.partner, q.venue))]
  /\ Served(b)

\* Mutant: whoever may move a station within its venues may give it to another partner.
MayRelocateAnyone(b, s, v) == InTenant(b, db.stations[s].partner)
\* Only staff give a station to another partner.
MayRelocate(b, s, v) ==
  /\ InTenant(b, db.stations[s].partner)
  /\ db.venues[v].partner # db.stations[s].partner => RoleOf[b] \in Owners

RelocateStation(b, q) ==
  /\ Asks(b, q, "station/relocate", "settings")
  /\ CanRelocate(q.station, q.venue)
  /\ MayRelocate(b, q.station, q.venue)
  /\ db' = [db EXCEPT !.stations[q.station] = Relocated(q.station, q.venue)]
  /\ Served(b)

ArchiveStation(b, q) ==
  /\ Asks(b, q, "station/archive", "settings")
  /\ CanArchive(q.station)
  /\ InTenant(b, db.stations[q.station].partner)
  /\ db' = [db EXCEPT !.stations[q.station].archived = TRUE]
  /\ Served(b)

RestoreStation(b, q) ==
  /\ Asks(b, q, "station/restore", "settings")
  /\ q.station \in DOMAIN db.stations
  /\ InTenant(b, db.stations[q.station].partner)
  /\ db' = [db EXCEPT !.stations[q.station].archived = FALSE]
  /\ Served(b)

BlockStationRentals(b, q) ==
  /\ Asks(b, q, "station/block-rentals", "operate")
  /\ q.station \in DOMAIN db.stations
  /\ InTenant(b, db.stations[q.station].partner)
  /\ db' = [db EXCEPT !.stations[q.station].blocked = TRUE]
  /\ Served(b)

UnblockStationRentals(b, q) ==
  /\ Asks(b, q, "station/unblock-rentals", "operate")
  /\ q.station \in DOMAIN db.stations
  /\ InTenant(b, db.stations[q.station].partner)
  /\ db' = [db EXCEPT !.stations[q.station].blocked = FALSE]
  /\ Served(b)

SetPartnerCommission(b, q) ==
  /\ Asks(b, q, "partner/set-commission", "pricing")
  /\ db' = [db EXCEPT !.partners[q.partner] = q.rate]
  /\ Served(b)

SetPricing(b, q) ==
  /\ Asks(b, q, "pricing", "pricing")
  /\ db' = [db EXCEPT !.grid = q.rate]
  /\ Served(b)

\* A request for a promotion lands among the tickets, under the venue's partner.
RequestPromo(b, q) ==
  /\ Asks(b, q, "promo/request", "support")
  /\ RoleOf[b] \in PartnerRoles
  /\ q.venue \in DOMAIN db.venues
  /\ InTenant(b, db.venues[q.venue].partner)
  /\ \E t \in Tickets \ DOMAIN db.tickets :
       db' = [db EXCEPT !.tickets =
                With(db.tickets, t, [partner |-> db.venues[q.venue].partner, open |-> TRUE])]
  /\ Served(b)

\* A ticket names the partner of its rental, else of its author.
CreateTicket(b, q) ==
  /\ Asks(b, q, "ticket", "read")
  /\ q.rental # None =>
       q.rental \in DOMAIN db.rentals /\ InTenant(b, db.rentals[q.rental].partner)
  /\ LET p == IF q.rental = None THEN PartnerOf[b] ELSE db.rentals[q.rental].partner
     IN  \E t \in Tickets \ DOMAIN db.tickets :
           db' = [db EXCEPT !.tickets = With(db.tickets, t, [partner |-> p, open |-> TRUE])]
  /\ Served(b)

ResolveTicket(b, q) ==
  /\ Asks(b, q, "resolve-ticket", "support")
  /\ q.ticket \in DOMAIN db.tickets
  /\ InTenant(b, db.tickets[q.ticket].partner)
  /\ db' = [db EXCEPT !.tickets[q.ticket].open = FALSE]
  /\ Served(b)

\* Any request may be refused: rights, rows gone, too many requests, a database that fails.
Refuse(b) ==
  /\ form' = [form EXCEPT ![b] = "refused"]
  /\ UNCHANGED <<db, writes>>

OneWriteMore == writes < MaxWrites /\ writes' = writes + 1
\* create, activate: a customer at a station that is not blocked; the rate is frozen here.
StartRental(s, r) ==
  /\ r \notin DOMAIN db.rentals
  /\ ~db.stations[s].blocked
  /\ LET p == db.stations[s].partner
     IN  db' = [db EXCEPT !.rentals = With(db.rentals, r,
                  [station |-> s, partner |-> p, rate |-> RateFor(p), state |-> "GOING"])]
  /\ OneWriteMore /\ UNCHANGED form

Goes(r, from, to) ==
  /\ db.rentals[r].state \in from
  /\ db' = [db EXCEPT !.rentals[r].state = to]
  /\ UNCHANGED form
\* prepareReturn: the battery is back and the price is made.
ReturnRental(r) == Goes(r, {"GOING"}, "RETURNED") /\ UNCHANGED writes
\* markPaymentUnknown: Stripe could not take the price.
PaymentFails(r) == Goes(r, {"RETURNED"}, "ERROR") /\ OneWriteMore
\* completeSettlement, at once or after an error.
SettleRental(r) == Goes(r, {"RETURNED", "ERROR"}, "COMPLETED") /\ OneWriteMore
\* expireUnconfirmed, failEjection, markDepositLost.
CloseRental(r) == Goes(r, {"GOING"}, "CLOSED") /\ OneWriteMore

Customers ==
  \/ \E r \in Rentals, s \in DOMAIN db.stations : StartRental(s, r)
  \/ \E r \in DOMAIN db.rentals :
       ReturnRental(r) \/ PaymentFails(r) \/ SettleRental(r) \/ CloseRental(r)
Rows(b, q) ==
  \/ CreateVenue(b, q) \/ UpdateVenue(b, q) \/ CreateStation(b, q) \/ RelocateStation(b, q)
  \/ ArchiveStation(b, q) \/ RestoreStation(b, q)
  \/ BlockStationRentals(b, q) \/ UnblockStationRentals(b, q)
Desk(b, q) ==
  \/ SetPartnerCommission(b, q) \/ SetPricing(b, q)
  \/ RequestPromo(b, q) \/ CreateTicket(b, q) \/ ResolveTicket(b, q)
Serve(b, q) == Rows(b, q) \/ Desk(b, q) \/ Refuse(b)

-----------------------------------------------------------------------------
(* What the rows promise. *)

Tables == {"partners", "grid", "venues", "stations", "rentals", "tickets"}
HasRows(table, keys, type) == DOMAIN table \subseteq keys /\ \A k \in DOMAIN table : table[k] \in type
RowsTyped(d) ==
  /\ DOMAIN d = Tables
  /\ d.partners \in [Partners -> Rates \cup {None}] /\ d.grid \in Rates
  /\ HasRows(d.venues, Venues, Venue) /\ HasRows(d.stations, Stations, Station)
  /\ HasRows(d.rentals, Rentals, Rental) /\ HasRows(d.tickets, Tickets, Ticket)

\* A station belongs to the partner of the venue where it stands, however it was created, moved or
\* given away (createStation, relocateStation, updateVenue).
StationFollowsVenue(d) ==
  \A s \in DOMAIN d.stations :
    /\ d.stations[s].venue \in DOMAIN d.venues
    /\ d.stations[s].partner = d.venues[d.stations[s].venue].partner

\* While a rental is open its station stays with the partner who earns its commission, although
\* the station is moved by people who do not see the rentals (relocateStation).
OpenRentalKeepsPartner(d) ==
  \A r \in DOMAIN d.rentals :
    IsOpen(d.rentals[r]) => /\ d.rentals[r].station \in DOMAIN d.stations
                            /\ d.stations[d.rentals[r].station].partner = d.rentals[r].partner

RowsConsistent(d) == RowsTyped(d) /\ StationFollowsVenue(d) /\ OpenRentalKeepsPartner(d)

\* A login changes only rows of its own tenant, whatever page its request comes from and whoever
\* the row belonged to when that page was read; and hardware passes from one partner to another only
\* by an owner's hand (assertTenant inside each transaction, station/relocate).
Changed(table, k) == k \in DOMAIN table /\ table'[k] # table[k]
TenantConfined ==
  [][\A b \in Tabs : form'[b] # form[b] =>
       /\ \A k \in Venues  : Changed(db.venues, k)  => InTenant(b, db.venues[k].partner)
       /\ \A k \in Tickets : Changed(db.tickets, k) => InTenant(b, db.tickets[k].partner)
       /\ \A k \in Stations : Changed(db.stations, k) =>
            /\ InTenant(b, db.stations[k].partner)
            /\ db'.stations[k].partner # db.stations[k].partner => RoleOf[b] \in Owners]_server

\* What a partner is owed follows the batteries that come back and nothing else: it rises only with
\* one that is back or whose payment succeeds at last, and falls only with one whose payment fails;
\* no later rate, grid, transfer or archive moves it (pricingForPartner, partnerStatements).
Became(r, p, from, to) ==
  /\ r \in DOMAIN db.rentals /\ db.rentals[r].partner = p
  /\ db.rentals[r].state \in from /\ db'.rentals[r].state \in to
OwedFollowsReturns ==
  [][\A p \in Partners :
       /\ Owed(db', p) > Owed(db, p) =>
            \E r \in Rentals : Became(r, p, {"GOING", "ERROR"}, Counted)
       /\ Owed(db', p) < Owed(db, p) =>
            \E r \in Rentals : Became(r, p, {"RETURNED"}, {"ERROR"})]_server
=============================================================================
