---------------------------- MODULE PortalProofs ----------------------------
(***************************************************************************)
(* The rows of the back office stay consistent and in their tenant, for    *)
(* any number of tabs, partners, venues and stations.  Pages are copies    *)
(* that may be of any age, so the argument never uses that a form shows    *)
(* what the database holds: of a dashboard it only needs that the partners *)
(* it names exist, which no route checks.                                  *)
(***************************************************************************)
EXTENDS Portal, TLAPS, FiniteSetTheorems, WellFoundedInduction

\* What a tab was given names known partners.
Seen(content) ==
  content.is = "dashboard" => DOMAIN content.data.partners \subseteq Partners
\* What a form sends into the columns that no route checks against a row.
Sent(q) ==
  /\ q.op = "venue/create" => q.partner \in Partners /\ q.address \in Addresses
  /\ q.op = "venue/update" => q.address \in Addresses
  /\ q.op = "partner/set-commission" => q.partner \in Partners /\ q.rate \in Rates \cup {None}
  /\ q.op = "pricing" => q.rate \in Rates

TabsTyped ==
  /\ form \in [Tabs -> Forms] /\ DOMAIN page = Tabs /\ DOMAIN reads = Tabs
  /\ \A b \in Tabs : /\ DOMAIN page[b] = {"shown", "signed"} /\ page[b].signed \in BOOLEAN
                     /\ Seen(page[b].shown)
                     /\ DOMAIN reads[b] = Vias /\ \A via \in Vias : Seen(reads[b][via])
Waits == \A b \in Tabs : reads[b]["form"] # Blank <=> form[b] = "refreshing"

RowsInv == RowsConsistent(db) /\ writes \in 0 .. MaxWrites
PortalInv == RowsInv /\ TabsTyped /\ Waits

-----------------------------------------------------------------------------
(* Requests.                                                               *)

\* A form sends what its dashboard names.
LEMMA FormsTyped ==
  ASSUME NEW b, NEW d, DOMAIN d.partners \subseteq Partners, NEW q \in DisplayedForms(b, d)
  PROVE  Sent(q)
<1>1. CASE q \in SupportPanel(b, d) \cup ContactForm(b, d) \cup PartnerPromos(b, d)
  BY <1>1 DEF SupportPanel, ContactForm, PartnerPromos, Sent
<1>2. CASE q \in VenueCreateAction(b, d) \cup VenueEditAction(b, d)
  BY <1>2 DEF VenueCreateAction, VenueEditAction, Sent
<1>3. CASE q \in StationCreateAction(b, d)
  BY <1>3 DEF StationCreateAction, Sent
<1>4. CASE q \in StationLifecycleAction(b, d)
  <2>1. q.op \in {"station/unblock-rentals", "station/block-rentals", "station/restore",
                  "station/archive", "station/relocate"}
    BY <1>4 DEF StationLifecycleAction
  <2> QED
    BY <2>1 DEF Sent
<1>5. CASE q \in PartnerCommission(b, d) \cup PricingEditor(b, d)
  BY <1>5 DEF PartnerCommission, PricingEditor, Sent
<1> QED
  BY <1>1, <1>2, <1>3, <1>4, <1>5 DEF DisplayedForms

\* A dashboard names partners of the database.
LEMMA DashboardTyped ==
  ASSUME RowsInv, NEW b \in Tabs
  PROVE  DOMAIN Dashboard(b).partners \subseteq Partners
BY DEF Dashboard, Restrict, RowsInv, RowsConsistent, RowsTyped

\* A program too sends what it can read.
LEMMA CallsTyped ==
  ASSUME RowsInv, NEW b \in Tabs, NEW q \in DirectCalls(b)
  PROVE  Sent(q)
<1>1. CASE q \in DisplayedForms(b, Dashboard(b))
  BY <1>1, DashboardTyped, FormsTyped
<1>2. CASE q.op \in {"station/relocate", "station/create", "station/archive", "station/restore", "ticket"}
  BY <1>2 DEF Sent
<1>3. CASE q \in [op : {"venue/update"}, venue : DOMAIN db.venues, address : Addresses]
  BY <1>3 DEF Sent
<1> QED
  BY <1>1, <1>2, <1>3 DEF DirectCalls

\* A click, or a call of a program, is one request served or refused.
LEMMA SubmitServes ==
  ASSUME PortalInv, NEW b \in Tabs, Submit(b)
  PROVE  /\ Idle(b) /\ UNCHANGED <<page, reads>>
         /\ Refuse(b) \/ \E q : Sent(q) /\ Serve(b, q)
<1>1. CASE \E q \in DirectCalls(b) : Serve(b, q)
  BY <1>1, CallsTyped DEF Submit, PortalInv
<1>2. CASE Shows(b) /\ \E q \in DisplayedForms(b, page[b].shown.data) : Serve(b, q)
  BY <1>2, FormsTyped DEF Submit, PortalInv, TabsTyped, Seen, Shows
<1>3. CASE Refuse(b)
  BY <1>3 DEF Submit
<1> QED
  BY <1>1, <1>2, <1>3 DEF Submit

-----------------------------------------------------------------------------
(* The rows: one lemma per table that a route may touch.                   *)

\* The rows stay consistent when venues are added or keep their partner.
LEMMA VenuesKept ==
  ASSUME RowsConsistent(db), NEW table, db' = [db EXCEPT !.venues = table],
         HasRows(table, Venues, Venue),
         \A v \in DOMAIN db.venues : v \in DOMAIN table /\ table[v].partner = db.venues[v].partner
  PROVE  RowsConsistent(db)'
<1>1. /\ DOMAIN db' = Tables /\ db'.venues = table /\ db'.partners = db.partners
      /\ db'.grid = db.grid /\ db'.stations = db.stations /\ db'.rentals = db.rentals
      /\ db'.tickets = db.tickets
  BY DEF RowsConsistent, RowsTyped, Tables
<1> QED
  BY <1>1 DEF RowsConsistent, RowsTyped, StationFollowsVenue, OpenRentalKeepsPartner

\* And when stations stand with the partner of their venue, and keep theirs during a rental.
LEMMA StationsKept ==
  ASSUME RowsConsistent(db), NEW table, db' = [db EXCEPT !.stations = table],
         HasRows(table, Stations, Station),
         \A s \in DOMAIN table : /\ table[s].venue \in DOMAIN db.venues
                                /\ table[s].partner = db.venues[table[s].venue].partner,
         \A s \in DOMAIN db.stations :
           s \in DOMAIN table /\ (table[s].partner = db.stations[s].partner \/ Open(db, s) = {})
  PROVE  RowsConsistent(db)'
<1>1. /\ DOMAIN db' = Tables /\ db'.stations = table /\ db'.partners = db.partners
      /\ db'.grid = db.grid /\ db'.venues = db.venues /\ db'.rentals = db.rentals
      /\ db'.tickets = db.tickets
  BY DEF RowsConsistent, RowsTyped, Tables
<1>2. RowsTyped(db)' /\ StationFollowsVenue(db)'
  BY <1>1 DEF RowsConsistent, RowsTyped, StationFollowsVenue
<1>3. ASSUME NEW r \in DOMAIN db.rentals, IsOpen(db.rentals[r])
      PROVE  /\ db.rentals[r].station \in DOMAIN table
             /\ table[db.rentals[r].station].partner = db.rentals[r].partner
  BY <1>3 DEF RowsConsistent, OpenRentalKeepsPartner, Open
<1>4. OpenRentalKeepsPartner(db)'
  BY <1>1, <1>3 DEF OpenRentalKeepsPartner
<1> QED
  BY <1>2, <1>4 DEF RowsConsistent

\* And when the open rentals are with the partner of their station.
LEMMA RentalsKept ==
  ASSUME RowsConsistent(db), NEW table, db' = [db EXCEPT !.rentals = table],
         HasRows(table, Rentals, Rental),
         \A r \in DOMAIN table : IsOpen(table[r]) =>
           /\ table[r].station \in DOMAIN db.stations
           /\ db.stations[table[r].station].partner = table[r].partner
  PROVE  RowsConsistent(db)'
<1>1. /\ DOMAIN db' = Tables /\ db'.rentals = table /\ db'.partners = db.partners
      /\ db'.grid = db.grid /\ db'.venues = db.venues /\ db'.stations = db.stations
      /\ db'.tickets = db.tickets
  BY DEF RowsConsistent, RowsTyped, Tables
<1> QED
  BY <1>1 DEF RowsConsistent, RowsTyped, StationFollowsVenue, OpenRentalKeepsPartner

\* Tickets and rates are bound to no other table.
LEMMA TicketsKept ==
  ASSUME RowsConsistent(db), NEW table, db' = [db EXCEPT !.tickets = table],
         HasRows(table, Tickets, Ticket)
  PROVE  RowsConsistent(db)'
<1>1. /\ DOMAIN db' = Tables /\ db'.tickets = table /\ db'.partners = db.partners
      /\ db'.grid = db.grid /\ db'.venues = db.venues /\ db'.stations = db.stations
      /\ db'.rentals = db.rentals
  BY DEF RowsConsistent, RowsTyped, Tables
<1> QED
  BY <1>1 DEF RowsConsistent, RowsTyped, StationFollowsVenue, OpenRentalKeepsPartner

\* The rates of partners and the grid.
LEMMA RatesKept ==
  ASSUME RowsConsistent(db), NEW rates \in [Partners -> Rates \cup {None}], NEW rate \in Rates,
         db' = [db EXCEPT !.partners = rates] \/ db' = [db EXCEPT !.grid = rate]
  PROVE  RowsConsistent(db)'
<1>1. /\ DOMAIN db' = Tables /\ db'.tickets = db.tickets
      /\ db'.partners \in [Partners -> Rates \cup {None}] /\ db'.grid \in Rates
      /\ db'.venues = db.venues /\ db'.stations = db.stations /\ db'.rentals = db.rentals
  BY DEF RowsConsistent, RowsTyped, Tables
<1> QED
  BY <1>1 DEF RowsConsistent, RowsTyped, StationFollowsVenue, OpenRentalKeepsPartner

\* An accepted request counts.
LEMMA ServedCounts ==
  ASSUME RowsInv, NEW b, Served(b), writes < MaxWrites
  PROVE  writes' \in 0 .. MaxWrites
BY RatesAssumption DEF RowsInv, Served

-----------------------------------------------------------------------------
(* The routes.                                                             *)

\* The forms of venues.
LEMMA VenuesStep ==
  ASSUME RowsConsistent(db), NEW b \in Tabs, NEW q, Sent(q), CreateVenue(b, q) \/ UpdateVenue(b, q)
  PROVE  RowsConsistent(db)'
<1>1. HasRows(db.venues, Venues, Venue)
  BY DEF RowsConsistent, RowsTyped
<1>2. CASE CreateVenue(b, q)
  <2> PICK v \in Venues \ DOMAIN db.venues :
         db' = [db EXCEPT !.venues = With(db.venues, v, [partner |-> q.partner, address |-> q.address])]
    BY <1>2 DEF CreateVenue
  <2> DEFINE row == [partner |-> q.partner, address |-> q.address]
             table == With(db.venues, v, row)
  <2>1. row \in Venue
    BY <1>2 DEF CreateVenue, Asks, Sent, Venue
  <2> HIDE DEF row
  <2>2. /\ HasRows(table, Venues, Venue)
        /\ \A w \in DOMAIN db.venues : w \in DOMAIN table /\ table[w].partner = db.venues[w].partner
    BY <1>1, <2>1 DEF With, HasRows, Venue
  <2>3. db' = [db EXCEPT !.venues = table]
    BY DEF row
  <2> HIDE DEF table
  <2> QED
    BY <2>2, <2>3, VenuesKept
<1>3. CASE UpdateVenue(b, q)
  <2> DEFINE row == [db.venues[q.venue] EXCEPT !.address = q.address]
             table == [db.venues EXCEPT ![q.venue] = row]
  <2>1. /\ q.venue \in DOMAIN db.venues /\ q.address \in Addresses
        /\ db' = [db EXCEPT !.venues = table]
    BY <1>3 DEF UpdateVenue, Asks, Sent
  <2>2. db.venues[q.venue] \in Venue
    BY <1>1, <2>1 DEF HasRows
  <2>3. row \in Venue /\ row.partner = db.venues[q.venue].partner
    BY <2>1, <2>2 DEF Venue
  <2> HIDE DEF row
  <2>4. /\ HasRows(table, Venues, Venue)
        /\ \A w \in DOMAIN db.venues : w \in DOMAIN table /\ table[w].partner = db.venues[w].partner
    BY <1>1, <2>1, <2>3 DEF HasRows
  <2> HIDE DEF table
  <2> QED
    BY <2>1, <2>4, VenuesKept
<1> QED
  BY <1>2, <1>3

\* A station that is written stands in a venue of its partner, the old one or another that exists.
LEMMA StationWritten ==
  ASSUME RowsConsistent(db), NEW s \in DOMAIN db.stations, NEW row \in Station,
         db' = [db EXCEPT !.stations[s] = row],
         row.venue \in DOMAIN db.venues, row.partner = db.venues[row.venue].partner,
         row.partner = db.stations[s].partner \/ Open(db, s) = {}
  PROVE  RowsConsistent(db)'
<1> DEFINE table == [db.stations EXCEPT ![s] = row]
<1>1. db' = [db EXCEPT !.stations = table]
  OBVIOUS
<1>2. HasRows(table, Stations, Station)
  BY DEF RowsConsistent, RowsTyped, HasRows
<1>3. \A i \in DOMAIN table : /\ table[i].venue \in DOMAIN db.venues
                              /\ table[i].partner = db.venues[table[i].venue].partner
  BY DEF RowsConsistent, StationFollowsVenue
<1>4. \A i \in DOMAIN db.stations :
        i \in DOMAIN table /\ (table[i].partner = db.stations[i].partner \/ Open(db, i) = {})
  OBVIOUS
<1> HIDE DEF table
<1> QED
  BY <1>1, <1>2, <1>3, <1>4, StationsKept

\* The forms of stations: created, moved, archived, restored, blocked.
LEMMA StationsStep ==
  ASSUME RowsConsistent(db), NEW b \in Tabs, NEW q,
         \/ CreateStation(b, q) \/ RelocateStation(b, q) \/ ArchiveStation(b, q) \/ RestoreStation(b, q)
         \/ BlockStationRentals(b, q) \/ UnblockStationRentals(b, q)
  PROVE  RowsConsistent(db)'
<1>1. HasRows(db.stations, Stations, Station) /\ HasRows(db.venues, Venues, Venue)
  BY DEF RowsConsistent, RowsTyped
<1>2. CASE CreateStation(b, q)
  <2> PICK s \in Stations \ DOMAIN db.stations :
         db' = [db EXCEPT !.stations = With(db.stations, s, NewStation(q.partner, q.venue))]
    BY <1>2 DEF CreateStation
  <2> DEFINE row == NewStation(q.partner, q.venue)
             table == With(db.stations, s, row)
  <2>1. /\ q.partner \in Partners /\ q.venue \in DOMAIN db.venues
        /\ db.venues[q.venue].partner = q.partner
    BY <1>2 DEF CreateStation, CanCreateStation
  <2>2. row \in Station /\ row.venue = q.venue /\ row.partner = q.partner
    BY <1>1, <2>1 DEF NewStation, Station, HasRows
  <2>3. db' = [db EXCEPT !.stations = table]
    OBVIOUS
  <2> HIDE DEF row
  <2>4. /\ HasRows(table, Stations, Station) /\ DOMAIN table = DOMAIN db.stations \cup {s}
        /\ table[s] = row /\ \A i \in DOMAIN db.stations \ {s} : table[i] = db.stations[i]
    BY <1>1, <2>2 DEF With, HasRows
  <2> HIDE DEF table
  <2>5. \A i \in DOMAIN table : /\ table[i].venue \in DOMAIN db.venues
                                /\ table[i].partner = db.venues[table[i].venue].partner
    BY <2>1, <2>2, <2>4 DEF RowsConsistent, StationFollowsVenue
  <2> QED
    BY <2>3, <2>4, <2>5, StationsKept
<1>3. CASE RelocateStation(b, q)
  <2> DEFINE s == q.station
             row == Relocated(s, q.venue)
  <2>1. CanRelocate(s, q.venue) /\ db' = [db EXCEPT !.stations[s] = row]
    BY <1>3 DEF RelocateStation
  <2>2. s \in DOMAIN db.stations /\ q.venue \in DOMAIN db.venues /\ db.stations[s] \in Station
    BY <1>1, <2>1 DEF CanRelocate, HasRows
  <2>3. q.venue \in Venues /\ db.venues[q.venue].partner \in Partners
    BY <1>1, <2>2 DEF HasRows, Venue
  <2>4. row \in Station /\ row.venue = q.venue /\ row.partner = db.venues[q.venue].partner
    BY <2>2, <2>3 DEF Relocated, Station
  <2>5. row.partner = db.stations[s].partner \/ Open(db, s) = {}
    BY <2>1, <2>4 DEF CanRelocate
  <2> HIDE DEF row, s
  <2> QED
    BY <2>1, <2>2, <2>4, <2>5, StationWritten
<1>4. CASE \/ ArchiveStation(b, q) \/ RestoreStation(b, q)
           \/ BlockStationRentals(b, q) \/ UnblockStationRentals(b, q)
  <2> DEFINE s == q.station
             archived(v) == [db.stations[s] EXCEPT !.archived = v]
             blocked(v) == [db.stations[s] EXCEPT !.blocked = v]
  <2>1. /\ s \in DOMAIN db.stations
        /\ \E v \in BOOLEAN :
             db' = [db EXCEPT !.stations[s] = archived(v)] \/ db' = [db EXCEPT !.stations[s] = blocked(v)]
    BY <1>4 DEF ArchiveStation, CanArchive, RestoreStation, BlockStationRentals, UnblockStationRentals
  <2> PICK v \in BOOLEAN :
         db' = [db EXCEPT !.stations[s] = archived(v)] \/ db' = [db EXCEPT !.stations[s] = blocked(v)]
    BY <2>1
  <2>2. db.stations[s] \in Station
    BY <1>1, <2>1 DEF HasRows
  <2>3. /\ archived(v) \in Station /\ blocked(v) \in Station
        /\ archived(v).venue = db.stations[s].venue /\ archived(v).partner = db.stations[s].partner
        /\ blocked(v).venue = db.stations[s].venue /\ blocked(v).partner = db.stations[s].partner
    BY <2>2 DEF Station
  <2>4. /\ db.stations[s].venue \in DOMAIN db.venues
        /\ db.stations[s].partner = db.venues[db.stations[s].venue].partner
    BY <2>1 DEF RowsConsistent, StationFollowsVenue
  <2> HIDE DEF archived, blocked, s
  <2> QED
    BY <2>1, <2>3, <2>4, StationWritten
<1> QED
  BY <1>2, <1>3, <1>4

\* Commissions, prices, promotions asked for and tickets.
LEMMA DeskStep ==
  ASSUME RowsConsistent(db), NEW b \in Tabs, NEW q, Sent(q), Desk(b, q)
  PROVE  RowsConsistent(db)'
<1>1. /\ db.partners \in [Partners -> Rates \cup {None}] /\ db.grid \in Rates
      /\ HasRows(db.tickets, Tickets, Ticket) /\ HasRows(db.venues, Venues, Venue)
      /\ HasRows(db.rentals, Rentals, Rental)
  BY DEF RowsConsistent, RowsTyped
<1>2. CASE SetPartnerCommission(b, q)
  <2> DEFINE rates == [db.partners EXCEPT ![q.partner] = q.rate]
  <2>1. rates \in [Partners -> Rates \cup {None}] /\ db' = [db EXCEPT !.partners = rates]
    BY <1>1, <1>2 DEF SetPartnerCommission, Asks, Sent
  <2> HIDE DEF rates
  <2> QED
    BY <1>1, <2>1, RatesKept
<1>3. CASE SetPricing(b, q)
  <2>1. q.rate \in Rates /\ db' = [db EXCEPT !.grid = q.rate]
    BY <1>3 DEF SetPricing, Asks, Sent
  <2> QED
    BY <1>1, <2>1, RatesKept
<1>4. ASSUME NEW t \in Tickets \ DOMAIN db.tickets, NEW p \in Tenant,
             db' = [db EXCEPT !.tickets = With(db.tickets, t, [partner |-> p, open |-> TRUE])]
      PROVE  RowsConsistent(db)'
  <2> DEFINE row == [partner |-> p, open |-> TRUE]
             table == With(db.tickets, t, row)
  <2>1. row \in Ticket
    BY DEF Ticket
  <2>2. db' = [db EXCEPT !.tickets = table]
    BY <1>4
  <2> HIDE DEF row
  <2>3. HasRows(table, Tickets, Ticket)
    BY <1>1, <2>1 DEF With, HasRows
  <2> HIDE DEF table
  <2> QED
    BY <2>2, <2>3, TicketsKept
<1>5. CASE RequestPromo(b, q)
  <2>1. db.venues[q.venue].partner \in Tenant
    BY <1>1, <1>5 DEF RequestPromo, HasRows, Venue, Tenant
  <2> QED
    BY <1>4, <1>5, <2>1 DEF RequestPromo
<1>6. CASE CreateTicket(b, q)
  <2> DEFINE p == IF q.rental = None THEN PartnerOf[b] ELSE db.rentals[q.rental].partner
  <2>1. p \in Tenant
    <3>1. CASE q.rental = None
      BY <3>1, TabsAssumption
    <3>2. CASE q.rental # None
      <4>1. q.rental \in DOMAIN db.rentals
        BY <1>6, <3>2 DEF CreateTicket
      <4>2. db.rentals[q.rental] \in Rental
        BY <1>1, <4>1 DEF HasRows
      <4> QED
        BY <3>2, <4>2 DEF Rental, Tenant
    <3> QED
      BY <3>1, <3>2
  <2>2. \E t \in Tickets \ DOMAIN db.tickets :
          db' = [db EXCEPT !.tickets = With(db.tickets, t, [partner |-> p, open |-> TRUE])]
    BY <1>6 DEF CreateTicket
  <2> HIDE DEF p
  <2> QED
    BY <1>4, <2>1, <2>2
<1>7. CASE ResolveTicket(b, q)
  <2> DEFINE row == [db.tickets[q.ticket] EXCEPT !.open = FALSE]
             table == [db.tickets EXCEPT ![q.ticket] = row]
  <2>1. q.ticket \in DOMAIN db.tickets /\ db' = [db EXCEPT !.tickets = table]
    BY <1>7 DEF ResolveTicket
  <2>2. db.tickets[q.ticket] \in Ticket
    BY <1>1, <2>1 DEF HasRows
  <2>3. row \in Ticket
    BY <2>2 DEF Ticket
  <2> HIDE DEF row
  <2>4. HasRows(table, Tickets, Ticket)
    BY <1>1, <2>3 DEF HasRows
  <2> HIDE DEF table
  <2> QED
    BY <2>1, <2>4, TicketsKept
<1> QED
  BY <1>2, <1>3, <1>5, <1>6, <1>7 DEF Desk

\* A rental starts with the partner of its station and its rate, and ends.
LEMMA CustomersStep ==
  ASSUME RowsInv, Customers
  PROVE  RowsInv' /\ UNCHANGED form
<1>1. /\ db.partners \in [Partners -> Rates \cup {None}] /\ db.grid \in Rates
      /\ HasRows(db.stations, Stations, Station) /\ HasRows(db.rentals, Rentals, Rental)
      /\ RowsConsistent(db)
  BY DEF RowsInv, RowsConsistent, RowsTyped
<1>2. CASE \E r \in Rentals, s \in DOMAIN db.stations : StartRental(s, r)
  <2> PICK r \in Rentals, s \in DOMAIN db.stations : StartRental(s, r)
    BY <1>2
  <2> DEFINE p == db.stations[s].partner
             row == [station |-> s, partner |-> p, rate |-> RateFor(p), state |-> "GOING"]
             table == With(db.rentals, r, row)
  <2>1. s \in Stations /\ p \in Partners
    BY <1>1 DEF HasRows, Station
  <2>2. RateFor(p) \in Rates
    BY <1>1, <2>1 DEF RateFor
  <2>3. /\ db' = [db EXCEPT !.rentals = table] /\ writes < MaxWrites /\ writes' = writes + 1
        /\ UNCHANGED form
    BY DEF StartRental, OneWriteMore
  <2>4. row \in Rental /\ row.station = s /\ row.partner = p
    BY <2>1, <2>2 DEF Rental, States, OpenStates
  <2>5. writes' \in 0 .. MaxWrites
    BY <2>3, RatesAssumption DEF RowsInv
  <2> HIDE DEF row
  <2>6. HasRows(table, Rentals, Rental)
    BY <1>1, <2>4 DEF With, HasRows
  <2>7. \A i \in DOMAIN table : IsOpen(table[i]) =>
          /\ table[i].station \in DOMAIN db.stations
          /\ db.stations[table[i].station].partner = table[i].partner
    BY <1>1, <2>4 DEF With, RowsConsistent, OpenRentalKeepsPartner
  <2> HIDE DEF table
  <2> QED
    BY <1>1, <2>3, <2>5, <2>6, <2>7, RentalsKept DEF RowsInv
<1>3. CASE \E r \in DOMAIN db.rentals : ReturnRental(r) \/ PaymentFails(r) \/ SettleRental(r) \/ CloseRental(r)
  <2>1. PICK r \in DOMAIN db.rentals, from \in SUBSET OpenStates, to \in States : Goes(r, from, to)
    BY <1>3 DEF ReturnRental, PaymentFails, SettleRental, CloseRental, OpenStates, States
  <2> DEFINE row == [db.rentals[r] EXCEPT !.state = to]
             table == [db.rentals EXCEPT ![r] = row]
  <2>2. db' = [db EXCEPT !.rentals = table] /\ UNCHANGED form /\ IsOpen(db.rentals[r])
    BY <2>1 DEF Goes, IsOpen
  <2>3. writes' \in 0 .. MaxWrites
    BY <1>3, RatesAssumption DEF ReturnRental, PaymentFails, SettleRental, CloseRental, OneWriteMore, RowsInv
  <2>4. db.rentals[r] \in Rental
    BY <1>1 DEF HasRows
  <2>5. row \in Rental /\ row.station = db.rentals[r].station /\ row.partner = db.rentals[r].partner
    BY <2>4 DEF Rental, States
  <2> HIDE DEF row
  <2>6. HasRows(table, Rentals, Rental)
    BY <1>1, <2>5 DEF HasRows
  <2>7. \A i \in DOMAIN table : IsOpen(table[i]) =>
          /\ table[i].station \in DOMAIN db.stations
          /\ db.stations[table[i].station].partner = table[i].partner
    BY <1>1, <2>2, <2>5 DEF RowsConsistent, OpenRentalKeepsPartner
  <2> HIDE DEF table
  <2> QED
    BY <1>1, <2>2, <2>3, <2>6, <2>7, RentalsKept DEF RowsInv
<1> QED
  BY <1>2, <1>3 DEF Customers

\* What a request leaves: consistent rows, and a form that has its answer.
LEMMA ServeStep ==
  ASSUME RowsInv, NEW b \in Tabs, NEW q, Sent(q), Serve(b, q)
  PROVE  /\ RowsInv'
         /\ form' = [form EXCEPT ![b] = "done"] \/ (form' = [form EXCEPT ![b] = "refused"] /\ UNCHANGED db)
<1>1. CASE Rows(b, q) \/ Desk(b, q)
  <2>1. Served(b) /\ writes < MaxWrites
    <3>1. CASE Rows(b, q)
      BY <3>1 DEF Rows, CreateVenue, UpdateVenue, CreateStation, RelocateStation, ArchiveStation,
                  RestoreStation, BlockStationRentals, UnblockStationRentals, Asks
    <3>2. CASE Desk(b, q)
      BY <3>2 DEF Desk, SetPartnerCommission, SetPricing, RequestPromo, CreateTicket, ResolveTicket, Asks
    <3> QED
      BY <1>1, <3>1, <3>2
  <2>2. RowsConsistent(db)'
    BY <1>1, VenuesStep, StationsStep, DeskStep DEF Rows, RowsInv
  <2> QED
    BY <2>1, <2>2, ServedCounts DEF RowsInv, Served
<1>2. CASE Refuse(b)
  BY <1>2 DEF Refuse, RowsInv, RowsConsistent, RowsTyped, StationFollowsVenue, OpenRentalKeepsPartner
<1> QED
  BY <1>1, <1>2 DEF Serve

-----------------------------------------------------------------------------
(* The tabs.                                                               *)

\* A step that writes no row.
LEMMA SameRows ==
  ASSUME RowsInv, UNCHANGED <<db, writes>>
  PROVE  RowsInv'
BY DEF RowsInv, RowsConsistent, RowsTyped, StationFollowsVenue, OpenRentalKeepsPartner

\* What a tab is told when it reads.
LEMMA ReadSeen ==
  ASSUME RowsInv, NEW b \in Tabs
  PROVE  Seen(Read(b)) /\ Read(b) # Blank /\ Seen(Blank)
BY DashboardTyped DEF Read, Blank, Content, Seen

\* A tab reads, shows, waits, loses an answer or its session, and writes nothing.
LEMMA TabStep ==
  ASSUME PortalInv, NEW b \in Tabs, Tab(b)
  PROVE  PortalInv' /\ UNCHANGED db
<1> USE DEF PortalInv, TabsTyped, Waits, Forms, Vias
<1>1. CASE Poll(b)
  BY <1>1, SameRows, ReadSeen DEF Poll, Stay, server
<1>2. CASE Accepted(b)
  BY <1>2, SameRows, ReadSeen DEF Accepted
<1>3. CASE Expire(b) \/ Login(b)
  BY <1>3, SameRows DEF Expire, Login
<1>4. CASE Reload(b)
  BY <1>4, SameRows, ReadSeen DEF Reload, Stay, server, Idle
<1>5. ASSUME NEW via \in Vias, Deliver(b, via) \/ Lose(b, via)
      PROVE  PortalInv' /\ UNCHANGED db
  <2>1. /\ reads' = [reads EXCEPT ![b][via] = Blank]
        /\ IF via = "form" THEN form' = [form EXCEPT ![b] = "idle"] ELSE UNCHANGED form
        /\ UNCHANGED <<db, writes>> /\ reads[b][via] # Blank
    BY <1>5 DEF Deliver, Lose, Arrived
  <2>2. RowsInv'
    BY <2>1, SameRows
  <2>3. Waits' /\ form' \in [Tabs -> Forms]
    BY <2>1
  <2>4. /\ DOMAIN page' = Tabs /\ DOMAIN reads' = Tabs
        /\ \A t \in Tabs : /\ DOMAIN page'[t] = {"shown", "signed"} /\ page'[t].signed \in BOOLEAN
                           /\ Seen(page'[t].shown)
                           /\ DOMAIN reads'[t] = Vias /\ \A v \in Vias : Seen(reads'[t][v])
    <3>1. CASE Deliver(b, via)
      <4>1. Seen(page[b].shown) /\ Seen(reads[b][via])
        OBVIOUS
      <4>2. \E content : Seen(content) /\ page' = [page EXCEPT ![b].shown = content]
        BY <3>1, <4>1 DEF Deliver, Shown
      <4> QED
        BY <2>1, <4>2, ReadSeen
    <3>2. CASE Lose(b, via)
      <4>1. page' = page
        BY <3>2 DEF Lose
      <4> QED
        BY <2>1, <4>1, ReadSeen
    <3> QED
      BY <1>5, <3>1, <3>2
  <2> QED
    BY <2>1, <2>2, <2>3, <2>4
<1> QED
  BY <1>1, <1>2, <1>3, <1>4, <1>5 DEF Tab

\* A click keeps the invariant.
LEMMA SubmitStep ==
  ASSUME PortalInv, NEW b \in Tabs, Submit(b)
  PROVE  PortalInv'
<1> USE DEF PortalInv, TabsTyped, Waits, Forms
<1>1. \/ \E q : Sent(q) /\ Serve(b, q)
      \/ Refuse(b)
  BY SubmitServes
<1>2. RowsInv' /\ (form' = [form EXCEPT ![b] = "done"] \/ form' = [form EXCEPT ![b] = "refused"])
  <2>1. CASE Refuse(b)
    BY <2>1, SameRows DEF Refuse
  <2> QED
    BY <1>1, <2>1, ServeStep
<1>3. form[b] = "idle" /\ UNCHANGED <<page, reads>>
  BY DEF Submit, Idle
<1> QED
  BY <1>2, <1>3

\* So does a form given up.
LEMMA FailedStep ==
  ASSUME PortalInv, NEW b \in Tabs, Failed(b)
  PROVE  PortalInv' /\ UNCHANGED db
BY SameRows DEF PortalInv, TabsTyped, Waits, Forms, Failed

\* It holds at first.
LEMMA InitHolds == Init => PortalInv
<1> SUFFICES ASSUME Init PROVE PortalInv
  OBVIOUS
<1>1. RowsInv
  BY DatabasesAssumption, RatesAssumption DEF Init, RowsInv
<1>2. TabsTyped /\ Waits
  BY DEF Init, TabsTyped, Waits, Forms, Vias, Seen, Blank, Content
<1> QED
  BY <1>1, <1>2 DEF PortalInv

\* No step disturbs it.
LEMMA NextHolds ==
  ASSUME PortalInv, [Next]_vars
  PROVE  PortalInv'
<1>1. CASE Customers /\ UNCHANGED <<page, reads>>
  <2>1. RowsInv' /\ UNCHANGED form
    BY <1>1, CustomersStep DEF PortalInv
  <2> QED
    BY <1>1, <2>1 DEF PortalInv, TabsTyped, Waits
<1>2. CASE \E b \in Tabs : Submit(b) \/ Failed(b)
  BY <1>2, SubmitStep, FailedStep
<1>3. CASE \E b \in Pages : Tab(b)
  BY <1>3, TabStep DEF Pages
<1>4. CASE UNCHANGED vars
  BY <1>4, SameRows DEF vars, PortalInv, TabsTyped, Waits
<1> QED
  BY <1>1, <1>2, <1>3, <1>4 DEF Next

-----------------------------------------------------------------------------
(* The theorems.                                                           *)

\* The rows, the requests and the pages keep their types and their coherence, whatever the logins,
\* programs, customers and sessions do, and however answers are lost or overtaken.
THEOREM PortalInvariant == Spec => []PortalInv
BY InitHolds, NextHolds, PTL DEF Spec

\* A station always belongs to the partner of its venue, and an open rental to the partner its
\* station belongs to (createStation, relocateStation): no form shown too long can break it.
THEOREM RowsAreConsistent == Spec => []PortalConsistent
<1>1. PortalInv => PortalConsistent
  BY DEF PortalInv, RowsInv, TabsTyped, Waits, PortalConsistent
<1> QED
  BY <1>1, PortalInvariant, PTL

-----------------------------------------------------------------------------
(* Tenants.  The inductive invariant only gives the tables their fields;   *)
(* what confines a request is the check each route makes on the row itself. *)

\* TenantConfined for one login.
Confined(b) ==
  /\ \A k \in Venues  : Changed(db.venues, k)  => InTenant(b, db.venues[k].partner)
  /\ \A k \in Tickets : Changed(db.tickets, k) => InTenant(b, db.tickets[k].partner)
  /\ \A k \in Stations : Changed(db.stations, k) =>
       /\ InTenant(b, db.stations[k].partner)
       /\ db'.stations[k].partner # db.stations[k].partner => RoleOf[b] \in Owners

\* A request that adds a row changes none.
LEMMA NewRow ==
  ASSUME NEW table, NEW k, k \notin DOMAIN table, NEW row
  PROVE  \A i \in DOMAIN table : With(table, k, row)[i] = table[i]
BY DEF With

\* A station that is written without being moved.
LEMMA StationConfined ==
  ASSUME RowsInv, NEW b \in Tabs, NEW s \in DOMAIN db.stations,
         InTenant(b, db.stations[s].partner), NEW row,
         row.partner = db.stations[s].partner \/ RoleOf[b] \in Owners,
         db' = [db EXCEPT !.stations[s] = row]
  PROVE  Confined(b)
<1>1. /\ DOMAIN db = Tables /\ db'.venues = db.venues /\ db'.tickets = db.tickets
      /\ db'.stations = [db.stations EXCEPT ![s] = row]
  BY DEF RowsInv, RowsConsistent, RowsTyped, Tables
<1> QED
  BY <1>1 DEF Confined, Changed

\* The forms of venues and stations stay in the tenant of their login.
LEMMA RowsConfined ==
  ASSUME RowsInv, NEW b \in Tabs, NEW q, Rows(b, q)
  PROVE  Confined(b)
<1>1. DOMAIN db = Tables /\ HasRows(db.stations, Stations, Station)
  BY DEF RowsInv, RowsConsistent, RowsTyped
<1>2. CASE CreateVenue(b, q)
  <2> PICK v \in Venues \ DOMAIN db.venues :
         db' = [db EXCEPT !.venues = With(db.venues, v, [partner |-> q.partner, address |-> q.address])]
    BY <1>2 DEF CreateVenue
  <2>1. /\ db'.venues = With(db.venues, v, [partner |-> q.partner, address |-> q.address])
        /\ db'.stations = db.stations /\ db'.tickets = db.tickets
    BY <1>1 DEF Tables
  <2> QED
    BY <2>1, NewRow DEF Confined, Changed
<1>3. CASE UpdateVenue(b, q)
  <2>1. /\ q.venue \in DOMAIN db.venues /\ InTenant(b, db.venues[q.venue].partner)
        /\ \A k \in DOMAIN db.venues : k # q.venue => db'.venues[k] = db.venues[k]
        /\ db'.stations = db.stations /\ db'.tickets = db.tickets
    BY <1>1, <1>3 DEF UpdateVenue, Tables
  <2> QED
    BY <2>1 DEF Confined, Changed
<1>4. CASE CreateStation(b, q)
  <2> PICK s \in Stations \ DOMAIN db.stations :
         db' = [db EXCEPT !.stations = With(db.stations, s, NewStation(q.partner, q.venue))]
    BY <1>4 DEF CreateStation
  <2>1. /\ db'.stations = With(db.stations, s, NewStation(q.partner, q.venue))
        /\ db'.venues = db.venues /\ db'.tickets = db.tickets
    BY <1>1 DEF Tables
  <2> QED
    BY <2>1, NewRow DEF Confined, Changed
<1>5. CASE RelocateStation(b, q)
  <2>1. /\ q.station \in DOMAIN db.stations /\ InTenant(b, db.stations[q.station].partner)
        /\ db.venues[q.venue].partner # db.stations[q.station].partner => RoleOf[b] \in Owners
        /\ db' = [db EXCEPT !.stations[q.station] = Relocated(q.station, q.venue)]
    BY <1>5 DEF RelocateStation, CanRelocate, MayRelocate
  <2>2. Relocated(q.station, q.venue).partner = db.venues[q.venue].partner
    BY <1>1, <2>1 DEF Relocated, HasRows, Station
  <2> QED
    BY <2>1, <2>2, StationConfined
<1>6. CASE \/ ArchiveStation(b, q) \/ RestoreStation(b, q)
           \/ BlockStationRentals(b, q) \/ UnblockStationRentals(b, q)
  <2>1. q.station \in DOMAIN db.stations /\ InTenant(b, db.stations[q.station].partner)
    BY <1>6 DEF ArchiveStation, RestoreStation, BlockStationRentals, UnblockStationRentals, CanArchive
  <2>2. \E row : /\ row.partner = db.stations[q.station].partner
                 /\ db' = [db EXCEPT !.stations[q.station] = row]
    <3> DEFINE st == db.stations[q.station]
    <3>1. st \in Station
      BY <1>1, <2>1 DEF HasRows
    <3>2. \/ db' = [db EXCEPT !.stations[q.station] = [st EXCEPT !.archived = TRUE]]
          \/ db' = [db EXCEPT !.stations[q.station] = [st EXCEPT !.archived = FALSE]]
          \/ db' = [db EXCEPT !.stations[q.station] = [st EXCEPT !.blocked = TRUE]]
          \/ db' = [db EXCEPT !.stations[q.station] = [st EXCEPT !.blocked = FALSE]]
      BY <1>6 DEF ArchiveStation, RestoreStation, BlockStationRentals, UnblockStationRentals
    <3>3. /\ [st EXCEPT !.archived = TRUE].partner = st.partner
          /\ [st EXCEPT !.archived = FALSE].partner = st.partner
          /\ [st EXCEPT !.blocked = TRUE].partner = st.partner
          /\ [st EXCEPT !.blocked = FALSE].partner = st.partner
      BY <3>1 DEF Station
    <3> HIDE DEF st
    <3> QED
      BY <3>2, <3>3 DEF st
  <2> QED
    BY <2>1, <2>2, StationConfined
<1> QED
  BY <1>2, <1>3, <1>4, <1>5, <1>6 DEF Rows

\* So do those of the desk.
LEMMA DeskConfined ==
  ASSUME RowsInv, NEW b \in Tabs, NEW q, Desk(b, q)
  PROVE  Confined(b)
<1>1. DOMAIN db = Tables
  BY DEF RowsInv, RowsConsistent, RowsTyped
<1>2. CASE SetPartnerCommission(b, q) \/ SetPricing(b, q)
  <2>1. db'.venues = db.venues /\ db'.stations = db.stations /\ db'.tickets = db.tickets
    BY <1>1, <1>2 DEF SetPartnerCommission, SetPricing, Tables
  <2> QED
    BY <2>1 DEF Confined, Changed
<1>3. CASE RequestPromo(b, q) \/ CreateTicket(b, q)
  <2>1. \E row : \E t \in Tickets \ DOMAIN db.tickets :
          db' = [db EXCEPT !.tickets = With(db.tickets, t, row)]
    BY <1>3 DEF RequestPromo, CreateTicket
  <2> PICK row : \E t \in Tickets \ DOMAIN db.tickets :
         db' = [db EXCEPT !.tickets = With(db.tickets, t, row)]
    BY <2>1
  <2> PICK t \in Tickets \ DOMAIN db.tickets :
         db' = [db EXCEPT !.tickets = With(db.tickets, t, row)]
    OBVIOUS
  <2>2. /\ db'.tickets = With(db.tickets, t, row)
        /\ db'.venues = db.venues /\ db'.stations = db.stations
    BY <1>1 DEF Tables
  <2> QED
    BY <2>2, NewRow DEF Confined, Changed
<1>4. CASE ResolveTicket(b, q)
  <2>1. /\ q.ticket \in DOMAIN db.tickets /\ InTenant(b, db.tickets[q.ticket].partner)
        /\ \A k \in DOMAIN db.tickets : k # q.ticket => db'.tickets[k] = db.tickets[k]
        /\ db'.stations = db.stations /\ db'.venues = db.venues
    BY <1>1, <1>4 DEF ResolveTicket, Tables
  <2> QED
    BY <2>1 DEF Confined, Changed
<1> QED
  BY <1>2, <1>3, <1>4 DEF Desk

\* A click confines the login that made it, and answers no other form.
LEMMA SubmitConfined ==
  ASSUME PortalInv, NEW b \in Tabs, Submit(b), NEW t \in Tabs, form'[t] # form[t]
  PROVE  Confined(t)
<1>1. RowsInv /\ form \in [Tabs -> Forms]
  BY DEF PortalInv, TabsTyped
<1>2. CASE Refuse(b)
  BY <1>2 DEF Refuse, Confined, Changed
<1>3. CASE \E q : Sent(q) /\ Serve(b, q) /\ ~Refuse(b)
  <2> PICK q : Sent(q) /\ Serve(b, q) /\ ~Refuse(b)
    BY <1>3
  <2>1. Confined(b)
    BY <1>1, RowsConfined, DeskConfined DEF Serve
  <2>2. t = b
    BY <1>1, ServeStep
  <2> QED
    BY <2>1, <2>2
<1> QED
  BY <1>2, <1>3, SubmitServes

\* A login changes only rows of its own tenant, and only an owner gives a station away, from a page
\* of any age or from a program (assertTenant inside each transaction).
THEOREM Tenants == Spec => TenantConfined
<1>1. ASSUME PortalInv, [Next]_vars
      PROVE  [\A b \in Tabs : form'[b] # form[b] => Confined(b)]_server
  <2> SUFFICES ASSUME NEW t \in Tabs, form'[t] # form[t]
               PROVE  Confined(t)
    OBVIOUS
  <2>1. CASE Customers
    BY <1>1, <2>1, CustomersStep DEF PortalInv
  <2>2. CASE \E b \in Tabs : Submit(b) \/ Failed(b)
    <3>1. CASE \E b \in Tabs : Submit(b)
      BY <1>1, <3>1, SubmitConfined
    <3>2. CASE UNCHANGED db
      BY <3>2 DEF Confined, Changed
    <3> QED
      BY <1>1, <2>2, <3>1, <3>2, FailedStep
  <2>3. CASE \E b \in Pages : Tab(b)
    <3>1. UNCHANGED db
      BY <1>1, <2>3, TabStep DEF Pages
    <3> QED
      BY <3>1 DEF Confined, Changed
  <2>4. CASE UNCHANGED vars
    BY <2>4 DEF vars
  <2> QED
    BY <1>1, <2>1, <2>2, <2>3, <2>4 DEF Next
<1> QED
  BY <1>1, PortalInvariant, PTL DEF Spec, TenantConfined, Confined

-----------------------------------------------------------------------------
(* Sums.  A total is a fold over a set, one member after the other; nothing *)
(* below rests on the order.                                                *)

\* What a fold that has come to s is worth, given what the smaller sets are worth.
Tally(rows, s, g) ==
  IF s = {} THEN 0 ELSE LET x == CHOOSE x \in s : TRUE IN rows[x].rate + g[s \ {x}]
Tallies(rows, S, g) == g = [s \in SUBSET S |-> Tally(rows, s, g)]
Total(rows, S) == MapThenSumSet(LAMBDA r : rows[r].rate, S)
Priced(rows, S) == IsFiniteSet(S) /\ \A x \in S : rows[x].rate \in Nat

\* The sum of the model, as its tally gives it.
LEMMA TotalIs ==
  ASSUME NEW rows, NEW S
  PROVE  Total(rows, S) = (CHOOSE g : Tallies(rows, S, g))[S]
BY DEF Total, MapThenSumSet, MapThenFoldSet, Tallies, Tally

\* A set of numbers that is not empty has a least one.
LEMMA Least ==
  ASSUME NEW S \in SUBSET Nat, S # {}
  PROVE  \E x \in S : \A y \in S : x <= y
<1> DEFINE Before == OpToRel(<, Nat)
<1>1. \A y, z \in Nat : y < z => <<y, z>> \in Before
  BY DEF OpToRel
<1>2. IsWellFoundedOn(Before, Nat)
  BY NatLessThanWellFounded
<1> HIDE DEF Before
<1>3. PICK x \in S : \A y \in S : <<y, x>> \notin Before
  BY <1>2, WFMin
<1>4. \A y \in S : x <= y
  <2> TAKE y \in S
  <2>1. y \in Nat /\ x \in Nat /\ ~ (y < x)
    BY <1>1, <1>3
  <2> QED
    BY <2>1
<1> QED
  BY <1>3, <1>4

\* A family of finite sets that is not empty has a member none of whose proper subsets is in it.
LEMMA Smallest ==
  ASSUME NEW F, F # {}, \A s \in F : IsFiniteSet(s)
  PROVE  \E s \in F : \A x \in s : s \ {x} \notin F
<1> DEFINE N == {Cardinality(s) : s \in F}
<1>1. N \subseteq Nat /\ N # {}
  BY FS_CardinalityType
<1>2. PICK n \in N : \A m \in N : n <= m
  BY <1>1, Least
<1>3. PICK s \in F : n = Cardinality(s)
  BY <1>2
<1>4. ASSUME NEW x \in s, s \ {x} \in F
      PROVE  FALSE
  <2>1. Cardinality(s \ {x}) = n - 1 /\ n \in Nat
    BY <1>3, FS_RemoveElement, FS_CardinalityType
  <2>2. n <= Cardinality(s \ {x})
    BY <1>2, <1>4
  <2> QED
    BY <2>1, <2>2
<1> QED
  BY <1>3, <1>4

\* The members a fold takes out first.
LEMMA Picked ==
  ASSUME NEW s, s # {}
  PROVE  (CHOOSE x \in s : TRUE) \in s
OBVIOUS

\* Two tallies agree on a set whose rates they agree on.
LEMMA SameTally ==
  ASSUME NEW A, NEW B, NEW rows, NEW others, NEW g, NEW h,
         Tallies(rows, A, g), Tallies(others, B, h),
         NEW S, S \subseteq A, S \subseteq B, IsFiniteSet(S), \A x \in S : rows[x].rate = others[x].rate
  PROVE  g[S] = h[S]
<1> DEFINE F == {s \in SUBSET S : g[s] # h[s]}
<1> SUFFICES ASSUME F # {} PROVE FALSE
  OBVIOUS
<1>1. \A s \in F : IsFiniteSet(s)
  BY FS_Subset
<1>2. PICK s \in F : \A x \in s : s \ {x} \notin F
  BY <1>1, Smallest
<1>3. g[s] = Tally(rows, s, g) /\ h[s] = Tally(others, s, h)
  BY DEF Tallies
<1>4. CASE s = {}
  BY <1>3, <1>4 DEF Tally
<1>5. CASE s # {}
  <2> PICK x : x = CHOOSE y \in s : TRUE
    OBVIOUS
  <2>1. x \in s
    BY <1>5
  <2>2. g[s \ {x}] = h[s \ {x}]
    BY <1>2, <2>1
  <2>3. g[s] = rows[x].rate + g[s \ {x}] /\ h[s] = others[x].rate + h[s \ {x}]
    BY <1>3, <1>5 DEF Tally
  <2> QED
    BY <2>1, <2>2, <2>3
<1> QED
  BY <1>4, <1>5

\* Partial tallies: of the subsets with at most n members.
Upto(S, n) == {s \in SUBSET S : Cardinality(s) <= n}
PartlyTallied(rows, S, n) == \E g : g = [s \in Upto(S, n) |-> Tally(rows, s, g)]

\* With tallies up to n members there are tallies up to one more.
LEMMA OneMore ==
  ASSUME NEW rows, NEW S, IsFiniteSet(S), NEW n \in Nat, PartlyTallied(rows, S, n)
  PROVE  PartlyTallied(rows, S, n + 1)
<1> PICK g : g = [s \in Upto(S, n) |-> Tally(rows, s, g)]
  BY DEF PartlyTallied
<1> DEFINE h == [s \in Upto(S, n + 1) |-> Tally(rows, s, g)]
<1>1. \A s \in SUBSET S : Cardinality(s) \in Nat
  BY FS_Subset, FS_CardinalityType
<1>2. \A s \in Upto(S, n) : s \in Upto(S, n + 1) /\ h[s] = g[s]
  BY <1>1 DEF Upto
<1>3. ASSUME NEW s \in Upto(S, n + 1) PROVE Tally(rows, s, g) = Tally(rows, s, h)
  <2>1. CASE s = {}
    BY <2>1 DEF Tally
  <2>2. CASE s # {}
    <3> PICK x : x = CHOOSE y \in s : TRUE
      OBVIOUS
    <3>1. x \in s
      BY <2>2
    <3>2. IsFiniteSet(s) /\ s \subseteq S /\ Cardinality(s) <= n + 1
      BY FS_Subset DEF Upto
    <3>3. Cardinality(s \ {x}) = Cardinality(s) - 1 /\ Cardinality(s) \in Nat
      BY <3>1, <3>2, FS_RemoveElement, FS_CardinalityType
    <3>4. s \ {x} \in Upto(S, n)
      BY <3>2, <3>3 DEF Upto
    <3>5. g[s \ {x}] = h[s \ {x}]
      BY <1>2, <3>4
    <3> QED
      BY <2>2, <3>5 DEF Tally
  <2> QED
    BY <2>1, <2>2
<1>4. h = [s \in Upto(S, n + 1) |-> Tally(rows, s, h)]
  BY <1>3
<1> QED
  BY <1>4 DEF PartlyTallied

\* Every finite set has a tally.
LEMMA HasTally ==
  ASSUME NEW rows, NEW S, IsFiniteSet(S)
  PROVE  \E g : Tallies(rows, S, g)
<1> DEFINE N == {n \in Nat : ~PartlyTallied(rows, S, n)}
<1>1. PartlyTallied(rows, S, 0)
  <2> DEFINE g == [s \in Upto(S, 0) |-> 0]
  <2>1. ASSUME NEW s \in Upto(S, 0) PROVE s = {}
    <3>1. IsFiniteSet(s) /\ Cardinality(s) \in Nat /\ Cardinality(s) <= 0
      BY FS_Subset, FS_CardinalityType DEF Upto
    <3> QED
      BY <3>1, FS_EmptySet
  <2>2. g = [s \in Upto(S, 0) |-> Tally(rows, s, g)]
    BY <2>1 DEF Tally
  <2> QED
    BY <2>2 DEF PartlyTallied
<1>2. N = {}
  <2> SUFFICES ASSUME N # {} PROVE FALSE
    OBVIOUS
  <2>1. PICK n \in N : \A m \in N : n <= m
    BY Least
  <2>2. n # 0
    BY <1>1
  <2>3. n - 1 \in Nat /\ n - 1 \notin N
    BY <2>1, <2>2
  <2> QED
    BY <2>3, OneMore
<1>3. Cardinality(S) \in Nat
  BY FS_CardinalityType
<1>4. Upto(S, Cardinality(S)) = SUBSET S
  <2>1. \A s \in SUBSET S : Cardinality(s) <= Cardinality(S)
    BY FS_Subset
  <2> QED
    BY <2>1 DEF Upto
<1>5. PartlyTallied(rows, S, Cardinality(S))
  BY <1>2, <1>3
<1> QED
  BY <1>4, <1>5 DEF PartlyTallied, Tallies

\* The total is that of the tally.
LEMMA TotalTally ==
  ASSUME NEW rows, NEW S, IsFiniteSet(S)
  PROVE  \E g : Tallies(rows, S, g) /\ Total(rows, S) = g[S]
BY HasTally, TotalIs

\* The order in which a tally takes the members out does not matter.
LEMMA TakenOut ==
  ASSUME NEW rows, NEW S, Priced(rows, S), NEW g, Tallies(rows, S, g)
  PROVE  /\ \A s \in SUBSET S : g[s] \in Nat
         /\ \A s \in SUBSET S : \A x \in s : g[s] = rows[x].rate + g[s \ {x}]
<1>1. \A s \in SUBSET S : IsFiniteSet(s) /\ g[s] = Tally(rows, s, g)
  BY FS_Subset DEF Priced, Tallies
<1> DEFINE F == {s \in SUBSET S : g[s] \notin Nat}
<1>2. F = {}
  <2> SUFFICES ASSUME F # {} PROVE FALSE
    OBVIOUS
  <2>1. PICK s \in F : \A x \in s : s \ {x} \notin F
    BY <1>1, Smallest
  <2>2. CASE s = {}
    BY <1>1, <2>2 DEF Tally
  <2>3. CASE s # {}
    <3> PICK x : x = CHOOSE y \in s : TRUE
      OBVIOUS
    <3>1. x \in s
      BY <2>3
    <3>2. g[s] = rows[x].rate + g[s \ {x}]
      BY <1>1, <2>3 DEF Tally
    <3>3. g[s \ {x}] \in Nat /\ rows[x].rate \in Nat
      BY <2>1, <3>1 DEF Priced
    <3> QED
      BY <3>2, <3>3
  <2> QED
    BY <2>2, <2>3
<1> DEFINE Good(s) == \A x \in s : g[s] = rows[x].rate + g[s \ {x}]
           G == {s \in SUBSET S : ~Good(s)}
<1>3. G = {}
  <2> SUFFICES ASSUME G # {} PROVE FALSE
    OBVIOUS
  <2>1. PICK s \in G : \A x \in s : s \ {x} \notin G
    BY <1>1, Smallest
  <2>2. PICK x \in s : g[s] # rows[x].rate + g[s \ {x}]
    OBVIOUS
  <2> PICK c : c = CHOOSE y \in s : TRUE
    OBVIOUS
  <2>3. c \in s
    BY <2>2
  <2>4. g[s] = rows[c].rate + g[s \ {c}]
    BY <1>1, <2>2 DEF Tally
  <2>5. c # x
    BY <2>2, <2>4
  <2>6. Good(s \ {c}) /\ Good(s \ {x})
    BY <2>1, <2>2, <2>3
  <2>7. g[s \ {c}] = rows[x].rate + g[(s \ {c}) \ {x}]
    BY <2>2, <2>5, <2>6
  <2>8. g[s \ {x}] = rows[c].rate + g[(s \ {x}) \ {c}]
    BY <2>3, <2>5, <2>6
  <2>9. (s \ {c}) \ {x} = (s \ {x}) \ {c}
    OBVIOUS
  <2>10. /\ g[(s \ {c}) \ {x}] \in Nat /\ rows[x].rate \in Nat /\ rows[c].rate \in Nat
    BY <1>2, <2>2, <2>3 DEF Priced
  <2> PICK n \in Nat : n = g[(s \ {c}) \ {x}]
    BY <2>10
  <2> PICK p \in Nat : p = rows[x].rate
    BY <2>10
  <2> PICK q \in Nat : q = rows[c].rate
    BY <2>10
  <2>11. g[s \ {x}] = q + n
    BY <2>8, <2>9
  <2>12. g[s] = q + (p + n) /\ g[s] # p + (q + n)
    BY <2>2, <2>4, <2>7, <2>11
  <2> QED
    BY <2>12
<1> QED
  BY <1>2, <1>3

\* Totals over the same set at the same rates are the same.
LEMMA SameTotal ==
  ASSUME NEW rows, NEW others, NEW S, IsFiniteSet(S), \A x \in S : rows[x].rate = others[x].rate
  PROVE  Total(rows, S) = Total(others, S)
BY TotalTally, SameTally

\* A total is a number.
LEMMA TotalTyped ==
  ASSUME NEW rows, NEW S, Priced(rows, S)
  PROVE  Total(rows, S) \in Nat
<1> PICK g : Tallies(rows, S, g) /\ Total(rows, S) = g[S]
  BY TotalTally DEF Priced
<1> QED
  BY TakenOut

\* One row more, and the total is not less.
LEMMA TotalGrows ==
  ASSUME NEW rows, NEW others, NEW S, Priced(rows, S), NEW r, Priced(others, S \cup {r}),
         \A x \in S : rows[x].rate = others[x].rate
  PROVE  Total(others, S \cup {r}) >= Total(rows, S)
<1>1. IsFiniteSet(S) /\ IsFiniteSet(S \cup {r})
  BY DEF Priced
<1> PICK g : Tallies(rows, S, g) /\ Total(rows, S) = g[S]
  BY <1>1, TotalTally
<1> PICK h : Tallies(others, S \cup {r}, h) /\ Total(others, S \cup {r}) = h[S \cup {r}]
  BY <1>1, TotalTally
<1>2. g[S] = h[S]
  BY <1>1, SameTally
<1>3. CASE r \in S
  <2>1. S \cup {r} = S /\ g[S] \in Nat
    BY <1>3, TakenOut
  <2> QED
    BY <1>2, <2>1
<1>4. CASE r \notin S
  <2>1. (S \cup {r}) \ {r} = S
    BY <1>4
  <2>2. h[S \cup {r}] = others[r].rate + h[S] /\ h[S] \in Nat /\ others[r].rate \in Nat
    BY <2>1, TakenOut DEF Priced
  <2> QED
    BY <1>2, <2>2
<1> QED
  BY <1>3, <1>4

-----------------------------------------------------------------------------
(* What partners are owed.                                                 *)

\* The rentals that count.
Earned(d, p) == {r \in DOMAIN d.rentals : d.rentals[r].partner = p /\ d.rentals[r].state \in Counted}
FiniteRows(d) == IsFiniteSet(DOMAIN d.rentals)
\* What a step may do to the rentals: nothing, open one, or bring one from a state to another.
Opened == \E r, row : r \notin DOMAIN db.rentals /\ row.state = "GOING" /\ db'.rentals = With(db.rentals, r, row)
Moves == {<<"GOING", "RETURNED">>, <<"GOING", "CLOSED">>, <<"RETURNED", "ERROR">>,
          <<"RETURNED", "COMPLETED">>, <<"ERROR", "COMPLETED">>}
MovedTo(r, to) ==
  /\ r \in DOMAIN db.rentals /\ <<db.rentals[r].state, to>> \in Moves
  /\ db'.rentals = [db.rentals EXCEPT ![r].state = to]
SameRentals == db'.rentals = db.rentals

\* The statements of a partner add the rates of the rentals that count.
LEMMA OwedIs ==
  ASSUME NEW d, NEW p
  PROVE  Owed(d, p) = Total(d.rentals, Earned(d, p))
BY DEF Owed, Total, Earned

\* No request of a console or a program touches a rental.
LEMMA ServeKeepsRentals ==
  ASSUME RowsConsistent(db), NEW b, NEW q, Serve(b, q)
  PROVE  SameRentals
<1> USE DEF SameRentals
<1>1. DOMAIN db = Tables
  BY DEF RowsConsistent, RowsTyped
<1>2. CASE Rows(b, q)
  BY <1>1, <1>2 DEF Tables, Rows, CreateVenue, UpdateVenue, CreateStation, RelocateStation,
                    ArchiveStation, RestoreStation, BlockStationRentals, UnblockStationRentals
<1>3. CASE Desk(b, q)
  BY <1>1, <1>3 DEF Tables, Desk, SetPartnerCommission, SetPricing, RequestPromo, CreateTicket, ResolveTicket
<1>4. CASE Refuse(b)
  BY <1>4 DEF Refuse
<1> QED
  BY <1>2, <1>3, <1>4 DEF Serve

\* Nor does anything but a customer.
LEMMA RentalsMove ==
  ASSUME PortalInv, [Next]_vars
  PROVE  SameRentals \/ Opened \/ \E r, to : MovedTo(r, to)
<1>1. RowsConsistent(db) /\ DOMAIN db = Tables
  BY DEF PortalInv, RowsInv, RowsConsistent, RowsTyped
<1>2. CASE \E r \in Rentals, s \in DOMAIN db.stations : StartRental(s, r)
  <2> PICK r \in Rentals, s \in DOMAIN db.stations : StartRental(s, r)
    BY <1>2
  <2> DEFINE p == db.stations[s].partner
             row == [station |-> s, partner |-> p, rate |-> RateFor(p), state |-> "GOING"]
  <2>1. r \notin DOMAIN db.rentals /\ db'.rentals = With(db.rentals, r, row)
    BY <1>1 DEF StartRental, Tables
  <2>2. row.state = "GOING"
    OBVIOUS
  <2> HIDE DEF row
  <2> QED
    BY <2>1, <2>2 DEF Opened
<1>3. CASE \E r \in DOMAIN db.rentals : ReturnRental(r) \/ PaymentFails(r) \/ SettleRental(r) \/ CloseRental(r)
  <2>1. PICK r \in DOMAIN db.rentals : ReturnRental(r) \/ PaymentFails(r) \/ SettleRental(r) \/ CloseRental(r)
    BY <1>3
  <2>2. \A from, to : Goes(r, from, to) => db.rentals[r].state \in from /\ db'.rentals = [db.rentals EXCEPT ![r].state = to]
    BY <1>1 DEF Goes, Tables
  <2>3. \E to : \E from \in SUBSET OpenStates : Goes(r, from, to) /\ \A was \in from : <<was, to>> \in Moves
    <3>1. CASE ReturnRental(r) \/ CloseRental(r)
      BY <3>1 DEF ReturnRental, CloseRental, Moves, OpenStates
    <3>2. CASE PaymentFails(r)
      BY <3>2 DEF PaymentFails, Moves, OpenStates
    <3>3. CASE SettleRental(r)
      BY <3>3 DEF SettleRental, Moves, OpenStates
    <3> QED
      BY <2>1, <3>1, <3>2, <3>3
  <2>4. \E to : MovedTo(r, to)
    BY <2>2, <2>3 DEF MovedTo
  <2> QED
    BY <2>4
<1>4. CASE \E b \in Tabs : Submit(b)
  BY <1>1, <1>4, SubmitServes, ServeKeepsRentals DEF Refuse, SameRentals
<1>5. CASE \E b \in Tabs : Failed(b)
  BY <1>5, FailedStep DEF SameRentals
<1>6. CASE \E b \in Pages : Tab(b)
  BY <1>6, TabStep DEF Pages, SameRentals
<1>7. CASE UNCHANGED vars
  BY <1>7 DEF vars, SameRentals
<1> QED
  BY <1>2, <1>3, <1>4, <1>5, <1>6, <1>7 DEF Next, Customers

\* There are never infinitely many rentals.
LEMMA FiniteKept ==
  ASSUME PortalInv, FiniteRows(db), [Next]_vars
  PROVE  FiniteRows(db')
<1>1. CASE SameRentals
  BY <1>1 DEF SameRentals, FiniteRows
<1>2. CASE Opened
  <2> PICK r, row : db'.rentals = With(db.rentals, r, row)
    BY <1>2 DEF Opened
  <2>1. DOMAIN db'.rentals = DOMAIN db.rentals \cup {r}
    BY DEF With
  <2> QED
    BY <2>1, FS_AddElement DEF FiniteRows
<1>3. ASSUME NEW r, NEW to, MovedTo(r, to) PROVE FiniteRows(db')
  BY <1>3 DEF MovedTo, FiniteRows
<1> QED
  BY <1>1, <1>2, <1>3, RentalsMove

\* The rentals that count have a rate each.
LEMMA EarnedPriced ==
  ASSUME NEW d, RowsConsistent(d), FiniteRows(d), NEW p
  PROVE  Priced(d.rentals, Earned(d, p))
<1>1. IsFiniteSet(Earned(d, p))
  BY FS_Subset DEF FiniteRows, Earned
<1>2. \A r \in DOMAIN d.rentals : d.rentals[r].rate \in Nat
  BY RatesAssumption DEF RowsConsistent, RowsTyped, HasRows, Rental
<1> QED
  BY <1>1, <1>2 DEF Priced, Earned

\* A rental that moves keeps its partner and its rate, and so do the others.
LEMMA MovedOne ==
  ASSUME RowsConsistent(db), NEW r, NEW to, MovedTo(r, to)
  PROVE  /\ DOMAIN db'.rentals = DOMAIN db.rentals /\ r \in DOMAIN db.rentals
         /\ \A i \in DOMAIN db.rentals \ {r} : db'.rentals[i] = db.rentals[i]
         /\ db'.rentals[r].state = to /\ db'.rentals[r].partner = db.rentals[r].partner
         /\ db'.rentals[r].rate = db.rentals[r].rate
<1>1. db.rentals[r] \in Rental
  BY DEF MovedTo, RowsConsistent, RowsTyped, HasRows
<1>2. db'.rentals[r] = [db.rentals[r] EXCEPT !.state = to]
  BY DEF MovedTo
<1> QED
  BY <1>1, <1>2 DEF MovedTo, Rental

\* A step changes the rate of no rental there is, and what counts only by a return, by a payment
\* that fails, or by one that succeeds at last.
KeepRates(S) == \A r \in S : db.rentals[r].rate = db'.rentals[r].rate
LEMMA EarnedMoves ==
  ASSUME PortalInv, [Next]_vars, NEW p
  PROVE  /\ KeepRates(DOMAIN db.rentals)
         /\ \/ Earned(db', p) = Earned(db, p)
            \/ \E r \in Rentals : Became(r, p, {"GOING", "ERROR"}, Counted) /\ Earned(db', p) = Earned(db, p) \cup {r}
            \/ \E r \in Rentals : Became(r, p, {"RETURNED"}, {"ERROR"}) /\ Earned(db, p) = Earned(db', p) \cup {r}
<1> DEFINE Goal ==
      /\ KeepRates(DOMAIN db.rentals)
      /\ \/ Earned(db', p) = Earned(db, p)
         \/ \E r \in Rentals : Became(r, p, {"GOING", "ERROR"}, Counted) /\ Earned(db', p) = Earned(db, p) \cup {r}
         \/ \E r \in Rentals : Became(r, p, {"RETURNED"}, {"ERROR"}) /\ Earned(db, p) = Earned(db', p) \cup {r}
<1>0. RowsConsistent(db) /\ DOMAIN db.rentals \subseteq Rentals
  BY DEF PortalInv, RowsInv, RowsConsistent, RowsTyped, HasRows
<1>1. CASE SameRentals
  BY <1>1 DEF SameRentals, Earned, KeepRates
<1>2. CASE Opened
  <2> PICK r, row : r \notin DOMAIN db.rentals /\ row.state = "GOING" /\ db'.rentals = With(db.rentals, r, row)
    BY <1>2 DEF Opened
  <2>1. /\ DOMAIN db'.rentals = DOMAIN db.rentals \cup {r} /\ db'.rentals[r] = row
        /\ \A i \in DOMAIN db.rentals : db'.rentals[i] = db.rentals[i]
    BY DEF With
  <2>2. Earned(db', p) = Earned(db, p)
    BY <2>1 DEF Earned, Counted
  <2> QED
    BY <2>1, <2>2 DEF KeepRates
<1>3. ASSUME NEW r, NEW to, MovedTo(r, to) PROVE Goal
  <2>1. /\ DOMAIN db'.rentals = DOMAIN db.rentals /\ r \in DOMAIN db.rentals
        /\ \A i \in DOMAIN db.rentals \ {r} : db'.rentals[i] = db.rentals[i]
        /\ db'.rentals[r].state = to /\ db'.rentals[r].partner = db.rentals[r].partner
        /\ db'.rentals[r].rate = db.rentals[r].rate
    BY <1>0, <1>3, MovedOne
  <2>2. KeepRates(DOMAIN db.rentals)
    BY <2>1 DEF KeepRates
  <2> DEFINE was == db.rentals[r].state
  <2>3. <<was, to>> \in Moves
    BY <1>3 DEF MovedTo
  <2>4. CASE db.rentals[r].partner # p
    <3>1. Earned(db', p) = Earned(db, p)
      BY <2>1, <2>4 DEF Earned
    <3> QED
      BY <2>2, <3>1
  <2>5. CASE db.rentals[r].partner = p /\ (was \in Counted <=> to \in Counted)
    <3>1. Earned(db', p) = Earned(db, p)
      BY <2>1, <2>5 DEF Earned
    <3> QED
      BY <2>2, <3>1
  <2>6. CASE db.rentals[r].partner = p /\ was \notin Counted /\ to \in Counted
    <3>1. Earned(db', p) = Earned(db, p) \cup {r}
      BY <2>1, <2>6 DEF Earned
    <3>2. was \in {"GOING", "ERROR"}
      BY <2>3, <2>6 DEF Moves, Counted
    <3>3. r \in Rentals /\ Became(r, p, {"GOING", "ERROR"}, Counted)
      BY <1>0, <2>1, <2>6, <3>2 DEF Became
    <3> QED
      BY <2>2, <3>1, <3>3
  <2>7. CASE db.rentals[r].partner = p /\ was \in Counted /\ to \notin Counted
    <3>1. Earned(db, p) = Earned(db', p) \cup {r}
      BY <2>1, <2>7 DEF Earned
    <3>2. was = "RETURNED" /\ to = "ERROR"
      BY <2>3, <2>7 DEF Moves, Counted
    <3>3. r \in Rentals /\ Became(r, p, {"RETURNED"}, {"ERROR"})
      BY <1>0, <2>1, <2>7, <3>2 DEF Became
    <3> QED
      BY <2>2, <3>1, <3>3
  <2> QED
    BY <2>4, <2>5, <2>6, <2>7
<1> QED
  BY <1>1, <1>2, <1>3, RentalsMove

\* What follows for the sum.
Follows(p) ==
  /\ Owed(db', p) > Owed(db, p) => \E r \in Rentals : Became(r, p, {"GOING", "ERROR"}, Counted)
  /\ Owed(db', p) < Owed(db, p) => \E r \in Rentals : Became(r, p, {"RETURNED"}, {"ERROR"})
LEMMA OwedStep ==
  ASSUME PortalInv, FiniteRows(db), [Next]_vars, NEW p \in Partners
  PROVE  Follows(p)
<1> DEFINE old == Earned(db, p)
           new == Earned(db', p)
           before == Total(db.rentals, old)
           after == Total(db'.rentals, new)
<1>1. Priced(db.rentals, old) /\ Priced(db'.rentals, new)
  <2>1. RowsConsistent(db) /\ FiniteRows(db)
    BY DEF PortalInv, RowsInv
  <2>2. RowsConsistent(db') /\ FiniteRows(db')
    BY NextHolds, FiniteKept DEF PortalInv, RowsInv
  <2> QED
    BY <2>1, <2>2, EarnedPriced
<1>2. (\A r \in old : db.rentals[r].rate = db'.rentals[r].rate) /\ \A r \in old : db'.rentals[r].rate = db.rentals[r].rate
  BY EarnedMoves DEF KeepRates, Earned
<1>3. before \in Nat /\ after \in Nat
  BY <1>1, TotalTyped
<1>4. Owed(db, p) = before /\ Owed(db', p) = after
  BY OwedIs
<1>5. CASE new = old
  <2>1. Total(db.rentals, old) = Total(db'.rentals, old)
    <3>1. IsFiniteSet(old)
      BY <1>1 DEF Priced
    <3> HIDE DEF old
    <3> QED
      BY <1>2, <3>1, SameTotal
  <2>2. before = after
    BY <1>5, <2>1
  <2> QED
    BY <1>3, <1>4, <2>2 DEF Follows
<1>6. ASSUME NEW r \in Rentals, Became(r, p, {"GOING", "ERROR"}, Counted), new = old \cup {r} PROVE Follows(p)
  <2>1. after >= before
    BY <1>1, <1>2, <1>6, TotalGrows
  <2> HIDE DEF before, after
  <2>2. ~(after < before)
    BY <1>3, <2>1
  <2> QED
    BY <1>4, <1>6, <2>2 DEF Follows
<1>7. ASSUME NEW r \in Rentals, Became(r, p, {"RETURNED"}, {"ERROR"}), old = new \cup {r} PROVE Follows(p)
  <2>1. \A i \in new : db'.rentals[i].rate = db.rentals[i].rate
    BY <1>2, <1>7
  <2>2. before >= after
    BY <1>1, <1>7, <2>1, TotalGrows
  <2> HIDE DEF before, after
  <2>3. ~(after > before)
    BY <1>3, <2>2
  <2> QED
    BY <1>4, <1>7, <2>3 DEF Follows
<1> QED
  BY <1>5, <1>6, <1>7, EarnedMoves

\* What a partner is owed moves only with its own rentals, and falls only by a payment that fails,
\* whatever rate, grid, transfer, archive or ended session comes between (pricingForPartner freezes
\* the rate when the rental starts, partnerStatements adds them).
THEOREM OwedFollows == Spec => OwedFollowsReturns
<1>1. Init => FiniteRows(db)
  BY DatabasesAssumption DEF Init, FiniteRows
<1>2. PortalInv /\ FiniteRows(db) /\ [Next]_vars => FiniteRows(db)'
  BY FiniteKept
<1>3. ASSUME PortalInv, FiniteRows(db), [Next]_vars
      PROVE  \A p \in Partners :
               /\ Owed(db', p) > Owed(db, p) => \E r \in Rentals : Became(r, p, {"GOING", "ERROR"}, Counted)
               /\ Owed(db', p) < Owed(db, p) => \E r \in Rentals : Became(r, p, {"RETURNED"}, {"ERROR"})
  BY <1>3, OwedStep DEF Follows
<1> QED
  BY <1>1, <1>2, <1>3, PortalInvariant, PTL DEF Spec, OwedFollowsReturns
=============================================================================
