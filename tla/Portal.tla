------------------------------- MODULE Portal -------------------------------
(***************************************************************************)
(* The pages of the back office over its routes.  A page keeps the last    *)
(* dashboard it was given, asks for another every five seconds and after   *)
(* each accepted form, and takes the answers in the order they come.  Its  *)
(* forms offer what that dashboard shows, not what the database holds, and *)
(* a partner's login may also call the routes without any page.            *)
(***************************************************************************)
EXTENDS BackOffice

CONSTANTS
  Programs,  \* the tabs that are a partner's program instead of a page
  Databases  \* what the database may hold at first
ASSUME ProgramsAssumption == Programs \subseteq Tabs
ASSUME DatabasesAssumption == \A d \in Databases : RowsConsistent(d) /\ IsFiniteSet(DOMAIN d.rentals)

VARIABLES
  page,   \* what each tab shows: nothing, the login form or a dashboard; whether its session holds
  reads   \* answers on their way to each tab, of the timer and of the form (Blank: none)
vars == <<db, form, writes, page, reads>>

Pages == Tabs \ Programs
Vias == {"timer", "form"}
Forms == {"idle", "done", "refused", "refreshing"}
Idle(b) == form[b] = "idle"
Content(is, d) == [is |-> is, data |-> d]
Blank == Content("nothing", None)
Shows(b) == page[b].shown.is = "dashboard"
Console(b) == RoleOf[b] \in Staff

-----------------------------------------------------------------------------
(* The forms: what each may send, given the dashboard d. *)

VenueCreateAction(b, d) ==
  [op : {"venue/create"}, partner : DOMAIN d.partners, address : Addresses]
VenueEditAction(b, d) ==
  [op : {"venue/update"}, venue : DOMAIN d.venues, address : Addresses]
StationCreateAction(b, d) ==
  {q \in [op : {"station/create"}, partner : DOMAIN d.partners, venue : DOMAIN d.venues] :
     d.venues[q.venue].partner = q.partner}
\* The buttons depend on what the station is shown as.
StationLifecycleAction(b, d) ==
  LET On(op, set) == {[op |-> op, station |-> s] : s \in set}
      all == DOMAIN d.stations
      archived == {s \in all : d.stations[s].archived}
      blocked  == {s \in all : d.stations[s].blocked}
  IN  UNION {On("station/unblock-rentals", blocked), On("station/block-rentals", all \ blocked),
             On("station/restore", archived), On("station/archive", all \ archived),
             {q \in [op : {"station/relocate"}, station : all, venue : DOMAIN d.venues] :
                d.stations[q.station].venue # q.venue}}
PartnerCommission(b, d) ==
  {q \in [op : {"partner/set-commission"}, partner : DOMAIN d.partners, rate : Rates \cup {None}] :
     RoleOf[b] \in MayUse("pricing")}
PricingEditor(b, d) ==
  {q \in [op : {"pricing"}, rate : Rates] : RoleOf[b] \in MayUse("pricing")}
SupportPanel(b, d) ==
  {[op |-> "resolve-ticket", ticket |-> t] : t \in {t \in DOMAIN d.tickets : d.tickets[t].open}}
ContactForm(b, d) == {[op |-> "ticket", rental |-> None]}
PartnerPromos(b, d) == [op : {"promo/request"}, venue : DOMAIN d.venues]

\* Which forms a console has: stations and prices are only administered from /admin.
DisplayedForms(b, d) ==
  SupportPanel(b, d) \cup ContactForm(b, d) \cup
  IF Console(b)
  THEN UNION {VenueCreateAction(b, d), VenueEditAction(b, d), StationCreateAction(b, d),
              StationLifecycleAction(b, d), PartnerCommission(b, d), PricingEditor(b, d)}
  ELSE PartnerPromos(b, d)
\* A partner's program: the same forms on what it just read, and any station by its identifier.
DirectCalls(b) ==
  UNION {DisplayedForms(b, Dashboard(b)),
         [op : {"station/relocate"}, station : DOMAIN db.stations, venue : DOMAIN db.venues],
         [op : {"station/create"}, partner : DOMAIN db.partners, venue : DOMAIN db.venues],
         [op : {"station/archive", "station/restore"}, station : DOMAIN db.stations],
         [op : {"venue/update"}, venue : DOMAIN db.venues, address : Addresses],
         [op : {"ticket"}, rental : DOMAIN db.rentals]}

-----------------------------------------------------------------------------
(* A tab. *)

Stay == UNCHANGED server
Read(b) == IF page[b].signed THEN Content("dashboard", Dashboard(b)) ELSE Content("login", None)
\* useApi: the timer of the dashboard, whose answer is what the database holds now.
Poll(b) ==
  /\ reads[b]["timer"] = Blank
  /\ reads' = [reads EXCEPT ![b]["timer"] = Read(b)]
  /\ Stay /\ UNCHANGED page

\* Mutant: the page keeps the first dashboard it was given.
ShownFirst(b, answer) == IF Shows(b) THEN page[b].shown ELSE answer
\* A refusal leaves the dashboard already shown; without one, the page is the login form.
Shown(b, answer) == IF answer.is = "login" /\ Shows(b) THEN page[b].shown ELSE answer

\* The form that waited for its own refresh is then free again.
Arrived(b, via) ==
  /\ reads' = [reads EXCEPT ![b][via] = Blank]
  /\ IF via = "form" THEN form' = [form EXCEPT ![b] = "idle"] ELSE UNCHANGED form
  /\ UNCHANGED <<db, writes>>
Deliver(b, via) ==
  /\ reads[b][via] # Blank
  /\ page' = [page EXCEPT ![b].shown = Shown(b, reads[b][via])]
  /\ Arrived(b, via)
Lose(b, via) ==
  /\ reads[b][via] # Blank
  /\ UNCHANGED page
  /\ Arrived(b, via)

\* A click.  The time its request is under way is part of the age of the dashboard clicked on.
Submit(b) ==
  /\ Idle(b)
  /\ \/ /\ b \in Programs
        /\ \E q \in DirectCalls(b) : Serve(b, q)
     \/ /\ b \in Pages /\ Shows(b) /\ page[b].signed
        /\ \E q \in DisplayedForms(b, page[b].shown.data) : Serve(b, q)
     \/ b \in Pages /\ Shows(b) /\ ~page[b].signed /\ Refuse(b)
  /\ UNCHANGED <<page, reads>>
\* An accepted form refreshes the dashboard and stays busy until that ends.
Accepted(b) ==
  /\ form[b] = "done"
  /\ form' = [form EXCEPT ![b] = "refreshing"]
  /\ reads' = [reads EXCEPT ![b]["form"] = Read(b)]
  /\ UNCHANGED <<db, writes, page>>
\* A refusal, or no answer at all: the operator is told that it failed, done or not.
Failed(b) ==
  /\ form[b] \in {"done", "refused"}
  /\ form' = [form EXCEPT ![b] = "idle"]
  /\ UNCHANGED <<db, writes, page, reads>>

\* The session ends by its age, another device or an administrator.
Expire(b) ==
  /\ page[b].signed
  /\ page' = [page EXCEPT ![b].signed = FALSE]
  /\ UNCHANGED <<db, form, writes, reads>>
Login(b) ==
  /\ page[b].shown.is = "login"
  /\ page' = [page EXCEPT ![b].signed = TRUE]
  /\ UNCHANGED <<db, form, writes, reads>>
\* The page is loaded again, which forgets its forms and what was on its way.
Reload(b) ==
  /\ Idle(b)
  /\ page' = [page EXCEPT ![b].shown = Blank]
  /\ reads' = [reads EXCEPT ![b] = [via \in Vias |-> Blank]]
  /\ Stay

-----------------------------------------------------------------------------

Init ==
  /\ db \in Databases
  /\ form = [b \in Tabs |-> "idle"]
  /\ writes = 0
  /\ page = [b \in Tabs |-> [shown |-> Blank, signed |-> TRUE]]
  /\ reads = [b \in Tabs |-> [via \in Vias |-> Blank]]

Tab(b) ==
  \/ Poll(b) \/ Accepted(b) \/ Expire(b) \/ Login(b) \/ Reload(b)
  \/ \E via \in Vias : Deliver(b, via) \/ Lose(b, via)
Next ==
  \/ Customers /\ UNCHANGED <<page, reads>>
  \/ \E b \in Tabs : Submit(b) \/ Failed(b)
  \/ \E b \in Pages : Tab(b)
Spec == Init /\ [][Next]_vars

\* The timer runs while the page is open, requests end, and answers get through now and then.
Fairness ==
  \A b \in Pages :
    /\ WF_vars(Poll(b)) /\ SF_vars(Deliver(b, "timer"))
    /\ WF_vars(Deliver(b, "form") \/ Lose(b, "form"))
    /\ WF_vars(Accepted(b) \/ Failed(b))
FairSpec == Spec /\ Fairness

\* The rows keep their types and obey the two rules of ownership, and the pages stay coherent:
\* a form waits for its own refresh exactly while that answer is on its way.
PortalConsistent ==
  /\ RowsConsistent(db) /\ writes \in 0 .. MaxWrites
  /\ form \in [Tabs -> Forms]
  /\ \A b \in Tabs :
       /\ page[b].signed \in BOOLEAN
       /\ reads[b]["form"] # Blank <=> form[b] = "refreshing"

\* A page that keeps its session and is not loaded again ends up showing the database as it is
\* once people stop changing it, although answers are lost and overtake one another (useApi).
PageCatchesUp ==
  \A b \in Pages :
    <>[](page[b].signed /\ page[b].shown # Blank) => <>[](page[b].shown = Content("dashboard", Dashboard(b)))
=============================================================================
