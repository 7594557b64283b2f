----------------------------- MODULE CustomerClient -----------------------------
(***************************************************************************)
(* A customer before a station: the rental page of a browser and the       *)
(* application of a phone, the requests they send, and answers that get    *)
(* lost.  The page keeps one idempotency key from a tap to the end of the  *)
(* rental; the application keeps the one of an attempt it has not seen     *)
(* answered.  A handoff link moves the phone to the browser's customer.    *)
(* What the routes do to a rental is one step here: their own steps are    *)
(* those of StripeCoordinator.                                             *)
(***************************************************************************)
EXTENDS Integers, Sequences, FiniteSetsExt

CONSTANTS
  None,
  Here, Stations,  \* the station of the page, all stations
  MaxRentals, MaxKeys, MaxFaults  \* bounds

ASSUME StationsAssumption == Here \in Stations
ASSUME BoundsAssumption == {MaxRentals, MaxKeys, MaxFaults} \subseteq Nat

Customers == {"web", "phone"}  \* whom the cookie, and the phone's first token, stand for
OpenStates == {"CREATED", "ACTIVE"}
States == OpenStates \cup {"COMPLETED", "CLOSED"}  \* CLOSED: failed, cancelled or expired
Keys == {"page", "phone"} \X Nat  \* idempotency keys: the device, and how many it has made
\* No key, no view of a rental and no attempt is null.
ASSUME NoneAssumption ==
  /\ None \notin Keys /\ None \notin [id : Nat, state : States]
  /\ None \notin [do : {"take", "return"}, at : Stations, key : Keys]

VARIABLES
  cards,    \* the deployment takes cards: a rental is CREATED until its deposit is held
  rentals,  \* in the order of creation
  link,     \* the handoff link: "none", "ready", "spent"
  page,     \* the page
  app,      \* the application
  gone,     \* requests whose sender has stopped waiting
  faults
vars == <<cards, rentals, link, page, app, gone, faults>>
server == <<cards, rentals, link>>

-----------------------------------------------------------------------------
(* The server. *)

Ids(c) == {i \in DOMAIN rentals : rentals[i].who = c}
\* rentalView, for what the two clients look at.
Rental(rs, i) == [id |-> i, state |-> rs[i].state]
\* GET customer: the open rental, else the last one.
Current(c) ==
  LET open == {i \in Ids(c) : rentals[i].state \in OpenStates}
  IN  IF Ids(c) = {} THEN None ELSE Rental(rentals, Max(IF open # {} THEN open ELSE Ids(c)))

Ok(rs, i) ==
  [ok |-> TRUE, rental |-> Rental(rs, i), session |-> IF cards /\ rs[i].state = "CREATED" THEN i ELSE None]
Failure == [ok |-> FALSE]
Said(answer) == [rentals |-> rentals, link |-> link, answer |-> answer]
Wrote(rs, i) == [rentals |-> rs, link |-> link, answer |-> Ok(rs, i)]
Became(i, state) == [rentals EXCEPT ![i].state = state, ![i].intent = "open"]

\* create: the rental of the key, else the open one, at that station only, else a new one, unless
\* the station refuses.
Start(q) ==
  LET known == {i \in Ids(q.as) : rentals[i].key = q.key}
      open  == {i \in Ids(q.as) : rentals[i].state \in OpenStates}
      New(state) == Append(rentals, [who |-> q.as, at |-> q.at, key |-> q.key, by |-> q.do,
                                     state |-> state, intent |-> "open"])
  IN  IF known \cup open # {}
      THEN LET i == CHOOSE j \in (IF known # {} THEN known ELSE open) : TRUE
           IN  {Said(IF rentals[i].at = q.at THEN Ok(rentals, i) ELSE Failure)}
      ELSE {Said(Failure)} \cup
           {Wrote(New(s), Len(rentals) + 1) :
              s \in IF Len(rentals) = MaxRentals THEN {}
                    ELSE IF cards THEN {"CREATED", "CLOSED"} ELSE {"ACTIVE", "CLOSED"}}
\* confirm: the battery leaves on a deposit that is really held.  The page asks several times: until
\* then its request waits, or the last answer is a refusal.
Confirm(q) ==
  IF rentals[q.rental].state # "CREATED" THEN {Said(Ok(rentals, q.rental))}
  ELSE IF rentals[q.rental].intent # "held" THEN {Said(Failure)}
  ELSE {Wrote(Became(q.rental, s), q.rental) : s \in {"ACTIVE", "CLOSED"}}
\* abandon.
Cancel(q) ==
  {IF rentals[q.rental].state # "CREATED" THEN Said(Ok(rentals, q.rental))
   ELSE Wrote(Became(q.rental, "CLOSED"), q.rental)}
\* customer/return, which the application only offers on a simulated station.
Return(q) ==
  LET open == {i \in Ids(q.as) : rentals[i].state \in OpenStates}
  IN  {IF open = {} THEN Said(Failure) ELSE Wrote(Became(Max(open), "COMPLETED"), Max(open))}
\* customer/claim: the link is spent and opens a session of its customer.
Claim ==
  {IF link # "ready" THEN Said(Failure)
   ELSE [rentals |-> rentals, link |-> "spent", answer |-> [ok |-> TRUE]]}

Outcomes(q) ==
  CASE q.do \in {"start", "resume", "take"} -> Start(q)
    [] q.do = "confirm" -> Confirm(q)
    [] q.do = "cancel"  -> Cancel(q)
    [] q.do = "return"  -> Return(q)
    [] q.do = "claim"   -> Claim
Did(o) == rentals' = o.rentals /\ link' = o.link /\ UNCHANGED <<cards, faults>>
\* Requests not served yet, and after.
Unserved(qs) == {q \in qs : q.answer = None}
Answered(qs, q, o) == (qs \ {q}) \cup {[q EXCEPT !.answer = o.answer]}

ServePage ==
  \E q \in Unserved(page.calls) : \E o \in Outcomes(q) :
    Did(o) /\ page' = [page EXCEPT !.calls = Answered(@, q, o)] /\ UNCHANGED <<app, gone>>
ServeApp ==
  \E q \in Unserved(app.calls) : \E o \in Outcomes(q) :
    Did(o) /\ app' = [app EXCEPT !.calls = Answered(@, q, o)] /\ UNCHANGED <<page, gone>>
ServeGone ==
  \E q \in gone :
    /\ \E o \in Outcomes(q) \cup {Said(Failure)} : Did(o)
    /\ gone' = gone \ {q} /\ UNCHANGED <<page, app>>

\* expireStale, and a battery given back to a cabinet.
Expire ==
  \E i \in DOMAIN rentals :
    /\ rentals[i].state = "CREATED" /\ rentals' = Became(i, "CLOSED")
    /\ UNCHANGED <<cards, link, page, app, gone, faults>>
GiveBack ==
  \E i \in DOMAIN rentals :
    /\ rentals[i].state = "ACTIVE" /\ rentals' = Became(i, "COMPLETED")
    /\ UNCHANGED <<cards, link, page, app, gone, faults>>
\* Stripe ends what a card began: the deposit is held, or the card refused after all.
Settle ==
  \E i \in DOMAIN rentals :
    /\ rentals[i].intent = "processing" /\ rentals[i].state = "CREATED"
    /\ \E s \in {"held", "open"} : rentals' = [rentals EXCEPT ![i].intent = s]
    /\ UNCHANGED <<cards, link, page, app, gone, faults>>
\* customer/handoff, and the five minutes of the link.
Handoff ==
  /\ link = "none" /\ page.loaded /\ app.installed /\ link' = "ready"
  /\ UNCHANGED <<cards, rentals, page, app, gone, faults>>
LinkEnds ==
  /\ link = "ready" /\ link' = "spent"
  /\ UNCHANGED <<cards, rentals, page, app, gone, faults>>

-----------------------------------------------------------------------------
(* The page. *)

\* The device gives up its key at rental r: dropped keeps the keys whose rental that is not.
Dropped(d, key, r) ==
  IF key = None \/ rentals[r.id].key = key THEN d ELSE [d EXCEPT !.dropped = @ \cup {key}]

\* The device forgets its attempts: dropped keeps the keys of those still on their way.
Forgot(d, do, qs) ==
  [d EXCEPT !.dropped =
     @ \cup {q.key : q \in {r \in qs : r.do = do /\ \A i \in Ids(r.as) : rentals[i].key # r.key}}]

\* The rental on the page: the server's word, unless it is about another rental than this page's.
Shown(p) ==
  IF p.dismissed THEN p.local
  ELSE IF p.remote # None /\ (p.local = None \/ p.remote.id = p.local.id) THEN p.remote
  ELSE p.local
View(p) ==
  LET r == Shown(p)
      state == IF r = None THEN "none" ELSE r.state
  IN  CASE ~p.loaded -> "loading"
        [] p.loaded /\ state = "CREATED" /\ p.session # None -> "card"
        [] p.loaded /\ ~(state = "CREATED" /\ p.session # None) /\ p.busy -> "busy"
        [] OTHER -> CASE state = "COMPLETED" -> "receipt" [] state = "ACTIVE" -> "active"
                      [] state = "CLOSED" -> "closed"
                      [] state = "CREATED" -> "processing" [] OTHER -> "intro"

Fresh(p) == <<"page", p.n + 1>>
Call(do, as, at, key, rental) ==
  [do |-> do, as |-> as, at |-> at, key |-> key, rental |-> rental, answer |-> None]
Send(p, do, key, rental) == [p EXCEPT !.calls = @ \cup {Call(do, "web", Here, key, rental)}]

\* The rental waits for a card at this station, by the last answer of the server.
PendingCard(p) == p.remote # None /\ p.remote.state = "CREATED" /\ rentals[p.remote.id].at = Here
\* The effect that follows every change: once per page, the card of an open rental is asked for.
Rendered(p) ==
  LET q == IF View(p) \in {"loading", "busy"} \/ Shown(p) = None THEN p
           ELSE [p EXCEPT !.seen = @ \cup {Shown(p).id}]
  IN  IF PendingCard(q) /\ q.session = None /\ ~q.resumed /\ cards
      THEN Send([q EXCEPT !.resumed = TRUE, !.n = @ + 1], "resume", Fresh(q), None)
      ELSE q

\* What the answer to each request changes.
Confirming(p, i) == Send([p EXCEPT !.paying = TRUE], "confirm", None, i)
PageGot(p, q, a) ==
  CASE q.do = "start" ->
         IF a.ok THEN [p EXCEPT !.local = a.rental, !.session = a.session, !.busy = FALSE]
         ELSE [p EXCEPT !.busy = FALSE]
    [] q.do = "resume" ->
         IF ~a.ok THEN p
         ELSE IF p.returned THEN Confirming([p EXCEPT !.returned = FALSE], a.rental.id)
         ELSE IF a.session # None THEN [p EXCEPT !.session = a.session] ELSE p
    [] q.do = "confirm" ->
         IF a.ok THEN [p EXCEPT !.local = a.rental, !.session = None, !.paying = FALSE]
         ELSE [p EXCEPT !.paying = FALSE]
DeliverPage ==
  \E q \in page.calls :
    /\ q.answer # None
    /\ page' = Rendered(PageGot([page EXCEPT !.calls = @ \ {q}], q, q.answer))
    /\ UNCHANGED <<server, app, gone, faults>>
\* The connection fails: the page knows nothing of what the server did, or will do.
LosePage ==
  \E q \in page.calls :
    /\ faults < MaxFaults /\ faults' = faults + 1
    /\ page' = Rendered(PageGot([page EXCEPT !.calls = @ \ {q}], q, Failure))
    /\ gone' = gone \cup Unserved({q}) /\ UNCHANGED <<server, app>>

Poll ==
  /\ page' = Rendered([page EXCEPT !.remote = Current("web"), !.loaded = TRUE])
  /\ UNCHANGED <<server, app, gone, faults>>

\* A tap may still add a key.
Room == page.n + app.n < MaxKeys
\* Mutant: every tap takes a new key.
StartKeyNew(p) == Fresh(p)
StartKey(p) == IF p.key = None THEN Fresh(p) ELSE p.key
\* start: the terms ticked, the button pressed.
TapStart ==
  /\ View(page) = "intro" /\ (Room \/ page.key # None)
  /\ LET k == StartKey(page)
     IN  page' = Rendered(Send([page EXCEPT !.busy = TRUE, !.dismissed = FALSE, !.key = k,
                                  !.n = IF k = Fresh(page) THEN @ + 1 ELSE @], "start", k, None))
  /\ UNCHANGED <<server, app, gone, faults>>
Blank(p, returned) ==
  [loaded |-> FALSE, remote |-> None, local |-> None, session |-> None, key |-> None, busy |-> FALSE,
   dismissed |-> FALSE, resumed |-> FALSE, paying |-> FALSE, returned |-> returned,
   calls |-> {}, n |-> p.n, seen |-> p.seen, dropped |-> p.dropped]
\* The document is gone, with what it waited for.
Left(returned) ==
  /\ gone' = gone \cup Unserved(page.calls)
  /\ page' = Blank(Forgot(page, "start", gone'), returned)
\* pay: Stripe takes the card on the page, or on the bank's page and back; a rental already closed
\* has no intent to pay any more.
Pay ==
  /\ View(page) = "card" /\ ~page.paying /\ rentals[page.session].state = "CREATED"
  /\ \E s \in {"held", "processing"} : rentals' = [rentals EXCEPT ![page.session].intent = s]
  /\ \/ page' = Confirming(page, Shown(page).id) /\ gone' = gone
     \/ Left(TRUE)
  /\ UNCHANGED <<cards, link, app, faults>>
\* cancelUnpaid: the page moves on before the server answers.
TapCancel ==
  /\ View(page) = "card" /\ ~page.paying
  /\ page' = Rendered([Dropped(page, page.key, Shown(page)) EXCEPT !.session = None, !.dismissed = TRUE, !.local = None,
                         !.key = None])
  /\ gone' = gone \cup {Call("cancel", "web", Here, None, Shown(page).id)}
  /\ UNCHANGED <<server, app, faults>>
\* "New rental" and "try again", below a rental that is over.
TapAgain ==
  /\ View(page) \in {"receipt", "closed"}
  /\ page' = Rendered([Dropped(page, page.key, Shown(page)) EXCEPT !.dismissed = TRUE, !.local = None, !.key = None])
  /\ UNCHANGED <<server, app, gone, faults>>
Reload ==
  /\ faults < MaxFaults /\ faults' = faults + 1
  /\ Left(FALSE) /\ UNCHANGED <<server, app>>

-----------------------------------------------------------------------------
(* The application. *)

Shows(a, r) == [a EXCEPT !.rental = r, !.seen = IF r = None THEN @ ELSE @ \cup {r.id}]
\* refresh.
Refresh ==
  /\ app.installed
  /\ app' = Shows([app EXCEPT !.online = TRUE], Current(app.who))
  /\ UNCHANGED <<server, page, gone, faults>>
\* action: one mutation at a time; what the server says of the rental first, then the pending key,
\* which only serves the request it was made for.
Act(do, at) ==
  LET now == Current(app.who)
      over == IF do = "take" THEN now # None /\ now.state \in OpenStates
              ELSE now # None /\ now.state = "COMPLETED"
      want == IF app.pending # None THEN app.pending
              ELSE [do |-> do, at |-> at, key |-> <<"phone", app.n + 1>>]
  IN  /\ app.calls = {} /\ app.online
      /\ IF over THEN app' = Shows(app, now)
         ELSE /\ want.do = do /\ want.at = at
              /\ app' = [app EXCEPT !.pending = want, !.n = want.key[2],
                           !.calls = {Call(do, app.who, at, want.key, None)}]
      /\ UNCHANGED <<server, page, gone, faults>>
Active == app.rental # None /\ app.rental.state = "ACTIVE"
Take == (Room \/ app.pending # None) /\ \E at \in Stations : ~Active /\ Act("take", at)
GiveBackByApp == \E at \in Stations : Active /\ ~cards /\ Act("return", at)
OpenLink ==
  /\ link = "ready" /\ app.calls = {}
  /\ app' = [app EXCEPT !.calls = {Call("claim", app.who, None, None, None)}]
  /\ UNCHANGED <<server, page, gone, faults>>
AppGot(a, q, answer) ==
  IF ~answer.ok THEN a
  ELSE IF q.do = "claim" THEN Shows([a EXCEPT !.who = "web"], Current("web"))
  ELSE Shows([Dropped(a, IF q.do = "take" THEN q.key ELSE None, answer.rental) EXCEPT !.pending = None], answer.rental)
DeliverApp ==
  \E q \in app.calls :
    /\ q.answer # None /\ app' = AppGot([app EXCEPT !.calls = {}], q, q.answer)
    /\ UNCHANGED <<server, page, gone, faults>>
LoseApp ==
  \E q \in app.calls :
    /\ faults < MaxFaults /\ faults' = faults + 1
    /\ app' = [app EXCEPT !.calls = {}]
    /\ gone' = gone \cup Unserved({q}) /\ UNCHANGED <<server, page>>
\* The application is killed and opened again: its token is stored, its pending key is not.
Relaunch ==
  /\ faults < MaxFaults /\ faults' = faults + 1
  /\ gone' = gone \cup Unserved(app.calls)
  /\ app' = [Forgot(app, "take", gone') EXCEPT !.rental = None, !.pending = None, !.calls = {}, !.online = FALSE]
  /\ UNCHANGED <<server, page>>

-----------------------------------------------------------------------------

Init ==
  /\ cards \in BOOLEAN /\ rentals = <<>> /\ link = "none"
  \* The application has no form for a card: with cards, the page alone.
  /\ page = Blank([n |-> 0, seen |-> {}, dropped |-> {}], FALSE)
  /\ app = [who |-> "phone", rental |-> None, pending |-> None, calls |-> {}, online |-> FALSE,
            installed |-> ~cards, n |-> 0, seen |-> {}, dropped |-> {}]
  /\ gone = {} /\ faults = 0

Routes == ServePage \/ ServeApp \/ ServeGone \/ Expire \/ GiveBack \/ Settle \/ Handoff \/ LinkEnds
Page == DeliverPage \/ LosePage \/ Poll \/ TapStart \/ Pay \/ TapCancel \/ TapAgain \/ Reload
App == Refresh \/ Take \/ GiveBackByApp \/ OpenLink \/ DeliverApp \/ LoseApp \/ Relaunch
Next == Routes \/ Page \/ App
Spec == Init /\ [][Next]_vars

-----------------------------------------------------------------------------
(* Properties *)

TypeOK ==
  /\ \A i \in DOMAIN rentals : rentals[i].state \in States /\ rentals[i].who \in Customers
  /\ page.session \in DOMAIN rentals \cup {None}
  /\ page.seen \cup app.seen \subseteq DOMAIN rentals
  /\ Cardinality(app.calls) <= 1

\* Two rentals of a customer that one device opened, none between them.
Neighbours(i, j) ==
  /\ i < j /\ rentals[i].who = rentals[j].who /\ rentals[i].by = rentals[j].by
  /\ \A h \in i + 1 .. j - 1 : rentals[h].who # rentals[j].who
\* By attempts the device followed: it gave up their key neither at another rental, nor, reloaded or
\* relaunched, with the request on its way.
Consecutive(i, j) ==
  Neighbours(i, j) /\ {rentals[i].key, rentals[j].key} \cap (page.dropped \cup app.dropped) = {}
Seen(i, j) == /\ rentals[j].by = "start" => i \in page.seen
              /\ rentals[j].by = "take"  => i \in app.seen
\* A customer whose answer was lost may tap again, reload or relaunch, as often as they like, whatever
\* still reaches the server meanwhile: by attempts it followed, a device never opens the next rental of
\* the same customer without having shown the one before (idempotency key, open rental, first load: "no
\* second charge, no second rental").
SeenBeforeNext ==
  TypeOK /\ \A i, j \in DOMAIN rentals : Consecutive(i, j) => Seen(i, j)

\* Diagnostics.  Coming back to a rental never opens another one; a rental put away is not under way;
\* an attempt that is over does not keep the application from another station; no device opens a rental
\* with the one before unseen, by any attempt.
ResumeFindsTheRental == \A i \in DOMAIN rentals : rentals[i].by # "resume"
AtRest == page.loaded /\ page.calls = {} /\ page.remote = Current("web")
DismissedIsOver == AtRest /\ page.dismissed /\ page.remote # None => page.remote.state # "ACTIVE"
PendingIsOpen ==
  (app.pending # None /\ app.calls = {} /\ app.rental # None) => app.rental.state # "COMPLETED"
AlwaysSeen == \A i, j \in DOMAIN rentals : Neighbours(i, j) => Seen(i, j)
=============================================================================
