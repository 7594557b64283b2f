----------------------------- MODULE CabinetSync -----------------------------
(***************************************************************************)
(* Manufacturer synchronisation (core/manufacturer-sync.ts) and the        *)
(* inventory mirror of core/station-admin.ts, against real cabinets that   *)
(* customers, the manufacturer's own rental flow and operators use at the  *)
(* same time.  A run reads each linked cabinet over the network, stores    *)
(* the reading, closes the rentals whose battery it shows, and makes the   *)
(* local slots follow: three transactions, with anything in between.       *)
(* The lock of a run expires, so a slow run overlaps the next one.         *)
(*                                                                         *)
(* Rentals are reduced to what these transactions read of them; their own  *)
(* life cycle is in RentalTransactions and StripeCoordinator.  Time is     *)
(* left out: what depends on it is a choice, taken at any moment.          *)
(***************************************************************************)
EXTENDS Naturals, FiniteSets, FiniteSetsExt

CONSTANTS
  None,
  Stations, Cabinets, Batteries, RentalIds,
  SlotsOf,        \* positions of each cabinet
  SlotsAtFirst,   \* positions each station has to begin with
  LinkedAtFirst,  \* the station each cabinet is linked to to begin with
  BatteriesIn,    \* what is in each cabinet to begin with, by position
  Requests,       \* synchronisation requests that may be at work at once
  Steady,         \* those that come back for ever (cron, webhooks, visitors)
  Faults,         \* bound of what happens outside the protocol: see Disturbed
  Prompt          \* whether a reading is used before the two minutes of RETURN_SETTLE_MS

ASSUME CabinetsAssumption ==
  /\ SlotsOf \in [Cabinets -> SUBSET (Nat \ {0})] /\ SlotsAtFirst \in [Stations -> SUBSET (Nat \ {0})]
  /\ LinkedAtFirst \in [Cabinets -> Stations \cup {None}]
  /\ DOMAIN BatteriesIn = Cabinets
  /\ \A c \in Cabinets : BatteriesIn[c] \in [SlotsOf[c] -> Batteries \cup {None}]
  \* To begin with too, a battery is in one place and a station has one cabinet.
  /\ \A c, d \in Cabinets : \A p \in SlotsOf[c], q \in SlotsOf[d] :
       BatteriesIn[c][p] = BatteriesIn[d][q] /\ BatteriesIn[c][p] # None => c = d /\ p = q
  /\ \A c, d \in Cabinets : LinkedAtFirst[c] = LinkedAtFirst[d] /\ LinkedAtFirst[c] # None => c = d
  /\ Faults \in Nat /\ Steady \subseteq Requests /\ Prompt \in BOOLEAN
  /\ None \notin Stations \cup Cabinets \cup Batteries

VARIABLES
  cabinets,  \* the real thing: what is in each cabinet, and whether it is on line
  links,     \* the station each cabinet is linked to, and whether the link is active
  stored,    \* the last reading stored for each link (None if none)
  slots,     \* the local slots of each station
  status,    \* the local status of each battery
  online,    \* the local flag of each station
  rentals,
  given,     \* rentals whose customer has put the battery back in a cabinet
  requests,  \* what each synchronisation request is doing
  faults

local == <<slots, status, online>>
vars == <<cabinets, links, stored, slots, status, online, rentals, given, requests, faults>>

Held(contents) == {contents[p] : p \in DOMAIN contents} \ {None}
InCabinet(b) == \E c \in Cabinets : b \in Held(cabinets[c].contents)
InSlot(b) == \E s \in Stations : b \in Held(slots[s])
LinkedTo(s) == {c \in Cabinets : links[c].active /\ links[c].station = s}
NoRental == [state |-> "none", station |-> None, battery |-> None, settled |-> FALSE]
Waiting == [step |-> "idle", todo |-> {}, cabinet |-> None, station |-> None, reading |-> None, found |-> {}]

Init ==
  /\ cabinets = [c \in Cabinets |-> [contents |-> BatteriesIn[c], online |-> TRUE]]
  /\ links = [c \in Cabinets |-> [station |-> LinkedAtFirst[c], active |-> LinkedAtFirst[c] # None]]
  /\ stored = [c \in Cabinets |-> None]
  /\ slots = [s \in Stations |-> [p \in SlotsAtFirst[s] |-> None]]
  /\ status = [b \in Batteries |-> "MISSING"]
  /\ online = [s \in Stations |-> FALSE]
  /\ rentals = [r \in RentalIds |-> NoRental]
  /\ given = {}
  /\ requests = [p \in Requests |-> Waiting]
  /\ faults = Faults

-----------------------------------------------------------------------------
(* Cabinets and their users.                                               *)

Elsewhere == UNCHANGED <<links, stored, local, requests>>
\* What people and machines do outside the protocol, a bounded number of times.
Disturbed == faults > 0 /\ faults' = faults - 1

Put(c, p, b) == cabinets' = [cabinets EXCEPT ![c].contents[p] = b]
\* The manufacturer's own rentals, an operator's key: a battery leaves, and may be put back.
TakeOut(c, p) ==
  /\ Disturbed
  /\ cabinets[c].contents[p] # None /\ Put(c, p, None)
  /\ UNCHANGED <<rentals, given>> /\ Elsewhere
BringIn(c, p, b) ==
  /\ cabinets[c].contents[p] = None /\ ~InCabinet(b)
  /\ \A r \in RentalIds : rentals[r].battery = b => rentals[r].state = "done"
  /\ Put(c, p, b)
  /\ UNCHANGED <<rentals, given, faults>> /\ Elsewhere
PowerSwitched(c, on) ==
  /\ Disturbed
  /\ cabinets[c].online # on /\ cabinets' = [cabinets EXCEPT ![c].online = on]
  /\ UNCHANGED <<rentals, given>> /\ Elsewhere

\* A customer starts a rental; it holds no battery until the cabinet lets one go.
StartRental(r, s) ==
  /\ rentals[r].state = "none"
  /\ online[s] /\ \E b \in Held(slots[s]) : status[b] = "AVAILABLE"
  /\ rentals' = [rentals EXCEPT ![r] = [@ EXCEPT !.state = "starting", !.station = s]]
  /\ UNCHANGED <<cabinets, given, faults>> /\ Elsewhere
\* Abandoned or expired (expireStale).
GiveUp(r) ==
  /\ rentals[r].state = "starting"
  /\ rentals' = [rentals EXCEPT ![r].state = "done"]
  /\ UNCHANGED <<cabinets, given, faults>> /\ Elsewhere
\* ejectBatteryAsync: a battery both the local map and the cabinet show; it leaves the cabinet...
Pop(r, c, b) ==
  /\ rentals[r].state = "starting" /\ c \in LinkedTo(rentals[r].station) /\ cabinets[c].online
  /\ b \in Held(slots[rentals[r].station]) /\ status[b] = "AVAILABLE"
  /\ \E p \in SlotsOf[c] : cabinets[c].contents[p] = b /\ Put(c, p, None)
  /\ rentals' = [rentals EXCEPT ![r] = [@ EXCEPT !.state = "ejecting", !.battery = b]]
  /\ UNCHANGED <<given, faults>> /\ Elsewhere
\* ... and then the local map, which must still have it at this station.
Ejected(r) ==
  LET s == rentals[r].station  b == rentals[r].battery IN
  /\ rentals[r].state = "ejecting"
  /\ IF b \in Held(slots[s]) /\ status[b] = "AVAILABLE"
       THEN /\ slots' = [slots EXCEPT ![s] = [p \in DOMAIN @ |-> IF @[p] = b THEN None ELSE @[p]]]
            /\ status' = [status EXCEPT ![b] = "RENTED"]
            /\ rentals' = [rentals EXCEPT ![r].state = "active"]
       ELSE /\ rentals' = [rentals EXCEPT ![r].state = "done"]
            /\ UNCHANGED <<slots, status>>
  /\ UNCHANGED <<cabinets, links, stored, online, given, requests, faults>>
\* Two minutes into the rental no answer read before it is still waiting to be used.
Settles(r) ==
  /\ rentals[r].state = "active" /\ ~rentals[r].settled
  /\ (Prompt /\ r \notin given) => \A p \in Requests :
       requests[p].step = "commit" => rentals[r].battery \notin Held(requests[p].reading.contents)
  /\ rentals' = [rentals EXCEPT ![r].settled = TRUE]
  /\ UNCHANGED <<cabinets, given, faults>> /\ Elsewhere
\* The customer brings it back, to any cabinet.
Return(r, c, p) ==
  /\ rentals[r].state = "active" /\ ~InCabinet(rentals[r].battery)
  /\ cabinets[c].contents[p] = None
  /\ Put(c, p, rentals[r].battery)
  /\ given' = given \cup {r}
  /\ UNCHANGED <<rentals, faults>> /\ Elsewhere

-----------------------------------------------------------------------------
(* Links.                                                                  *)

Unlinked(s, c) ==
  [k \in Cabinets |-> IF k # c /\ links[k].station = s THEN [links[k] EXCEPT !.active = FALSE] ELSE links[k]]
\* Mutant: the station keeps the cabinet it had.
LinkStationKeeping(s, c) ==
  /\ Disturbed
  /\ links[c].station \in {None, s}
  /\ links' = [links EXCEPT ![c] = [station |-> s, active |-> TRUE]]
  /\ UNCHANGED <<cabinets, rentals, given, stored, local, requests>>
\* Mutant: the link is switched on where it was.
LinkStationBlind(s, c) ==
  /\ Disturbed
  /\ links[c].station \in {None, s}
  /\ links' = [Unlinked(s, c) EXCEPT ![c].active = TRUE]
  /\ UNCHANGED <<cabinets, rentals, given, stored, local, requests>>
\* linkManufacturerStation: a cabinet known to another station is refused, active or not.
LinkStation(s, c) ==
  /\ Disturbed
  /\ links[c].station \in {None, s}
  /\ links' = [Unlinked(s, c) EXCEPT ![c] = [station |-> s, active |-> TRUE]]
  /\ UNCHANGED <<cabinets, rentals, given, stored, local, requests>>
\* moveManufacturerLink: nothing measured for the old station survives.
MoveLink(c, s) ==
  /\ Disturbed
  /\ links[c].station # None /\ (links[c].station # s \/ ~links[c].active)
  /\ \A r \in RentalIds : rentals[r].station \in {s, links[c].station} => rentals[r].state \in {"none", "done"}
  /\ links' = [Unlinked(s, c) EXCEPT ![c] = [station |-> s, active |-> TRUE]]
  /\ stored' = [stored EXCEPT ![c] = None]
  /\ UNCHANGED <<cabinets, rentals, given, local, requests>>

-----------------------------------------------------------------------------
(* A run.                                                                  *)

Outside == UNCHANGED <<cabinets, given, faults>>
At(p, step) == requests[p].step = step
NextLink(p) == requests' = [requests EXCEPT ![p] = [Waiting EXCEPT !.step = "next", !.todo = requests[p].todo]]

\* Of every active link, or of one station.  A run is refused while another one started less than
\* ten minutes ago is RUNNING; after that the other, dead or slow, is only declared failed.
Start(p, scope) ==
  /\ At(p, "idle")
  /\ requests' = [requests EXCEPT ![p] = [Waiting EXCEPT !.step = "next",
       !.todo = {<<c, links[c].station>> : c \in {k \in Cabinets : links[k].active /\ links[k].station \in scope}}]]
  /\ UNCHANGED <<links, stored, local, rentals>> /\ Outside
\* The process dies where it stands.
Crash(p) ==
  /\ Disturbed /\ ~At(p, "idle")
  /\ requests' = [requests EXCEPT ![p] = Waiting]
  /\ UNCHANGED <<cabinets, given, links, stored, local, rentals>>

\* getDeviceInfo, after the retries of readWithRetry.
Read(p, c, s) ==
  /\ At(p, "next") /\ <<c, s>> \in requests[p].todo
  /\ cabinets[c].online
  /\ requests' = [requests EXCEPT ![p] = [@ EXCEPT !.step = "commit", !.todo = requests[p].todo \ {<<c, s>>},
       !.cabinet = c, !.station = s, !.reading = cabinets[c]]]
  /\ UNCHANGED <<links, stored, local, rentals>> /\ Outside
\* No answer, or a cabinet that the manufacturer says is not on line.
ReadFails(p, c, s, offline) ==
  /\ At(p, "next") /\ <<c, s>> \in requests[p].todo
  /\ offline => ~cabinets[c].online
  /\ requests' = [requests EXCEPT ![p].todo = @ \ {<<c, s>>}]
  /\ online' = IF offline THEN [online EXCEPT ![s] = FALSE] ELSE online
  /\ UNCHANGED <<links, stored, slots, status, rentals>> /\ Outside

\* Mutant: a battery counts as returned as soon as a reading shows it.
DetectReturnsAtOnce(s, reading) ==
  {r \in RentalIds : rentals[r].state = "active" /\ rentals[r].battery \in Held(reading.contents)}
\* Mutant: only where the rental started.
DetectReturnsHere(s, reading) ==
  {r \in RentalIds : /\ rentals[r].state = "active" /\ rentals[r].settled
                     /\ rentals[r].battery \in Held(reading.contents) /\ rentals[r].station = s}
DetectReturns(s, reading) ==
  {r \in RentalIds : /\ rentals[r].state = "active" /\ rentals[r].settled
                     /\ rentals[r].battery \in Held(reading.contents)}
\* persistComparison, without the reconciliation records, which only the back office reads; the
\* link may have been moved or replaced meanwhile.
Commit(p) ==
  LET c == requests[p].cabinet  reading == requests[p].reading  s == links[c].station IN
  /\ At(p, "commit")
  /\ IF links[c].active
       THEN /\ stored' = [stored EXCEPT ![c] = [contents |-> reading.contents, online |-> reading.online, recent |-> TRUE]]
            /\ online' = [online EXCEPT ![s] = reading.online]
            /\ requests' = [requests EXCEPT ![p] = [@ EXCEPT !.step = "close", !.reading = None,
                                                          !.found = DetectReturns(s, reading)]]
       ELSE /\ NextLink(p)
            /\ UNCHANGED <<stored, online>>
  /\ UNCHANGED <<links, slots, status, rentals>> /\ Outside

Free == {f \in Stations \X UNION {DOMAIN slots[s] : s \in Stations} :
           f[2] \in DOMAIN slots[f[1]] /\ slots[f[1]][f[2]] = None}
FreeAt(s) == {f \in Free : f[1] = s}
\* onReturnDetected: the detected return of each rental found, which places the battery in any
\* free slot, or is refused.
CloseRental(p, r) ==
  LET s == requests[p].station  b == rentals[r].battery IN
  /\ At(p, "close") /\ r \in requests[p].found
  /\ requests' = [requests EXCEPT ![p].found = @ \ {r}]
  /\ IF rentals[r].state # "active" \/ Free = {}
       THEN UNCHANGED <<slots, status, rentals>>
       ELSE /\ \E f \in IF FreeAt(s) # {} THEN FreeAt(s) ELSE Free : slots' = [slots EXCEPT ![f[1]][f[2]] = b]
            /\ status' = [status EXCEPT ![b] = "AVAILABLE"]
            /\ rentals' = [rentals EXCEPT ![r].state = "done"]
  /\ UNCHANGED <<links, stored, online>> /\ Outside

\* Mutant: a battery is entered where it is without being taken from where it was.
MirroredSlotsTwice(s, contents) ==
  [slots EXCEPT ![s] = [p \in DOMAIN slots[s] \cup DOMAIN contents |->
                          IF p \in DOMAIN contents THEN contents[p] ELSE None]]
MirroredSlots(s, contents) ==
  [t \in Stations |->
     IF t = s THEN [p \in DOMAIN slots[s] \cup DOMAIN contents |->
                      IF p \in DOMAIN contents THEN contents[p] ELSE None]
     ELSE [p \in DOMAIN slots[t] |-> IF slots[t][p] \in Held(contents) THEN None ELSE slots[t][p]]]
\* Mutant: a battery that had gone missing stops the mirror.
CanMirrorKnown(s, c) ==
  /\ c \in LinkedTo(s) /\ stored[c] # None /\ stored[c].recent /\ stored[c].online
  /\ \A r \in RentalIds : rentals[r].station = s => rentals[r].state \notin {"starting", "ejecting"}
  /\ \A b \in Held(stored[c].contents) : status[b] = "AVAILABLE"
\* mirrorCabinetInventory, from the recent reading stored for the station's active link.
CanMirror(s, c) ==
  /\ c \in LinkedTo(s) /\ stored[c] # None /\ stored[c].recent /\ stored[c].online
  /\ \A r \in RentalIds : rentals[r].station = s => rentals[r].state \notin {"starting", "ejecting"}
  /\ \A b \in Held(stored[c].contents) : status[b] # "RENTED"
Mirrored(s) ==
  \E c \in Cabinets : LET inside == Held(stored[c].contents) IN
    /\ CanMirror(s, c)
    /\ slots' = MirroredSlots(s, stored[c].contents)
    /\ status' = [b \in Batteries |->
         IF b \in inside THEN "AVAILABLE" ELSE IF b \in Held(slots[s]) THEN "MISSING" ELSE status[b]]
AfterClose(p) == At(p, "close") /\ requests[p].found = {}
Mirror(p) ==
  /\ AfterClose(p) /\ Mirrored(requests[p].station)
  /\ NextLink(p)
  /\ UNCHANGED <<links, stored, online, rentals>> /\ Outside
StandAside(p) ==
  /\ AfterClose(p) /\ \A c \in Cabinets : ~CanMirror(requests[p].station, c)
  /\ NextLink(p)
  /\ UNCHANGED <<links, stored, local, rentals>> /\ Outside
\* adoptProviderInventory: the same mirror, asked for by an operator.
Adopt(s) ==
  /\ Mirrored(s)
  /\ UNCHANGED <<links, stored, online, rentals, requests>> /\ Outside
\* INVENTORY_SNAPSHOT_MAX_AGE_MS, ten minutes.
ReadingAges(c) ==
  /\ stored[c] # None /\ stored[c].recent
  /\ stored' = [stored EXCEPT ![c].recent = FALSE]
  /\ UNCHANGED <<links, local, rentals, requests>> /\ Outside

Finish(p) ==
  /\ At(p, "next") /\ requests[p].todo = {}
  /\ requests' = [requests EXCEPT ![p] = Waiting]
  /\ UNCHANGED <<links, stored, local, rentals>> /\ Outside

People ==
  \/ \E c \in Cabinets :
       \/ ReadingAges(c) \/ \E on \in BOOLEAN : PowerSwitched(c, on)
       \/ \E p \in SlotsOf[c] : \/ TakeOut(c, p)
                                \/ \E b \in Batteries : BringIn(c, p, b)
                                \/ \E r \in RentalIds : Return(r, c, p)
       \/ \E s \in Stations : LinkStation(s, c) \/ MoveLink(c, s)
  \/ \E r \in RentalIds :
       \/ GiveUp(r) \/ Ejected(r) \/ Settles(r)
       \/ \E s \in Stations : StartRental(r, s)
       \/ \E c \in Cabinets, b \in Batteries : Pop(r, c, b)
  \/ \E s \in Stations : Adopt(s)
StartAny(p) == Start(p, Stations)
ReadAny(p) == \E job \in requests[p].todo : Read(p, job[1], job[2])
FailAny(p) == \E job \in requests[p].todo, offline \in BOOLEAN : ReadFails(p, job[1], job[2], offline)
CloseAny(p) == \E r \in requests[p].found : CloseRental(p, r)
Run(p) ==
  \/ StartAny(p) \/ \E s \in Stations : Start(p, {s})
  \/ Crash(p) \/ ReadAny(p) \/ FailAny(p) \/ Commit(p) \/ CloseAny(p)
  \/ Mirror(p) \/ StandAside(p) \/ Finish(p)

Next == People \/ \E p \in Requests : Run(p)
Spec == Init /\ [][Next]_vars

\* Requests keep coming (cron, webhooks, visitors), readings succeed again and again where the
\* cabinet is on line, the mirror is not always too late, and a rental does not stay at its start.
Fairness ==
  /\ \A p \in Steady :
       /\ WF_vars(ReadAny(p) \/ FailAny(p) \/ Commit(p) \/ CloseAny(p) \/ Mirror(p) \/ StandAside(p) \/ Finish(p))
       /\ SF_vars(StartAny(p))
       /\ \A s \in Stations : SF_vars(requests[p].station = s /\ Mirror(p))
       /\ \A c \in Cabinets : SF_vars(\E s \in Stations : Read(p, c, s))
  /\ \A c \in Cabinets : WF_vars(ReadingAges(c))
  /\ \A r \in RentalIds : WF_vars(GiveUp(r) \/ Ejected(r)) /\ WF_vars(Settles(r))
FairSpec == Spec /\ Fairness

-----------------------------------------------------------------------------
(* Properties *)

TypeOK ==
  /\ \A c \in Cabinets :
       /\ cabinets[c].contents \in [SlotsOf[c] -> Batteries \cup {None}] /\ cabinets[c].online \in BOOLEAN
       /\ links[c].station \in Stations \cup {None} /\ links[c].active \in BOOLEAN
       /\ links[c].active => links[c].station # None
       /\ stored[c] # None => stored[c].contents \in [SlotsOf[c] -> Batteries \cup {None}]
  /\ \A s \in Stations : slots[s] \in [DOMAIN slots[s] -> Batteries \cup {None}] /\ online[s] \in BOOLEAN
  /\ status \in [Batteries -> {"AVAILABLE", "RENTED", "MISSING"}]
  /\ \A r \in RentalIds : rentals[r].state \in {"none", "starting", "ejecting", "active", "done"}
  /\ given \subseteq RentalIds
  /\ \A p \in Requests : requests[p].step = "idle" => requests[p] = Waiting

\* A station follows one cabinet at a time, through replacements and moves of cabinets; and
\* whatever readings are mirrored, in whatever order, the mirror leaves an inventory that the
\* commit gate accepts: a battery in one slot, in none exactly when it is out or missing, and out
\* only on a rental (mirrorCabinetInventory never has to be refused, nor its run to fail).
ValidInventory ==
  /\ TypeOK
  /\ \A s \in Stations : Cardinality(LinkedTo(s)) <= 1
  /\ \A s, t \in Stations : \A p \in DOMAIN slots[s], q \in DOMAIN slots[t] :
       slots[s][p] = slots[t][q] /\ slots[s][p] # None => s = t /\ p = q
  /\ \A b \in Batteries :
       /\ InSlot(b) <=> status[b] = "AVAILABLE"
       /\ status[b] = "RENTED" => \E r \in RentalIds : rentals[r].battery = b /\ rentals[r].state = "active"

\* A rental is closed by a reading only when its customer has brought the battery back, although
\* readings from before it left arrive late and runs overlap (detectReturns, RETURN_SETTLE_MS).
ReturnIsReal ==
  [][\A r \in RentalIds : rentals[r].state = "active" /\ rentals'[r].state = "done" => r \in given]_vars

\* A battery brought back to a cabinet that stays linked and on line closes its rental, although
\* runs crash, readings fail and others are using the cabinet.
Noticeable(r, c) ==
  /\ r \in given /\ rentals[r].battery \in Held(cabinets[c].contents)
  /\ cabinets[c].online /\ links[c].active
ReturnNoticed == \A r \in RentalIds, c \in Cabinets : <>[]Noticeable(r, c) => <>(rentals[r].state = "done")

\* Once people leave it alone, a station ends up showing what its cabinet contains and that it is
\* on line, whatever was taken out or brought in behind its back.
Reflected(c) ==
  LET s == links[c].station IN
  /\ links[c].active /\ online[s]
  /\ \A p \in DOMAIN slots[s] : slots[s][p] = IF p \in SlotsOf[c] THEN cabinets[c].contents[p] ELSE None
InventoryConverges ==
  \A c \in Cabinets : <>[](cabinets[c].online /\ links[c].active) => <>[]Reflected(c)

\* A return that a cabinet has confirmed is recorded: a saturated local slot map does not keep the
\* rental open (the comment of placeReturned, core/rental.ts:96-100).
DetectedReturnCloses ==
  [][\A p \in Requests : \A r \in requests[p].found :
       (rentals[r].state = "active" /\ requests'[p].step = "close" /\ r \notin requests'[p].found)
         => rentals'[r].state = "done"]_vars
=============================================================================
