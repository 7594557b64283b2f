------------------------------ MODULE SyncProofs ------------------------------
(* Theorems about CabinetSync, for every set of stations, cabinets, batteries, rentals and  *)
(* requests, and however often the cabinets are disturbed: the inventory stays one that the  *)
(* commit gate accepts, and a reading closes a rental only when its battery has come back.   *)
EXTENDS CabinetSync, FiniteSetTheorems, TLAPS

Contents(c) == [SlotsOf[c] -> Batteries \cup {None}]
AnyContents == UNION {Contents(c) : c \in Cabinets}
Reading == [contents : AnyContents, online : BOOLEAN]
Snapshot == [contents : AnyContents, online : BOOLEAN, recent : BOOLEAN]
\* No battery shows twice.
Distinct(f) == \A p, q \in DOMAIN f : f[p] = f[q] /\ f[p] # None => p = q

\* The real cabinets: a battery is in one place.
CabinetsOK ==
  /\ cabinets \in [Cabinets -> Reading]
  /\ \A c \in Cabinets : cabinets[c].contents \in Contents(c)
  /\ \A c, d \in Cabinets : \A p \in SlotsOf[c], q \in SlotsOf[d] :
       cabinets[c].contents[p] = cabinets[d].contents[q] /\ cabinets[c].contents[p] # None => c = d /\ p = q

\* A station has one active link.
LinksOK ==
  /\ links \in [Cabinets -> [station : Stations \cup {None}, active : BOOLEAN]]
  /\ \A c \in Cabinets : links[c].active => links[c].station # None
  /\ \A c, d \in Cabinets :
       links[c].active /\ links[d].active /\ links[c].station = links[d].station => c = d

\* What is stored was read from that cabinet at some moment.
StoredOK ==
  /\ stored \in [Cabinets -> Snapshot \cup {None}]
  /\ \A c \in Cabinets : stored[c] # None => stored[c].contents \in Contents(c) /\ Distinct(stored[c].contents)

\* The local inventory, as the commit gate accepts it, and what it says of the rentals.
OutOnRental ==
  /\ \A b \in Batteries :
       status[b] = "RENTED" => \E r \in RentalIds : rentals[r].battery = b /\ rentals[r].state = "active"
  /\ \A r \in RentalIds : rentals[r].state = "active" => status[rentals[r].battery] = "RENTED"
OneSlotEach ==
  \A s, t \in Stations : \A p \in DOMAIN slots[s], q \in DOMAIN slots[t] :
    slots[s][p] = slots[t][q] /\ slots[s][p] # None => s = t /\ p = q
InventoryOK ==
  /\ slots = [s \in Stations |-> slots[s]] /\ online \in [Stations -> BOOLEAN]
  /\ \A s \in Stations : slots[s] \in [DOMAIN slots[s] -> Batteries \cup {None}]
  /\ status \in [Batteries -> {"AVAILABLE", "RENTED", "MISSING"}]
  /\ OneSlotEach
  /\ \A b \in Batteries : InSlot(b) <=> status[b] = "AVAILABLE"
  /\ OutOnRental

\* A rental whose battery left the cabinet and is not closed: no other has that battery, and it
\* is in no cabinet until the customer brings it back.
Out(r) == rentals[r].state \in {"ejecting", "active"}
RentalRow == [state : {"none", "starting", "ejecting", "active", "done"}, station : Stations \cup {None},
              battery : Batteries \cup {None}, settled : BOOLEAN]
RentalsOK ==
  /\ rentals \in [RentalIds -> RentalRow]
  /\ \A r \in RentalIds : rentals[r].state # "none" => rentals[r].station \in Stations
  /\ given \subseteq RentalIds
  /\ \A r \in given : rentals[r].state \in {"active", "done"}
  /\ \A r \in RentalIds : Out(r) => rentals[r].battery \in Batteries
  /\ \A r \in RentalIds : rentals[r].settled => rentals[r].state \in {"active", "done"}
  /\ \A r, q \in RentalIds : Out(r) /\ Out(q) /\ rentals[r].battery = rentals[q].battery => r = q
  /\ \A r \in RentalIds : Out(r) /\ r \notin given => ~InCabinet(rentals[r].battery)

\* What a synchronisation request has in hand: a reading of its cabinet, and returns that are real
\* because a settled rental shows in no answer read before its battery came back.
RequestRow == [step : {"idle", "next", "commit", "close"}, todo : SUBSET (Cabinets \X Stations),
               cabinet : Cabinets \cup {None}, station : Stations \cup {None},
               reading : Reading \cup {None}, found : SUBSET RentalIds]
RequestOK(q) ==
  /\ q \in RequestRow
  /\ q.step = "idle" => q = Waiting
  /\ q.step = "close" => q.station \in Stations
  /\ q.step = "commit" => /\ q.cabinet \in Cabinets /\ q.station \in Stations /\ q.reading \in Reading
                          /\ q.reading.contents \in Contents(q.cabinet) /\ Distinct(q.reading.contents)
RequestsOK == requests = [p \in Requests |-> requests[p]] /\ \A p \in Requests : RequestOK(requests[p])
Real(q) ==
  /\ q.found \subseteq given
  /\ q.step = "commit" => \A r \in RentalIds :
       /\ rentals[r].state = "active" /\ rentals[r].settled
       /\ rentals[r].battery \in Held(q.reading.contents)
       => r \in given
ReturnsReal == Prompt => \A p \in Requests : Real(requests[p])

SyncInv == CabinetsOK /\ LinksOK /\ StoredOK /\ InventoryOK /\ RentalsOK /\ RequestsOK /\ ReturnsReal

USE DEF At

-----------------------------------------------------------------------------
(* The real cabinets. *)

\* What putting a battery, or nothing, in a position does to the cabinets.
Written(c, p, b) ==
  \A k \in Cabinets :
    cabinets'[k].contents = IF k = c THEN [cabinets[c].contents EXCEPT ![p] = b] ELSE cabinets[k].contents
LEMMA Putting ==
  ASSUME CabinetsOK, CabinetsAssumption, NEW c \in Cabinets, NEW p \in SlotsOf[c], NEW b \in Batteries \cup {None},
         b # None => ~InCabinet(b), Put(c, p, b)
  PROVE  CabinetsOK' /\ Written(c, p, b)
<1>1. \A k \in Cabinets : /\ cabinets[k] \in Reading
                          /\ cabinets[k].contents \in Contents(k) /\ Contents(k) \subseteq AnyContents
  BY DEF CabinetsOK, AnyContents
<1>2. [cabinets[c].contents EXCEPT ![p] = b] \in Contents(c)
  BY <1>1 DEF Contents
<1>3. /\ DOMAIN cabinets' = Cabinets /\ cabinets' = [k \in Cabinets |-> cabinets'[k]]
      /\ cabinets'[c] = [cabinets[c] EXCEPT !.contents = [cabinets[c].contents EXCEPT ![p] = b]]
      /\ \A k \in Cabinets : k # c => cabinets'[k] = cabinets[k]
  <2>1. cabinets' = [cabinets EXCEPT ![c] = [cabinets[c] EXCEPT !.contents = [cabinets[c].contents EXCEPT ![p] = b]]]
    BY DEF Put
  <2>2. DOMAIN cabinets = Cabinets
    BY DEF CabinetsOK
  <2> QED  BY <2>1, <2>2
<1>4. \A k \in Cabinets : cabinets'[k].contents =
        IF k = c THEN [cabinets[c].contents EXCEPT ![p] = b] ELSE cabinets[k].contents
  BY <1>1, <1>3 DEF Reading
<1>5. \A k \in Cabinets : cabinets'[k] \in Reading /\ cabinets'[k].contents \in Contents(k)
  <2>1. cabinets'[c].contents \in Contents(c)
    BY <1>2, <1>4
  <2>2. cabinets'[c] \in Reading
    BY <1>1, <1>2, <1>3 DEF Reading
  <2> QED  BY <1>1, <1>3, <2>1, <2>2
<1>6. ASSUME NEW d \in Cabinets, NEW e \in Cabinets, NEW q \in SlotsOf[d], NEW u \in SlotsOf[e],
             cabinets'[d].contents[q] = cabinets'[e].contents[u], cabinets'[d].contents[q] # None
      PROVE  d = e /\ q = u
  <2>1. \A k \in Cabinets : DOMAIN cabinets[k].contents = SlotsOf[k]
    BY <1>1 DEF Contents
  <2>2. \A k \in Cabinets : \A n \in SlotsOf[k] : b # None => cabinets[k].contents[n] # b
    BY <2>1 DEF InCabinet, Held
  <2>3. \A k \in Cabinets : \A n \in SlotsOf[k] : cabinets'[k].contents[n] =
           IF k = c /\ n = p THEN b ELSE cabinets[k].contents[n]
    BY <1>4, <2>1
  <2>4. CASE (d = c /\ q = p) \/ (e = c /\ u = p)
    BY <1>6, <2>2, <2>3, <2>4
  <2>5. CASE ~(d = c /\ q = p) /\ ~(e = c /\ u = p)
    BY <1>6, <2>3, <2>5 DEF CabinetsOK
  <2> QED  BY <2>4, <2>5
<1>7. cabinets' \in [Cabinets -> Reading]
  BY <1>3, <1>5
<1> QED  BY <1>4, <1>5, <1>6, <1>7 DEF CabinetsOK, Written

\* Every step leaves the cabinets alone, empties a position, fills an empty one with a battery
\* that is in none, or switches a cabinet.
LEMMA CabinetMoves ==
  ASSUME SyncInv, CabinetsAssumption, [Next]_vars
  PROVE  \/ UNCHANGED cabinets
         \/ \E c \in Cabinets, on \in BOOLEAN : PowerSwitched(c, on)
         \/ \E c \in Cabinets : \E p \in SlotsOf[c] : Put(c, p, None)
         \/ \E c \in Cabinets : \E p \in SlotsOf[c], b \in Batteries : Put(c, p, b) /\ ~InCabinet(b)
<1>1. CASE UNCHANGED vars  BY <1>1 DEF vars
<1>2. CASE \E p \in Requests : Run(p)
  BY <1>2 DEF Run, StartAny, Start, Crash, ReadAny, Read, FailAny, ReadFails, Commit, CloseAny, CloseRental,
              Mirror, StandAside, Finish, Outside
<1>3. CASE People
  <2>1. ASSUME NEW c \in Cabinets, NEW p \in SlotsOf[c], TakeOut(c, p)
        PROVE Put(c, p, None)
    BY <2>1 DEF TakeOut
  <2>2. ASSUME NEW c \in Cabinets, NEW p \in SlotsOf[c], NEW b \in Batteries, BringIn(c, p, b)
        PROVE Put(c, p, b) /\ ~InCabinet(b)
    BY <2>2 DEF BringIn
  <2>3. ASSUME NEW c \in Cabinets, NEW p \in SlotsOf[c], NEW r \in RentalIds, Return(r, c, p)
        PROVE rentals[r].battery \in Batteries /\ Put(c, p, rentals[r].battery) /\ ~InCabinet(rentals[r].battery)
    BY <2>3 DEF Return, SyncInv, RentalsOK, Out
  <2>4. ASSUME NEW r \in RentalIds, NEW c \in Cabinets, NEW b \in Batteries, Pop(r, c, b)
        PROVE \E p \in SlotsOf[c] : Put(c, p, None)
    BY <2>4 DEF Pop
  <2>5. ASSUME NEW c \in Cabinets, \/ ReadingAges(c) \/ \E s \in Stations : LinkStation(s, c) \/ MoveLink(c, s)
        PROVE UNCHANGED cabinets
    BY <2>5 DEF ReadingAges, Outside, LinkStation, MoveLink
  <2>6. ASSUME NEW r \in RentalIds, \/ GiveUp(r) \/ Ejected(r) \/ Settles(r) \/ \E s \in Stations : StartRental(r, s)
        PROVE UNCHANGED cabinets
    BY <2>6 DEF GiveUp, Ejected, Settles, StartRental
  <2>7. ASSUME NEW s \in Stations, Adopt(s)
        PROVE UNCHANGED cabinets
    BY <2>7 DEF Adopt, Outside
  <2> QED  BY <1>3, <2>1, <2>2, <2>3, <2>4, <2>5, <2>6, <2>7 DEF People
<1> QED  BY <1>1, <1>2, <1>3 DEF Next

LEMMA CabinetsKept ==
  ASSUME SyncInv, CabinetsAssumption, [Next]_vars
  PROVE  CabinetsOK'
<1>1. CASE UNCHANGED cabinets  BY <1>1 DEF SyncInv, CabinetsOK
<1>2. ASSUME NEW c \in Cabinets, NEW on \in BOOLEAN, PowerSwitched(c, on)
      PROVE  CabinetsOK'
  <2>1. /\ cabinets' \in [Cabinets -> Reading]
        /\ \A k \in Cabinets : cabinets'[k].contents = cabinets[k].contents
    BY <1>2 DEF PowerSwitched, SyncInv, CabinetsOK, Reading
  <2>2. CabinetsOK
    BY DEF SyncInv
  <2>3. \A k \in Cabinets : cabinets'[k].contents \in Contents(k)
    BY <2>1, <2>2 DEF CabinetsOK
  <2>4. \A k, d \in Cabinets : \A p \in SlotsOf[k], q \in SlotsOf[d] :
          cabinets'[k].contents[p] = cabinets'[d].contents[q] /\ cabinets'[k].contents[p] # None => k = d /\ p = q
    BY <2>1, <2>2 DEF CabinetsOK
  <2>5. cabinets' \in [Cabinets -> Reading]
    BY <2>1
  <2> QED  BY <2>3, <2>4, <2>5, Zenon DEF CabinetsOK
<1>3. ASSUME NEW c \in Cabinets, NEW p \in SlotsOf[c], NEW b \in Batteries \cup {None},
             b # None => ~InCabinet(b), Put(c, p, b)
      PROVE  CabinetsOK'
  BY <1>3, Putting DEF SyncInv
<1> QED  BY <1>1, <1>2, <1>3, CabinetMoves

-----------------------------------------------------------------------------
(* Links and stored readings. *)

\* A link changes only when a cabinet is linked, and then every other cabinet of its station is not.
LEMMA LinkMoves ==
  ASSUME [Next]_vars
  PROVE  \/ UNCHANGED links
         \/ \E s \in Stations, c \in Cabinets : links' = [Unlinked(s, c) EXCEPT ![c] = [station |-> s, active |-> TRUE]]
<1>1. CASE UNCHANGED vars  BY <1>1 DEF vars
<1>2. CASE \E p \in Requests : Run(p)
  BY <1>2 DEF Run, StartAny, Start, Crash, ReadAny, Read, FailAny, ReadFails, Commit, CloseAny, CloseRental,
              Mirror, StandAside, Finish
<1>3. CASE People
  BY <1>3 DEF People, PowerSwitched, ReadingAges, TakeOut, BringIn, Return, LinkStation, MoveLink, GiveUp, Ejected,
              Settles, StartRental, Pop, Adopt, Elsewhere
<1> QED  BY <1>1, <1>2, <1>3 DEF Next

LEMMA LinksKept ==
  ASSUME LinksOK, CabinetsAssumption, [Next]_vars
  PROVE  LinksOK'
<1>1. CASE UNCHANGED links  BY <1>1 DEF LinksOK
<1>2. ASSUME NEW s \in Stations, NEW c \in Cabinets,
             links' = [Unlinked(s, c) EXCEPT ![c] = [station |-> s, active |-> TRUE]]
      PROVE  LinksOK'
  <2>1. /\ links' = [k \in Cabinets |-> links'[k]]
        /\ links'[c] = [station |-> s, active |-> TRUE]
        /\ \A k \in Cabinets \ {c} :
             links'[k] = IF links[k].station = s THEN [links[k] EXCEPT !.active = FALSE] ELSE links[k]
    BY <1>2 DEF Unlinked
  <2>2. \A k \in Cabinets \ {c} :
          /\ links'[k] \in [station : Stations \cup {None}, active : BOOLEAN]
          /\ links'[k].active => links[k].active /\ links'[k].station = links[k].station /\ links[k].station # s
    <3> SUFFICES ASSUME NEW k \in Cabinets \ {c}
                 PROVE  /\ links'[k] \in [station : Stations \cup {None}, active : BOOLEAN]
                        /\ links'[k].active => links[k].active /\ links'[k].station = links[k].station /\ links[k].station # s
      OBVIOUS
    <3>1. links[k] \in [station : Stations \cup {None}, active : BOOLEAN]
      BY DEF LinksOK
    <3>2. CASE links[k].station = s
      <4>1. links'[k] = [links[k] EXCEPT !.active = FALSE]
        BY <2>1, <3>2
      <4>2. links'[k] \in [station : Stations \cup {None}, active : BOOLEAN] /\ links'[k].active = FALSE
        BY <3>1, <4>1
      <4> QED  BY <4>2
    <3>3. CASE links[k].station # s
      BY <2>1, <3>1, <3>3
    <3> QED  BY <3>2, <3>3
  <2>3. links'[c].station = s /\ links'[c] \in [station : Stations \cup {None}, active : BOOLEAN]
    BY <2>1
  <2>4. links' \in [Cabinets -> [station : Stations \cup {None}, active : BOOLEAN]]
    BY <2>1, <2>2, <2>3
  <2>5. \A k \in Cabinets : links'[k].active => links'[k].station # None
    BY <2>2, <2>3 DEF LinksOK, CabinetsAssumption
  <2>6. ASSUME NEW k \in Cabinets, NEW d \in Cabinets, links'[k].active, links'[d].active,
               links'[k].station = links'[d].station
        PROVE  k = d
    BY <2>2, <2>3, <2>6 DEF LinksOK
  <2> QED  BY <2>4, <2>5, <2>6 DEF LinksOK
<1> QED  BY <1>1, <1>2, LinkMoves

\* What is stored changes when a reading is stored, forgotten or grows old.
LEMMA StoredMoves ==
  ASSUME [Next]_vars
  PROVE  \/ UNCHANGED stored
         \/ \E c \in Cabinets : stored' = [stored EXCEPT ![c] = None]
         \/ \E c \in Cabinets : stored[c] # None /\ stored' = [stored EXCEPT ![c].recent = FALSE]
         \/ \E p \in Requests : /\ At(p, "commit")
                                /\ stored' = [stored EXCEPT ![requests[p].cabinet] =
                                     [contents |-> requests[p].reading.contents, online |-> requests[p].reading.online,
                                      recent |-> TRUE]]
<1>1. CASE UNCHANGED vars  BY <1>1 DEF vars
<1>2. CASE \E p \in Requests : Run(p)
  <2>1. ASSUME NEW p \in Requests, Run(p), ~Commit(p)
        PROVE  UNCHANGED stored
    BY <2>1 DEF Run, StartAny, Start, Crash, ReadAny, Read, FailAny, ReadFails, CloseAny, CloseRental, Mirror,
                StandAside, Finish
  <2> QED  BY <1>2, <2>1 DEF Commit
<1>3. CASE People
  BY <1>3 DEF People, PowerSwitched, ReadingAges, TakeOut, BringIn, Return, LinkStation, MoveLink, GiveUp, Ejected,
              Settles, StartRental, Pop, Adopt, Elsewhere
<1> QED  BY <1>1, <1>2, <1>3 DEF Next

LEMMA StoredKept ==
  ASSUME StoredOK, RequestsOK, CabinetsAssumption, [Next]_vars
  PROVE  StoredOK'
<1>1. CASE UNCHANGED stored  BY <1>1 DEF StoredOK
<1>2. ASSUME NEW c \in Cabinets, stored' = [stored EXCEPT ![c] = None]
      PROVE  StoredOK'
  BY <1>2 DEF StoredOK
<1>3. ASSUME NEW c \in Cabinets, stored[c] # None, stored' = [stored EXCEPT ![c].recent = FALSE]
      PROVE  StoredOK'
  <2>1. stored[c] \in Snapshot
    BY <1>3 DEF StoredOK
  <2>2. /\ stored' = [k \in Cabinets |-> stored'[k]]
        /\ stored'[c] \in Snapshot /\ stored'[c].contents = stored[c].contents
        /\ \A k \in Cabinets \ {c} : stored'[k] = stored[k]
    BY <1>3, <2>1 DEF StoredOK, Snapshot
  <2>3. \A k \in Cabinets : stored'[k] \in Snapshot \cup {None}
    BY <2>2 DEF StoredOK
  <2>4. \A k \in Cabinets : stored'[k] # None =>
          stored'[k].contents \in Contents(k) /\ Distinct(stored'[k].contents)
    BY <1>3, <2>2 DEF StoredOK
  <2> QED  BY <2>2, <2>3, <2>4, Zenon DEF StoredOK
<1>4. ASSUME NEW p \in Requests, At(p, "commit"),
             stored' = [stored EXCEPT ![requests[p].cabinet] =
               [contents |-> requests[p].reading.contents, online |-> requests[p].reading.online, recent |-> TRUE]]
      PROVE  StoredOK'
  <2> DEFINE c == requests[p].cabinet  now == [contents |-> requests[p].reading.contents,
                                               online |-> requests[p].reading.online, recent |-> TRUE]
  <2>1. /\ c \in Cabinets /\ requests[p].reading \in Reading
        /\ now.contents \in Contents(c) /\ Distinct(now.contents)
    BY <1>4 DEF RequestsOK, RequestOK, RequestRow
  <2>2. now \in Snapshot
    BY <2>1 DEF Snapshot, Reading
  <2> HIDE DEF now
  <2>3. stored' = [stored EXCEPT ![c] = now]
    BY <1>4 DEF now
  <2> HIDE DEF c
  <2> QED  BY <2>1, <2>2, <2>3 DEF StoredOK
<1> QED  BY <1>1, <1>2, <1>3, <1>4, StoredMoves

-----------------------------------------------------------------------------
(* The local inventory. *)

\* Writing the state of one rental leaves the rest of it, and the others, as they are.
OnlyState(r, x) ==
  /\ rentals' \in [RentalIds -> RentalRow]
  /\ \A q \in RentalIds :
       /\ rentals'[q].state = IF q = r THEN x ELSE rentals[q].state
       /\ rentals'[q].battery = rentals[q].battery
       /\ rentals'[q].station = rentals[q].station
       /\ rentals'[q].settled = rentals[q].settled
LEMMA StateSet ==
  ASSUME rentals \in [RentalIds -> RentalRow], NEW r \in RentalIds,
         NEW x \in {"none", "starting", "ejecting", "active", "done"}, rentals' = [rentals EXCEPT ![r].state = x]
  PROVE  OnlyState(r, x)
BY DEF RentalRow, OnlyState

\* The same rentals are active, with the same batteries.
SameActive ==
  \A r \in RentalIds :
    /\ rentals'[r].state = "active" <=> rentals[r].state = "active"
    /\ rentals[r].state = "active" => rentals'[r].battery = rentals[r].battery

\* Nothing is said of a rental that is not active.
LEMMA InventoryFrame ==
  ASSUME InventoryOK, slots' = slots, status' = status, online' \in [Stations -> BOOLEAN],
         SameActive
  PROVE  InventoryOK'
<1> USE DEF SameActive
<1>1. \A b \in Batteries : InSlot(b)' <=> InSlot(b)
  BY DEF InSlot, Held
<1>2. /\ slots' = [s \in Stations |-> slots'[s]]
      /\ \A s \in Stations : slots'[s] \in [DOMAIN slots'[s] -> Batteries \cup {None}]
      /\ status' \in [Batteries -> {"AVAILABLE", "RENTED", "MISSING"}]
      /\ OneSlotEach'
  BY DEF InventoryOK, OneSlotEach
<1>3. OutOnRental
  BY DEF InventoryOK
<1>4. OutOnRental'
  <2>1. ASSUME NEW b \in Batteries, status'[b] = "RENTED"
        PROVE  \E r \in RentalIds : rentals'[r].battery = b /\ rentals'[r].state = "active"
    <3>1. PICK r \in RentalIds : rentals[r].battery = b /\ rentals[r].state = "active"
      BY <1>3, <2>1 DEF OutOnRental
    <3> QED  BY <3>1
  <2>2. \A r \in RentalIds : rentals'[r].state = "active" => status'[rentals'[r].battery] = "RENTED"
    BY <1>3 DEF OutOnRental
  <2> QED  BY <2>1, <2>2 DEF OutOnRental
<1>5. \A b \in Batteries : InSlot(b)' <=> status'[b] = "AVAILABLE"
  BY <1>1 DEF InventoryOK
<1> QED  BY <1>2, <1>4, <1>5 DEF InventoryOK

\* A recorded ejection takes the battery from its one slot.
LEMMA EjectedInventory ==
  ASSUME InventoryOK, RentalsOK, CabinetsAssumption, NEW r \in RentalIds, Ejected(r)
  PROVE  InventoryOK'
<1> DEFINE s == rentals[r].station
           b == rentals[r].battery
<1>0. s \in Stations /\ b \in Batteries /\ b # None /\ rentals[r].state = "ejecting"
  BY DEF Ejected, RentalsOK, Out, CabinetsAssumption
<1>1. CASE ~(b \in Held(slots[s]) /\ status[b] = "AVAILABLE")
  <2>1. rentals' = [rentals EXCEPT ![r].state = "done"] /\ UNCHANGED <<slots, status, online>>
    BY <1>1 DEF Ejected
  <2>2. SameActive
    BY <1>0, <2>1, StateSet DEF OnlyState, RentalsOK, SameActive
  <2> QED  BY <2>1, <2>2, InventoryFrame DEF InventoryOK
<1>2. CASE b \in Held(slots[s]) /\ status[b] = "AVAILABLE"
  <2>1. /\ slots' = [slots EXCEPT ![s] = [p \in DOMAIN slots[s] |-> IF slots[s][p] = b THEN None ELSE slots[s][p]]]
        /\ status' = [status EXCEPT ![b] = "RENTED"]
        /\ rentals' = [rentals EXCEPT ![r].state = "active"]
        /\ UNCHANGED online
    BY <1>2 DEF Ejected
  <2>2. \A q \in RentalIds : /\ rentals'[q].state = IF q = r THEN "active" ELSE rentals[q].state
                             /\ rentals'[q].battery = rentals[q].battery
    BY <2>1, StateSet DEF OnlyState, RentalsOK
  <2> HIDE DEF s, b
  <2>3. /\ slots' = [t \in Stations |-> slots'[t]]
        /\ \A t \in Stations : DOMAIN slots'[t] = DOMAIN slots[t]
        /\ \A t \in Stations : slots'[t] \in [DOMAIN slots[t] -> Batteries \cup {None}]
        /\ \A t \in Stations : \A p \in DOMAIN slots[t] :
             slots'[t][p] = IF t = s /\ slots[s][p] = b THEN None ELSE slots[t][p]
    BY <1>0, <2>1 DEF InventoryOK
  <2>4. \A t \in Stations : \A p \in DOMAIN slots[t] : slots'[t][p] # b
    BY <1>0, <1>2, <2>3 DEF Held, InventoryOK, OneSlotEach
  <2>5. \A x \in Batteries : InSlot(x)' <=> InSlot(x) /\ x # b
    BY <2>3, <2>4 DEF InSlot, Held
  <2>6. /\ status' \in [Batteries -> {"AVAILABLE", "RENTED", "MISSING"}]
        /\ status'[b] = "RENTED" /\ \A x \in Batteries \ {b} : status'[x] = status[x]
    BY <1>0, <2>1 DEF InventoryOK
  <2>7. \A x \in Batteries : InSlot(x)' <=> status'[x] = "AVAILABLE"
    BY <2>5, <2>6 DEF InventoryOK
  <2>8. ASSUME NEW x \in Batteries, status'[x] = "RENTED"
        PROVE  \E q \in RentalIds : rentals'[q].battery = x /\ rentals'[q].state = "active"
    <3>1. CASE x = b
      BY <2>2, <3>1 DEF b
    <3>2. CASE x # b
      <4>1. PICK q \in RentalIds : rentals[q].battery = x /\ rentals[q].state = "active"
        BY <2>6, <2>8, <3>2 DEF InventoryOK, OutOnRental
      <4> QED  BY <2>2, <4>1
    <3> QED  BY <3>1, <3>2
  <2>9. \A q \in RentalIds : rentals'[q].state = "active" => status'[rentals'[q].battery] = "RENTED"
    <3>1. \A q \in RentalIds : rentals[q].state = "active" =>
            rentals[q].battery \in Batteries /\ status[rentals[q].battery] = "RENTED"
      BY DEF InventoryOK, OutOnRental, RentalsOK, Out
    <3>2. \A x \in Batteries : status[x] = "RENTED" => status'[x] = "RENTED"
      BY <2>6
    <3>3. rentals'[r].battery = b
      BY <2>2 DEF b
    <3> SUFFICES ASSUME NEW q \in RentalIds, rentals'[q].state = "active"
                 PROVE  status'[rentals'[q].battery] = "RENTED"
      OBVIOUS
    <3>4. CASE q = r
      BY <2>6, <3>3, <3>4
    <3>5. CASE q # r
      <4>1. rentals[q].state = "active" /\ rentals'[q].battery = rentals[q].battery
        BY <2>2, <3>5
      <4> QED  BY <3>1, <3>2, <4>1
    <3> QED  BY <3>4, <3>5
  <2>10. OneSlotEach'
    <3>1. \A t \in Stations : \A p \in DOMAIN slots'[t] :
            p \in DOMAIN slots[t] /\ (slots'[t][p] # None => slots'[t][p] = slots[t][p])
      BY <2>3
    <3> QED  BY <3>1 DEF InventoryOK, OneSlotEach
  <2>11. online' \in [Stations -> BOOLEAN]
    BY <2>1 DEF InventoryOK
  <2>12. OutOnRental'
    BY <2>8, <2>9 DEF OutOnRental
  <2>13. \A t \in Stations : slots'[t] \in [DOMAIN slots'[t] -> Batteries \cup {None}]
    BY <2>3
  <2> QED  BY <2>3, <2>6, <2>7, <2>10, <2>11, <2>12, <2>13 DEF InventoryOK
<1> QED  BY <1>1, <1>2

\* A detected return places the battery, which was in no slot, in a free one.
LEMMA ClosedInventory ==
  ASSUME InventoryOK, RentalsOK, CabinetsAssumption, NEW p \in Requests, NEW r \in RentalIds, CloseRental(p, r)
  PROVE  InventoryOK'
<1> DEFINE s == requests[p].station
           b == rentals[r].battery
<1>1. CASE rentals[r].state # "active" \/ Free = {}
  BY <1>1, InventoryFrame DEF CloseRental, InventoryOK, SameActive
<1>2. CASE ~(rentals[r].state # "active" \/ Free = {})
  <2>1. /\ status' = [status EXCEPT ![b] = "AVAILABLE"]
        /\ rentals' = [rentals EXCEPT ![r].state = "done"]
        /\ UNCHANGED online
        /\ \E f \in IF FreeAt(s) # {} THEN FreeAt(s) ELSE Free : slots' = [slots EXCEPT ![f[1]][f[2]] = b]
    BY <1>2 DEF CloseRental
  <2>2. PICK f \in Free : slots' = [slots EXCEPT ![f[1]][f[2]] = b]
    BY <2>1 DEF FreeAt
  <2> DEFINE g == f[1]  n == f[2]
  <2>3. g \in Stations /\ n \in DOMAIN slots[g] /\ slots[g][n] = None
    BY DEF Free
  <2>4. rentals[r].state = "active" /\ b \in Batteries /\ b # None /\ status[b] = "RENTED"
    BY <1>2 DEF RentalsOK, Out, CabinetsAssumption, InventoryOK, OutOnRental
  <2>5. \A q \in RentalIds : /\ rentals'[q].state = IF q = r THEN "done" ELSE rentals[q].state
                             /\ rentals'[q].battery = rentals[q].battery
    BY <2>1, StateSet DEF OnlyState, RentalsOK
  <2> HIDE DEF b
  <2>6. slots' = [slots EXCEPT ![g] = [slots[g] EXCEPT ![n] = b]]
    BY <2>2
  <2> HIDE DEF g, n
  <2>7. /\ slots' = [t \in Stations |-> slots'[t]]
        /\ \A t \in Stations : DOMAIN slots'[t] = DOMAIN slots[t]
        /\ \A t \in Stations : slots'[t] \in [DOMAIN slots[t] -> Batteries \cup {None}]
        /\ \A t \in Stations : \A m \in DOMAIN slots[t] :
             slots'[t][m] = IF t = g /\ m = n THEN b ELSE slots[t][m]
    BY <2>3, <2>4, <2>6 DEF InventoryOK
  <2>8. \A t \in Stations : \A m \in DOMAIN slots[t] : slots[t][m] # b
    BY <2>4 DEF InventoryOK, InSlot, Held
  <2>9. \A x \in Batteries : InSlot(x)' <=> InSlot(x) \/ x = b
    <3>1. \A x \in Batteries : InSlot(x) <=> \E t \in Stations : \E m \in DOMAIN slots[t] : slots[t][m] = x
      BY DEF InSlot, Held, CabinetsAssumption
    <3>2. \A x \in Batteries : InSlot(x)' <=> \E t \in Stations : \E m \in DOMAIN slots[t] : slots'[t][m] = x
      BY <2>7 DEF InSlot, Held, CabinetsAssumption
    <3>3. ASSUME NEW x \in Batteries, InSlot(x)
          PROVE  InSlot(x)'
      BY <2>3, <2>7, <3>1, <3>2, <3>3 DEF CabinetsAssumption
    <3> QED  BY <2>3, <2>7, <3>1, <3>2, <3>3
  <2>10. /\ status' \in [Batteries -> {"AVAILABLE", "RENTED", "MISSING"}]
         /\ status'[b] = "AVAILABLE" /\ \A x \in Batteries \ {b} : status'[x] = status[x]
    BY <2>1, <2>4 DEF InventoryOK, b
  <2>11. \A x \in Batteries : InSlot(x)' <=> status'[x] = "AVAILABLE"
    BY <2>9, <2>10 DEF InventoryOK
  <2>12. ASSUME NEW x \in Batteries, status'[x] = "RENTED"
         PROVE  \E q \in RentalIds : rentals'[q].battery = x /\ rentals'[q].state = "active"
    <3>1. PICK q \in RentalIds : rentals[q].battery = x /\ rentals[q].state = "active"
      BY <2>10, <2>12 DEF InventoryOK, OutOnRental
    <3> QED  BY <2>5, <2>10, <2>12, <3>1 DEF b
  <2>13. \A q \in RentalIds : rentals'[q].state = "active" => status'[rentals'[q].battery] = "RENTED"
    <3>1. \A q \in RentalIds : rentals[q].state = "active" =>
            /\ rentals[q].battery \in Batteries /\ status[rentals[q].battery] = "RENTED"
            /\ rentals[q].battery = b => q = r
      BY <2>4 DEF InventoryOK, OutOnRental, RentalsOK, Out, b
    <3> QED  BY <2>5, <2>10, <3>1
  <2>14. OneSlotEach'
    BY <2>7, <2>8 DEF InventoryOK, OneSlotEach
  <2>15. online' \in [Stations -> BOOLEAN]
    BY <2>1 DEF InventoryOK
  <2> QED  BY <2>7, <2>10, <2>11, <2>12, <2>13, <2>14, <2>15 DEF InventoryOK, OutOnRental
<1> QED  BY <1>1, <1>2

\* The mirror writes what a reading shows, takes it from wherever else it was, and calls the rest
\* of the station's batteries missing.
LEMMA MirroredInventory ==
  ASSUME InventoryOK, StoredOK, RentalsOK, CabinetsAssumption, NEW s \in Stations, Mirrored(s), UNCHANGED <<online, rentals>>
  PROVE  InventoryOK'
<1>1. PICK c \in Cabinets :
        /\ CanMirror(s, c)
        /\ slots' = MirroredSlots(s, stored[c].contents)
        /\ status' = [b \in Batteries |->
             IF b \in Held(stored[c].contents) THEN "AVAILABLE" ELSE IF b \in Held(slots[s]) THEN "MISSING" ELSE status[b]]
  BY DEF Mirrored
<1> DEFINE f == stored[c].contents
<1>2. /\ f \in [DOMAIN f -> Batteries \cup {None}] /\ Distinct(f)
      /\ \A b \in Held(f) : status[b] # "RENTED"
  BY <1>1 DEF CanMirror, StoredOK, Contents
<1>3. /\ slots' = MirroredSlots(s, f)
      /\ status' = [b \in Batteries |->
           IF b \in Held(f) THEN "AVAILABLE" ELSE IF b \in Held(slots[s]) THEN "MISSING" ELSE status[b]]
  BY <1>1
<1> HIDE DEF f
<1>4. /\ slots' = [t \in Stations |-> slots'[t]]
      /\ DOMAIN slots'[s] = DOMAIN slots[s] \cup DOMAIN f
      /\ \A p \in DOMAIN slots'[s] : slots'[s][p] = IF p \in DOMAIN f THEN f[p] ELSE None
  BY <1>3 DEF MirroredSlots
<1>5. \A t \in Stations \ {s} :
        /\ DOMAIN slots'[t] = DOMAIN slots[t]
        /\ \A p \in DOMAIN slots'[t] : slots'[t][p] = IF slots[t][p] \in Held(f) THEN None ELSE slots[t][p]
  BY <1>3 DEF MirroredSlots
<1>6. \A x : x \in Held(f) <=> x # None /\ \E p \in DOMAIN f : f[p] = x
  BY DEF Held
<1>7. \A t \in Stations : slots'[t] \in [DOMAIN slots'[t] -> Batteries \cup {None}]
  <2>1. slots'[s] \in [DOMAIN slots'[s] -> Batteries \cup {None}]
    <3>1. slots'[s] = [p \in DOMAIN slots'[s] |-> slots'[s][p]]
      BY <1>3 DEF MirroredSlots
    <3> QED  BY <1>2, <1>4, <3>1
  <2>2. ASSUME NEW t \in Stations \ {s}
        PROVE  slots'[t] \in [DOMAIN slots'[t] -> Batteries \cup {None}]
    <3>1. slots'[t] = [p \in DOMAIN slots'[t] |-> slots'[t][p]]
      BY <1>3 DEF MirroredSlots
    <3> QED  BY <1>5, <3>1 DEF InventoryOK
  <2> QED  BY <2>1, <2>2
<1>8. status' \in [Batteries -> {"AVAILABLE", "RENTED", "MISSING"}]
  BY <1>3 DEF InventoryOK
<1>9. OneSlotEach'
  <2>1. ASSUME NEW t \in Stations, NEW u \in Stations, NEW p \in DOMAIN slots'[t], NEW q \in DOMAIN slots'[u],
               slots'[t][p] = slots'[u][q], slots'[t][p] # None
        PROVE  t = u /\ p = q
    <3>1. CASE t = s /\ u = s
      BY <1>2, <1>4, <2>1, <3>1 DEF Distinct
    <3>2. CASE t = s /\ u # s
      BY <1>4, <1>5, <1>6, <2>1, <3>2
    <3>3. CASE t # s /\ u = s
      BY <1>4, <1>5, <1>6, <2>1, <3>3
    <3>4. CASE t # s /\ u # s
      BY <1>5, <2>1, <3>4 DEF InventoryOK, OneSlotEach
    <3> QED  BY <3>1, <3>2, <3>3, <3>4
  <2> QED  BY <2>1 DEF OneSlotEach
<1>10. \A x \in Batteries : InSlot(x)' <=> x \in Held(f) \/ (InSlot(x) /\ x \notin Held(slots[s]))
  <2> SUFFICES ASSUME NEW x \in Batteries
               PROVE  InSlot(x)' <=> x \in Held(f) \/ (InSlot(x) /\ x \notin Held(slots[s]))
    OBVIOUS
  <2>1. x # None /\ (InSlot(x)' <=> \E t \in Stations : \E p \in DOMAIN slots'[t] : slots'[t][p] = x)
    BY DEF InSlot, Held, CabinetsAssumption
  <2>2. (\E p \in DOMAIN slots'[s] : slots'[s][p] = x) <=> x \in Held(f)
    BY <1>4, <1>6, <2>1
  <2>3. ASSUME NEW t \in Stations \ {s}
        PROVE  (\E p \in DOMAIN slots'[t] : slots'[t][p] = x) <=> x \notin Held(f) /\ x \in Held(slots[t])
    <3>1. x \in Held(slots[t]) <=> \E p \in DOMAIN slots[t] : slots[t][p] = x
      BY <2>1 DEF Held
    <3>2. DOMAIN slots'[t] = DOMAIN slots[t]
      BY <1>5
    <3>3. \A p \in DOMAIN slots[t] : slots'[t][p] = x <=> slots[t][p] = x /\ x \notin Held(f)
      BY <1>5, <2>1
    <3> QED  BY <3>1, <3>2, <3>3
  <2>4. ASSUME NEW t \in Stations \ {s}, x \in Held(slots[t])
        PROVE  x \notin Held(slots[s])
    BY <2>4 DEF Held, InventoryOK, OneSlotEach
  <2> QED  BY <2>1, <2>2, <2>3, <2>4 DEF InSlot
<1>11. \A x \in Batteries : InSlot(x)' <=> status'[x] = "AVAILABLE"
  BY <1>3, <1>10 DEF InventoryOK
<1>12. \A x \in Batteries : status'[x] = "RENTED" <=> status[x] = "RENTED"
  <2>1. \A x \in Held(slots[s]) \cap Batteries : status[x] # "RENTED"
    BY DEF InventoryOK, InSlot
  <2> QED  BY <1>2, <1>3, <2>1
<1>13. OutOnRental'
  <2>1. OutOnRental /\ rentals' = rentals
    BY DEF InventoryOK
  <2>2. \A r \in RentalIds : rentals[r].state = "active" =>
          rentals[r].battery \in Batteries /\ status[rentals[r].battery] = "RENTED"
    BY <2>1 DEF OutOnRental, RentalsOK, Out
  <2>3. \A r \in RentalIds : rentals'[r].state = "active" => status'[rentals'[r].battery] = "RENTED"
    BY <1>12, <2>1, <2>2
  <2>4. ASSUME NEW b \in Batteries, status'[b] = "RENTED"
        PROVE  \E r \in RentalIds : rentals'[r].battery = b /\ rentals'[r].state = "active"
    BY <1>12, <2>1, <2>4 DEF OutOnRental
  <2> QED  BY <2>3, <2>4 DEF OutOnRental
<1> QED  BY <1>4, <1>7, <1>8, <1>9, <1>11, <1>13 DEF InventoryOK

\* Only these three touch what the inventory says.
LEMMA InventoryMoves ==
  ASSUME SyncInv, CabinetsAssumption, [Next]_vars
  PROVE  \/ /\ UNCHANGED <<slots, status>> /\ online' \in [Stations -> BOOLEAN]
            /\ SameActive
         \/ \E r \in RentalIds : Ejected(r)
         \/ \E p \in Requests, r \in RentalIds : CloseRental(p, r)
         \/ \E s \in Stations : Mirrored(s) /\ UNCHANGED <<online, rentals>>
<1> USE DEF local, SameActive
<1>0. /\ online \in [Stations -> BOOLEAN] /\ rentals \in [RentalIds -> RentalRow]
      /\ RequestsOK /\ LinksOK /\ RentalsOK
  BY DEF SyncInv, InventoryOK, RentalsOK
<1>1. CASE UNCHANGED vars  BY <1>0, <1>1 DEF vars
<1>2. ASSUME NEW p \in Requests, Run(p)
      PROVE  \/ UNCHANGED <<slots, status, rentals>> /\ online' \in [Stations -> BOOLEAN]
             \/ \E r \in RentalIds : CloseRental(p, r)
             \/ \E s \in Stations : Mirrored(s) /\ UNCHANGED <<online, rentals>>
  <2>1. CASE CloseAny(p)
    BY <1>0, <2>1 DEF CloseAny, RequestsOK, RequestOK, RequestRow
  <2>2. CASE Mirror(p)
    BY <1>0, <2>2 DEF Mirror, AfterClose, RequestsOK, RequestOK, RequestRow
  <2>3. CASE Commit(p)
    <3>1. requests[p].cabinet \in Cabinets /\ requests[p].reading \in Reading
      BY <1>0, <2>3 DEF Commit, RequestsOK, RequestOK, RequestRow
    <3>2. requests[p].reading.online \in BOOLEAN
      BY <3>1 DEF Reading
    <3>3. \/ UNCHANGED online
          \/ \E s \in Stations, on \in BOOLEAN : online' = [online EXCEPT ![s] = on]
      BY <1>0, <2>3, <3>1, <3>2 DEF Commit, LinksOK
    <3> QED  BY <1>0, <2>3, <3>3 DEF Commit
  <2>4. CASE FailAny(p)
    BY <1>0, <2>4 DEF FailAny, ReadFails, RequestsOK, RequestOK, RequestRow
  <2>5. CASE StartAny(p) \/ (\E s \in Stations : Start(p, {s})) \/ Crash(p) \/ ReadAny(p) \/ StandAside(p) \/ Finish(p)
    BY <1>0, <2>5 DEF StartAny, Start, Crash, ReadAny, Read, StandAside, Finish
  <2> QED  BY <1>2, <2>1, <2>2, <2>3, <2>4, <2>5 DEF Run
<1>3. CASE People
  <2>1. ASSUME NEW r \in RentalIds, \/ GiveUp(r) \/ Settles(r) \/ \E s \in Stations : StartRental(r, s)
                                   \/ \E c \in Cabinets, b \in Batteries : Pop(r, c, b)
        PROVE  /\ UNCHANGED <<slots, status, online>>
               /\ SameActive
    <3>0. UNCHANGED <<slots, status, online>>
      BY <2>1 DEF GiveUp, Settles, StartRental, Pop, Elsewhere
    <3>1. CASE GiveUp(r)
      BY <1>0, <3>0, <3>1, StateSet DEF GiveUp, OnlyState
    <3>2. CASE Settles(r)
      BY <1>0, <3>0, <3>2 DEF Settles, RentalRow
    <3>3. ASSUME NEW s \in Stations, StartRental(r, s)
          PROVE  SameActive
      BY <1>0, <3>3 DEF StartRental, RentalRow
    <3>4. ASSUME NEW c \in Cabinets, NEW b \in Batteries, Pop(r, c, b)
          PROVE  SameActive
      BY <1>0, <3>4 DEF Pop, RentalRow
    <3> QED  BY <2>1, <3>0, <3>1, <3>2, <3>3, <3>4
  <2>2. ASSUME NEW s \in Stations, Adopt(s)
        PROVE  Mirrored(s) /\ UNCHANGED <<online, rentals>>
    BY <2>2 DEF Adopt
  <2>3. ASSUME NEW c \in Cabinets,
               \/ ReadingAges(c) \/ \E on \in BOOLEAN : PowerSwitched(c, on)
               \/ \E p \in SlotsOf[c] : TakeOut(c, p) \/ \E b \in Batteries : BringIn(c, p, b)
               \/ \E p \in SlotsOf[c], r \in RentalIds : Return(r, c, p)
               \/ \E s \in Stations : LinkStation(s, c) \/ MoveLink(c, s)
        PROVE  UNCHANGED <<slots, status, online, rentals>>
    BY <2>3 DEF ReadingAges, PowerSwitched, TakeOut, BringIn, Return, LinkStation, MoveLink, Elsewhere
  <2> QED  BY <1>0, <1>3, <2>1, <2>2, <2>3 DEF People
<1> QED  BY <1>1, <1>2, <1>3 DEF Next

LEMMA InventoryKept ==
  ASSUME SyncInv, CabinetsAssumption, [Next]_vars
  PROVE  InventoryOK'
<1>1. InventoryOK /\ StoredOK /\ RentalsOK
  BY DEF SyncInv
<1>2. CASE /\ UNCHANGED <<slots, status>> /\ online' \in [Stations -> BOOLEAN]
           /\ SameActive
  BY <1>1, <1>2, InventoryFrame
<1>3. CASE \E r \in RentalIds : Ejected(r)
  BY <1>1, <1>3, EjectedInventory
<1>4. CASE \E p \in Requests, r \in RentalIds : CloseRental(p, r)
  BY <1>1, <1>4, ClosedInventory
<1>5. CASE \E s \in Stations : Mirrored(s) /\ UNCHANGED <<online, rentals>>
  BY <1>1, <1>5, MirroredInventory
<1> QED  BY <1>2, <1>3, <1>4, <1>5, InventoryMoves

-----------------------------------------------------------------------------
(* Rentals and where their batteries are. *)

\* After a position was written, a cabinet shows what it showed before, and what was put in.
LEMMA PutShows ==
  ASSUME CabinetsOK, CabinetsAssumption, NEW c \in Cabinets, NEW p \in SlotsOf[c], NEW b \in Batteries \cup {None},
         b # None => ~InCabinet(b), Put(c, p, b), NEW x \in Batteries, InCabinet(x)'
  PROVE  (InCabinet(x) /\ x # cabinets[c].contents[p]) \/ x = b
<1>1. CabinetsOK' /\ Written(c, p, b)
  BY Putting
<1> USE DEF Written
<1>2. \A k \in Cabinets : DOMAIN cabinets[k].contents = SlotsOf[k] /\ DOMAIN cabinets'[k].contents = SlotsOf[k]
  <2>1. \A k \in Cabinets : cabinets[k].contents \in Contents(k)
    BY DEF CabinetsOK
  <2>2. \A k \in Cabinets : cabinets'[k].contents \in Contents(k)
    BY <1>1 DEF CabinetsOK
  <2> QED  BY <2>1, <2>2 DEF Contents
<1>a. PICK k \in Cabinets : x \in Held(cabinets'[k].contents)
  BY DEF InCabinet
<1>3. PICK n \in SlotsOf[k] : cabinets'[k].contents[n] = x
  BY <1>2, <1>a DEF Held
<1>4. x # None
  BY DEF CabinetsAssumption
<1>5. CASE k = c /\ n = p
  BY <1>1, <1>2, <1>3, <1>5
<1>6. CASE ~(k = c /\ n = p)
  <2>1. cabinets[k].contents[n] = x
    BY <1>1, <1>2, <1>3, <1>6
  <2>2. x # cabinets[c].contents[p]
    BY <1>4, <1>6, <2>1 DEF CabinetsOK
  <2>3. InCabinet(x)
    BY <1>2, <1>4, <2>1 DEF InCabinet, Held
  <2> QED  BY <2>2, <2>3
<1> QED  BY <1>5, <1>6

\* A step after which no further rental is out, and no battery that is out shows in a cabinet
\* unless it was brought back.
LEMMA NoneLeaves ==
  ASSUME RentalsOK, rentals' \in [RentalIds -> RentalRow],
         \A r \in RentalIds : rentals'[r].state # "none" => rentals'[r].station \in Stations,
         given \subseteq given', given' \subseteq RentalIds,
         \A r \in given' : rentals'[r].state \in {"active", "done"},
         \A r \in RentalIds : rentals'[r].settled => rentals'[r].state \in {"active", "done"},
         \A r \in RentalIds : Out(r)' => Out(r) /\ rentals'[r].battery = rentals[r].battery,
         \A r \in RentalIds, b \in Batteries :
           Out(r)' /\ r \notin given' /\ rentals[r].battery = b /\ InCabinet(b)' => InCabinet(b)
  PROVE  RentalsOK'
<1>1. \A r \in RentalIds : Out(r)' => rentals'[r].battery \in Batteries
  BY DEF RentalsOK
<1>2. \A r, q \in RentalIds : Out(r)' /\ Out(q)' /\ rentals'[r].battery = rentals'[q].battery => r = q
  BY DEF RentalsOK
<1>3. ASSUME NEW r \in RentalIds, Out(r)', r \notin given'
      PROVE  ~InCabinet(rentals[r].battery)'
  <2>1. Out(r) /\ r \notin given /\ rentals'[r].battery = rentals[r].battery
    BY <1>3
  <2>2. PICK b \in Batteries : b = rentals[r].battery
    BY <2>1 DEF RentalsOK
  <2>3. ~InCabinet(b)
    BY <2>1, <2>2 DEF RentalsOK
  <2>4. ~InCabinet(b)'
    BY <1>3, <2>2, <2>3
  <2> QED  BY <2>1, <2>2, <2>4 DEF InCabinet
<1> QED  BY <1>1, <1>2, <1>3 DEF RentalsOK

\* The steps of a rental, and of the synchronisation that closes it.
LEMMA RentalMoves ==
  ASSUME SyncInv, CabinetsAssumption, [Next]_vars
  PROVE  \/ UNCHANGED <<rentals, given>>
         \/ \E r \in RentalIds : Ejected(r) \/ Settles(r) \/ GiveUp(r)
         \/ \E r \in RentalIds, s \in Stations : StartRental(r, s)
         \/ \E r \in RentalIds, c \in Cabinets, b \in Batteries : Pop(r, c, b)
         \/ \E r \in RentalIds, c \in Cabinets : \E p \in SlotsOf[c] : Return(r, c, p)
         \/ \E p \in Requests, r \in RentalIds : CloseRental(p, r)
<1>1. CASE UNCHANGED vars  BY <1>1 DEF vars
<1>2. ASSUME NEW p \in Requests, Run(p)
      PROVE  UNCHANGED <<rentals, given>> \/ \E r \in RentalIds : CloseRental(p, r)
  <2>1. CASE CloseAny(p)
    BY <2>1 DEF CloseAny, SyncInv, RequestsOK, RequestOK, RequestRow
  <2>2. CASE ~CloseAny(p)
    BY <1>2, <2>2 DEF Run, StartAny, Start, Crash, ReadAny, Read, FailAny, ReadFails, Commit, Mirror, StandAside,
                      Finish, Outside
  <2> QED  BY <2>1, <2>2
<1>3. CASE People
  BY <1>3 DEF People, PowerSwitched, ReadingAges, TakeOut, BringIn, LinkStation, MoveLink, Adopt, Outside
<1> QED  BY <1>1, <1>2, <1>3 DEF Next

\* A battery that is out shows in a cabinet only when its customer has put it there.
LEMMA ShownOnlyWhenBack ==
  ASSUME SyncInv, CabinetsAssumption, [Next]_vars, NEW r \in RentalIds, NEW x \in Batteries,
         Out(r), r \notin given', rentals[r].battery = x, InCabinet(x)'
  PROVE  InCabinet(x)
<1>0. CabinetsOK /\ RentalsOK
  BY DEF SyncInv
<1>1. CASE UNCHANGED cabinets
  BY <1>1 DEF InCabinet
<1>2. CASE \E p \in Requests : Run(p)
  <2>1. UNCHANGED cabinets
    BY <1>2 DEF Run, StartAny, Start, Crash, ReadAny, Read, FailAny, ReadFails, Commit, CloseAny, CloseRental,
                Mirror, StandAside, Finish, Outside
  <2> QED  BY <1>1, <2>1
<1>3. CASE People
  <2>1. ASSUME NEW c \in Cabinets, NEW p \in SlotsOf[c], Put(c, p, None)
        PROVE  InCabinet(x)
    BY <1>0, <2>1, PutShows DEF CabinetsAssumption
  <2>2. ASSUME NEW c \in Cabinets, NEW p \in SlotsOf[c], NEW b \in Batteries, BringIn(c, p, b)
        PROVE  InCabinet(x)
    <3>1. x # b
      BY <2>2 DEF BringIn, Out
    <3>2. ~InCabinet(b) /\ Put(c, p, b)
      BY <2>2 DEF BringIn
    <3> QED  BY <1>0, <3>1, <3>2, PutShows
  <2>3. ASSUME NEW c \in Cabinets, NEW p \in SlotsOf[c], NEW q \in RentalIds, Return(q, c, p)
        PROVE  InCabinet(x)
    <3>1. /\ Out(q) /\ q \in given' /\ rentals[q].battery \in Batteries
          /\ ~InCabinet(rentals[q].battery) /\ Put(c, p, rentals[q].battery)
      BY <1>0, <2>3 DEF Return, Out, RentalsOK
    <3>2. x # rentals[q].battery
      BY <1>0, <3>1 DEF RentalsOK
    <3> QED  BY <1>0, <3>1, <3>2, PutShows
  <2>4. ASSUME NEW q \in RentalIds, NEW c \in Cabinets, NEW b \in Batteries, Pop(q, c, b)
        PROVE  InCabinet(x)
    BY <2>1, <2>4 DEF Pop
  <2>5. ASSUME NEW c \in Cabinets, NEW p \in SlotsOf[c], TakeOut(c, p)
        PROVE  InCabinet(x)
    BY <2>1, <2>5 DEF TakeOut
  <2>6. ASSUME NEW c \in Cabinets, NEW on \in BOOLEAN, PowerSwitched(c, on)
        PROVE  InCabinet(x)
    <3>1. \A k \in Cabinets : cabinets'[k].contents = cabinets[k].contents
      BY <1>0, <2>6 DEF PowerSwitched, CabinetsOK, Reading
    <3> QED  BY <3>1 DEF InCabinet
  <2>7. ASSUME NEW c \in Cabinets, \/ ReadingAges(c) \/ \E s \in Stations : LinkStation(s, c) \/ MoveLink(c, s)
        PROVE  InCabinet(x)
    BY <1>1, <2>7 DEF ReadingAges, Outside, LinkStation, MoveLink
  <2>8. ASSUME NEW q \in RentalIds, \/ GiveUp(q) \/ Ejected(q) \/ Settles(q) \/ \E s \in Stations : StartRental(q, s)
        PROVE  InCabinet(x)
    BY <1>1, <2>8 DEF GiveUp, Ejected, Settles, StartRental
  <2>9. ASSUME NEW s \in Stations, Adopt(s)
        PROVE  InCabinet(x)
    BY <1>1, <2>9 DEF Adopt, Outside
  <2> QED  BY <1>3, <2>2, <2>3, <2>4, <2>5, <2>6, <2>7, <2>8, <2>9 DEF People
<1> QED  BY <1>1, <1>2, <1>3 DEF Next, vars

\* A step that lets no further battery out.
LEMMA NoneLeavesKept ==
  ASSUME SyncInv, CabinetsAssumption, [Next]_vars, rentals' \in [RentalIds -> RentalRow],
         \A r \in RentalIds : rentals'[r].state # "none" => rentals'[r].station \in Stations,
         given \subseteq given', given' \subseteq RentalIds,
         \A r \in given' : rentals'[r].state \in {"active", "done"},
         \A r \in RentalIds : rentals'[r].settled => rentals'[r].state \in {"active", "done"},
         \A r \in RentalIds : Out(r)' => Out(r) /\ rentals'[r].battery = rentals[r].battery
  PROVE  RentalsOK'
<1>1. RentalsOK
  BY DEF SyncInv
<1>2. \A r \in RentalIds, b \in Batteries :
        Out(r)' /\ r \notin given' /\ rentals[r].battery = b /\ InCabinet(b)' => InCabinet(b)
  BY ShownOnlyWhenBack
<1> QED  BY <1>1, <1>2, NoneLeaves

LEMMA RentalsKept ==
  ASSUME SyncInv, CabinetsAssumption, [Next]_vars
  PROVE  RentalsOK'
<1>0. RentalsOK /\ CabinetsOK /\ InventoryOK /\ rentals \in [RentalIds -> RentalRow]
  BY DEF SyncInv, RentalsOK
<1>1. CASE UNCHANGED <<rentals, given>>
  <2>1. \A r \in RentalIds : Out(r)' => Out(r) /\ rentals'[r].battery = rentals[r].battery
    BY <1>1 DEF Out
  <2> QED  BY <1>0, <1>1, <2>1, NoneLeavesKept DEF RentalsOK
<1>2. ASSUME NEW r \in RentalIds, NEW x \in {"active", "done"}, rentals' = [rentals EXCEPT ![r].state = x],
             x = "active" => Out(r), rentals[r].state \in {"starting", "ejecting", "active"}, given' = given
      PROVE  RentalsOK'
  <2>1. OnlyState(r, x)
    <3>1. rentals \in [RentalIds -> RentalRow] /\ rentals' = [rentals EXCEPT ![r].state = x]
      BY <1>0, <1>2
    <3>2. x \in {"none", "starting", "ejecting", "active", "done"}
      OBVIOUS
    <3> QED  BY <3>1, <3>2, StateSet
  <2> USE DEF OnlyState
  <2>2. \A q \in RentalIds : Out(q)' => Out(q) /\ rentals'[q].battery = rentals[q].battery
    BY <1>2, <2>1 DEF Out
  <2>3. \A q \in RentalIds : rentals'[q].state # "none" => rentals'[q].station \in Stations
    BY <1>0, <1>2, <2>1 DEF RentalsOK
  <2>4. \A q \in RentalIds : rentals'[q].settled => rentals'[q].state \in {"active", "done"}
    BY <1>0, <1>2, <2>1 DEF RentalsOK
  <2>5. given \subseteq given' /\ given' \subseteq RentalIds /\ \A q \in given' : rentals'[q].state \in {"active", "done"}
    BY <1>0, <1>2, <2>1 DEF RentalsOK
  <2> QED  BY <2>1, <2>2, <2>3, <2>4, <2>5, NoneLeavesKept
<1>3. ASSUME NEW r \in RentalIds, Settles(r)
      PROVE  RentalsOK'
  <2>1. /\ rentals' \in [RentalIds -> RentalRow] /\ given' = given /\ rentals[r].state = "active"
        /\ \A q \in RentalIds : /\ rentals'[q].state = rentals[q].state
                                /\ rentals'[q].battery = rentals[q].battery
                                /\ rentals'[q].station = rentals[q].station
                                /\ rentals'[q].settled => q = r \/ rentals[q].settled
    <3>1. /\ rentals' = [rentals EXCEPT ![r] = [rentals[r] EXCEPT !.settled = TRUE]]
          /\ given' = given /\ rentals[r].state = "active"
      BY <1>3 DEF Settles
    <3>2. rentals[r] \in RentalRow
      BY <1>0
    <3>3. rentals \in [RentalIds -> RentalRow]
      BY <1>0
    <3> QED  BY <3>1, <3>2, <3>3 DEF RentalRow
  <2>2. \A q \in RentalIds : Out(q)' => Out(q) /\ rentals'[q].battery = rentals[q].battery
    BY <2>1 DEF Out
  <2>3. \A q \in RentalIds : rentals'[q].state # "none" => rentals'[q].station \in Stations
    BY <1>0, <2>1 DEF RentalsOK
  <2>4. \A q \in RentalIds : rentals'[q].settled => rentals'[q].state \in {"active", "done"}
    BY <1>0, <2>1 DEF RentalsOK
  <2>5. given \subseteq given' /\ given' \subseteq RentalIds /\ \A q \in given' : rentals'[q].state \in {"active", "done"}
    BY <1>0, <2>1 DEF RentalsOK
  <2> QED  BY <2>1, <2>2, <2>3, <2>4, <2>5, NoneLeavesKept
<1>4. ASSUME NEW r \in RentalIds, NEW s \in Stations, StartRental(r, s)
      PROVE  RentalsOK'
  <2>1. /\ rentals' \in [RentalIds -> RentalRow] /\ given' = given /\ rentals[r].state = "none"
        /\ rentals'[r].state = "starting" /\ rentals'[r].station = s /\ rentals'[r].settled = rentals[r].settled
        /\ \A q \in RentalIds \ {r} : rentals'[q] = rentals[q]
    <3>1. /\ rentals' = [rentals EXCEPT ![r] = [rentals[r] EXCEPT !.state = "starting", !.station = s]]
          /\ given' = given /\ rentals[r].state = "none"
      BY <1>4 DEF StartRental
    <3>2. rentals[r] \in RentalRow
      BY <1>0
    <3>3. rentals \in [RentalIds -> RentalRow]
      BY <1>0
    <3>4. /\ rentals'[r] = [rentals[r] EXCEPT !.state = "starting", !.station = s]
          /\ \A q \in RentalIds \ {r} : rentals'[q] = rentals[q]
          /\ rentals' = [q \in RentalIds |-> rentals'[q]]
      BY <3>1, <3>3
    <3>5. /\ rentals'[r] \in RentalRow /\ rentals'[r].state = "starting" /\ rentals'[r].station = s
          /\ rentals'[r].settled = rentals[r].settled
      BY <3>2, <3>4 DEF RentalRow
    <3> QED  BY <3>1, <3>3, <3>4, <3>5
  <2>2. \A q \in RentalIds : Out(q)' => Out(q) /\ rentals'[q].battery = rentals[q].battery
    BY <2>1 DEF Out
  <2>3. \A q \in RentalIds : rentals'[q].state # "none" => rentals'[q].station \in Stations
    BY <1>0, <2>1 DEF RentalsOK
  <2>4. \A q \in RentalIds : rentals'[q].settled => rentals'[q].state \in {"active", "done"}
    BY <1>0, <2>1 DEF RentalsOK
  <2>5. given \subseteq given' /\ given' \subseteq RentalIds /\ \A q \in given' : rentals'[q].state \in {"active", "done"}
    BY <1>0, <2>1 DEF RentalsOK
  <2> QED  BY <2>1, <2>2, <2>3, <2>4, <2>5, NoneLeavesKept
<1>5. ASSUME NEW r \in RentalIds, NEW c \in Cabinets, NEW p \in SlotsOf[c], Return(r, c, p)
      PROVE  RentalsOK'
  <2>1. rentals' = rentals /\ given' = given \cup {r} /\ rentals[r].state = "active"
    BY <1>5 DEF Return
  <2>2. \A q \in RentalIds : Out(q)' => Out(q) /\ rentals'[q].battery = rentals[q].battery
    BY <2>1 DEF Out
  <2>5. given \subseteq given' /\ given' \subseteq RentalIds /\ \A q \in given' : rentals'[q].state \in {"active", "done"}
    BY <1>0, <2>1 DEF RentalsOK
  <2> QED  BY <1>0, <2>1, <2>2, <2>5, NoneLeavesKept DEF RentalsOK
<1>6. ASSUME NEW r \in RentalIds, NEW c \in Cabinets, NEW b \in Batteries, Pop(r, c, b)
      PROVE  RentalsOK'
  <2>1. PICK p \in SlotsOf[c] : cabinets[c].contents[p] = b /\ Put(c, p, None)
    BY <1>6 DEF Pop
  <2>2. /\ rentals[r].state = "starting" /\ status[b] = "AVAILABLE" /\ given' = given
        /\ rentals' = [rentals EXCEPT ![r] = [rentals[r] EXCEPT !.state = "ejecting", !.battery = b]]
    BY <1>6 DEF Pop
  <2>3. /\ rentals' \in [RentalIds -> RentalRow]
        /\ rentals'[r].state = "ejecting" /\ rentals'[r].battery = b /\ rentals'[r].station = rentals[r].station
        /\ rentals'[r].settled = rentals[r].settled
        /\ \A q \in RentalIds \ {r} : rentals'[q] = rentals[q]
    <3>1. rentals[r] \in RentalRow /\ rentals \in [RentalIds -> RentalRow]
      BY <1>0
    <3>2. /\ rentals'[r] = [rentals[r] EXCEPT !.state = "ejecting", !.battery = b]
          /\ \A q \in RentalIds \ {r} : rentals'[q] = rentals[q]
          /\ rentals' = [q \in RentalIds |-> rentals'[q]]
      BY <2>2, <3>1
    <3>3. /\ rentals'[r] \in RentalRow /\ rentals'[r].state = "ejecting" /\ rentals'[r].battery = b
          /\ rentals'[r].station = rentals[r].station /\ rentals'[r].settled = rentals[r].settled
      BY <3>1, <3>2 DEF RentalRow
    <3> QED  BY <3>1, <3>2, <3>3
  <2>4. b # None /\ InCabinet(b)
    BY <1>0, <2>1 DEF InCabinet, Held, CabinetsAssumption, CabinetsOK, Contents
  <2>5. \A q \in RentalIds : Out(q) => rentals[q].battery # b
    <3>1. ASSUME NEW q \in RentalIds, Out(q), rentals[q].battery = b
          PROVE  FALSE
      <4>1. CASE q \in given
        BY <1>0, <2>2, <3>1, <4>1 DEF RentalsOK, Out, InventoryOK, OutOnRental
      <4>2. CASE q \notin given
        BY <1>0, <2>4, <3>1, <4>2 DEF RentalsOK
      <4> QED  BY <4>1, <4>2
    <3> QED  BY <3>1
  <2>6. \A x \in Batteries : InCabinet(x)' => InCabinet(x) /\ x # b
    BY <1>0, <2>1, PutShows DEF CabinetsAssumption
  <2>7. \A q \in RentalIds : Out(q)' => q = r \/ (q # r /\ Out(q) /\ rentals'[q].battery = rentals[q].battery)
    BY <2>3 DEF Out
  <2>8. \A q \in RentalIds : Out(q)' => rentals'[q].battery \in Batteries
    BY <1>0, <2>3, <2>7 DEF RentalsOK
  <2>9. \A q, u \in RentalIds : Out(q)' /\ Out(u)' /\ rentals'[q].battery = rentals'[u].battery => q = u
    BY <1>0, <2>3, <2>5, <2>7 DEF RentalsOK
  <2>10. ASSUME NEW q \in RentalIds, Out(q)', q \notin given'
         PROVE  ~InCabinet(rentals[q].battery)'
    <3>1. PICK x \in Batteries : x = rentals'[q].battery
      BY <2>8, <2>10
    <3>2. ~InCabinet(x)'
      BY <1>0, <2>2, <2>3, <2>6, <2>7, <2>10, <3>1 DEF RentalsOK
    <3> QED  BY <3>1, <3>2 DEF InCabinet
  <2>11. /\ \A q \in RentalIds : rentals'[q].state # "none" => rentals'[q].station \in Stations
         /\ \A q \in RentalIds : rentals'[q].settled => rentals'[q].state \in {"active", "done"}
         /\ given' \subseteq RentalIds /\ \A q \in given' : rentals'[q].state \in {"active", "done"}
    BY <1>0, <2>2, <2>3 DEF RentalsOK
  <2> QED  BY <2>3, <2>8, <2>9, <2>10, <2>11 DEF RentalsOK
<1>7. ASSUME NEW r \in RentalIds, GiveUp(r) \/ Ejected(r)
      PROVE  RentalsOK'
  BY <1>2, <1>7 DEF GiveUp, Ejected, Out
<1>8. ASSUME NEW p \in Requests, NEW r \in RentalIds, CloseRental(p, r)
      PROVE  RentalsOK'
  BY <1>1, <1>2, <1>8 DEF CloseRental, Outside
<1> QED  BY <1>1, <1>3, <1>4, <1>5, <1>6, <1>7, <1>8, RentalMoves

-----------------------------------------------------------------------------
(* Requests. *)

\* What request p becomes is well formed, and its returns are real as things stand.
Becomes(p, row) == requests' = [requests EXCEPT ![p] = row] /\ RequestOK(row) /\ (Prompt => Real(row))

LEMMA NextLinkBecomes ==
  ASSUME SyncInv, CabinetsAssumption, NEW p \in Requests, NextLink(p)
  PROVE  \E row : Becomes(p, row)
<1> DEFINE row == [Waiting EXCEPT !.step = "next", !.todo = requests[p].todo]
<1>1. Waiting \in RequestRow /\ Waiting.found = {}
  BY DEF Waiting, RequestRow
<1>2. requests[p].todo \subseteq Cabinets \X Stations
  BY DEF SyncInv, RequestsOK, RequestOK, RequestRow
<1>3. requests' = [requests EXCEPT ![p] = row]
  BY DEF NextLink
<1>4. row \in RequestRow /\ row.step = "next" /\ row.found = {}
  BY <1>1, <1>2 DEF RequestRow
<1> HIDE DEF row
<1> QED  BY <1>3, <1>4 DEF Becomes, RequestOK, Real

\* One lemma per step of a request.
LEMMA StartBecomes ==
  ASSUME SyncInv, CabinetsAssumption, NEW p \in Requests, NEW scope \in SUBSET Stations, Start(p, scope)
  PROVE  \E row : Becomes(p, row)
<1> DEFINE jobs == {<<c, links[c].station>> : c \in {k \in Cabinets : links[k].active /\ links[k].station \in scope}}
           row == [Waiting EXCEPT !.step = "next", !.todo = jobs]
<1>1. requests' = [requests EXCEPT ![p] = row]
  BY DEF Start
<1>2. jobs \subseteq Cabinets \X Stations
  OBVIOUS
<1> HIDE DEF jobs
<1>3. Waiting \in RequestRow /\ Waiting.found = {}
  BY DEF Waiting, RequestRow
<1>4. row \in RequestRow /\ row.step = "next" /\ row.found = {}
  BY <1>2, <1>3 DEF RequestRow
<1> HIDE DEF row
<1> QED  BY <1>1, <1>4 DEF Becomes, RequestOK, Real

LEMMA WaitingBecomes ==
  ASSUME SyncInv, CabinetsAssumption, NEW p \in Requests, requests' = [requests EXCEPT ![p] = Waiting]
  PROVE  \E row : Becomes(p, row)
<1>1. Waiting \in RequestRow /\ Waiting.step = "idle" /\ Waiting.found = {}
  BY DEF Waiting, RequestRow
<1> QED  BY <1>1 DEF Becomes, RequestOK, Real

LEMMA ReadBecomes ==
  ASSUME SyncInv, CabinetsAssumption, NEW p \in Requests, NEW c, NEW s, Read(p, c, s)
  PROVE  \E row : Becomes(p, row)
<1> DEFINE row == [requests[p] EXCEPT !.step = "commit", !.todo = requests[p].todo \ {<<c, s>>}, !.cabinet = c,
                                      !.station = s, !.reading = cabinets[c]]
<1>1. requests[p] \in RequestRow
  BY DEF SyncInv, RequestsOK, RequestOK
<1>2. c \in Cabinets /\ s \in Stations
  BY <1>1 DEF Read, RequestRow
<1>3. requests' = [requests EXCEPT ![p] = row]
  BY DEF Read
<1>4. /\ cabinets[c] \in Reading /\ cabinets[c].contents \in Contents(c)
      /\ Distinct(cabinets[c].contents)
  BY <1>2 DEF SyncInv, CabinetsOK, Contents, Distinct
<1>5. /\ row \in RequestRow /\ row.step = "commit" /\ row.cabinet = c /\ row.station = s
      /\ row.reading = cabinets[c] /\ row.found = requests[p].found
  BY <1>1, <1>2, <1>4 DEF RequestRow
<1> HIDE DEF row
<1>6. RequestOK(row)
  BY <1>2, <1>4, <1>5 DEF RequestOK
<1>7. ASSUME Prompt, NEW r \in RentalIds, rentals[r].state = "active", rentals[r].battery \in Held(cabinets[c].contents)
      PROVE  r \in given
  BY <1>2, <1>7 DEF SyncInv, RentalsOK, Out, InCabinet
<1>8. ASSUME Prompt
      PROVE  Real(row)
  BY <1>5, <1>7, <1>8 DEF Real, SyncInv, ReturnsReal
<1> QED  BY <1>3, <1>6, <1>8 DEF Becomes

LEMMA ReadFailsBecomes ==
  ASSUME SyncInv, CabinetsAssumption, NEW p \in Requests, NEW c, NEW s, NEW offline, ReadFails(p, c, s, offline)
  PROVE  \E row : Becomes(p, row)
<1> DEFINE row == [requests[p] EXCEPT !.todo = @ \ {<<c, s>>}]
<1>1. requests[p] \in RequestRow /\ requests[p].step = "next" /\ RequestOK(requests[p])
  BY DEF SyncInv, RequestsOK, RequestOK, ReadFails
<1>2. requests' = [requests EXCEPT ![p] = row]
  BY DEF ReadFails
<1>3. row \in RequestRow /\ row.step = "next" /\ row.found = requests[p].found
  BY <1>1 DEF RequestRow
<1> HIDE DEF row
<1> QED  BY <1>1, <1>2, <1>3 DEF Becomes, RequestOK, Real, SyncInv, ReturnsReal

LEMMA CommitBecomes ==
  ASSUME SyncInv, CabinetsAssumption, NEW p \in Requests, Commit(p)
  PROVE  \E row : Becomes(p, row)
<1> DEFINE c == requests[p].cabinet
           back == DetectReturns(links[c].station, requests[p].reading)
           row == [requests[p] EXCEPT !.step = "close", !.reading = None, !.found = back]
<1>1. CASE ~links[c].active
  BY <1>1, NextLinkBecomes DEF Commit
<1>2. CASE links[c].active
  <2>1. requests[p] \in RequestRow /\ requests[p].step = "commit" /\ requests[p].station \in Stations
    BY DEF SyncInv, RequestsOK, RequestOK, Commit
  <2>2. requests' = [requests EXCEPT ![p] = row]
    BY <1>2 DEF Commit
  <2>3. back \subseteq RentalIds
    BY DEF DetectReturns
  <2>4. Prompt => back \subseteq given
    BY <2>1 DEF DetectReturns, SyncInv, ReturnsReal, Real
  <2> HIDE DEF back
  <2>5. row \in RequestRow /\ row.step = "close" /\ row.found = back /\ row.station = requests[p].station
    BY <2>1, <2>3 DEF RequestRow
  <2> HIDE DEF row
  <2> QED  BY <2>1, <2>2, <2>4, <2>5 DEF Becomes, RequestOK, Real
<1> QED  BY <1>1, <1>2

LEMMA CloseBecomes ==
  ASSUME SyncInv, CabinetsAssumption, NEW p \in Requests, NEW r, CloseRental(p, r)
  PROVE  \E row : Becomes(p, row)
<1> DEFINE row == [requests[p] EXCEPT !.found = @ \ {r}]
<1>1. requests[p] \in RequestRow /\ requests[p].step = "close" /\ requests[p].station \in Stations
  BY DEF SyncInv, RequestsOK, RequestOK, CloseRental
<1>2. requests' = [requests EXCEPT ![p] = row]
  BY DEF CloseRental
<1>3. /\ row \in RequestRow /\ row.step = "close" /\ row.found = requests[p].found \ {r}
      /\ row.station = requests[p].station
  BY <1>1 DEF RequestRow
<1> HIDE DEF row
<1> QED  BY <1>1, <1>2, <1>3 DEF Becomes, RequestOK, Real, SyncInv, ReturnsReal

LEMMA RunBecomes ==
  ASSUME SyncInv, CabinetsAssumption, NEW p \in Requests, Run(p)
  PROVE  \E row : Becomes(p, row)
<1>1. CASE StartAny(p)
  BY <1>1, StartBecomes DEF StartAny
<1>2. ASSUME NEW s \in Stations, Start(p, {s})
      PROVE  \E row : Becomes(p, row)
  BY <1>2, StartBecomes
<1>3. CASE Crash(p) \/ Finish(p)
  BY <1>3, WaitingBecomes DEF Crash, Finish
<1>4. CASE ReadAny(p)
  BY <1>4, ReadBecomes DEF ReadAny
<1>5. CASE FailAny(p)
  BY <1>5, ReadFailsBecomes DEF FailAny
<1>6. CASE Commit(p)
  BY <1>6, CommitBecomes
<1>7. CASE CloseAny(p)
  BY <1>7, CloseBecomes DEF CloseAny
<1>8. CASE Mirror(p) \/ StandAside(p)
  BY <1>8, NextLinkBecomes DEF Mirror, StandAside
<1> QED  BY <1>1, <1>2, <1>3, <1>4, <1>5, <1>6, <1>7, <1>8 DEF Run

\* A row that told the truth still does: a rental becomes active with its customer still having the
\* battery, and it settles only when no reading in hand shows it.
LEMMA RealStays ==
  ASSUME SyncInv, CabinetsAssumption, [Next]_vars, Prompt, NEW q, Real(q),
         \A r \in RentalIds : Settles(r) => \E p \in Requests : q = requests[p]
  PROVE  Real(q)'
<1>0. RentalsOK /\ rentals \in [RentalIds -> RentalRow]
  BY DEF SyncInv, RentalsOK
<1>1. ASSUME \A r \in RentalIds : rentals'[r].state = "active" /\ rentals'[r].settled =>
               /\ rentals[r].state = "active" /\ rentals[r].settled /\ rentals'[r].battery = rentals[r].battery,
             given \subseteq given'
      PROVE  Real(q)'
  BY <1>1 DEF Real, Held
<1>2. CASE UNCHANGED <<rentals, given>>
  BY <1>2 DEF Real, Held
<1>3. ASSUME NEW r \in RentalIds, GiveUp(r)
      PROVE  Real(q)'
  <2>1. rentals' = [rentals EXCEPT ![r].state = "done"] /\ given' = given
    BY <1>3 DEF GiveUp
  <2> QED  BY <1>0, <1>1, <2>1, StateSet DEF OnlyState
<1>4. ASSUME NEW r \in RentalIds, Ejected(r)
      PROVE  Real(q)'
  <2>1. given' = given /\ rentals[r].state = "ejecting"
    BY <1>4 DEF Ejected
  <2>2. PICK x \in {"active", "done"} : rentals' = [rentals EXCEPT ![r].state = x]
    BY <1>4 DEF Ejected
  <2>3. OnlyState(r, x)
    <3>1. x \in {"none", "starting", "ejecting", "active", "done"}
      OBVIOUS
    <3> QED  BY <1>0, <2>2, <3>1, StateSet
  <2>4. ~rentals[r].settled
    BY <1>0, <2>1 DEF RentalsOK
  <2> QED  BY <1>1, <2>1, <2>3, <2>4 DEF OnlyState
<1>5. ASSUME NEW r \in RentalIds, NEW s \in Stations, StartRental(r, s)
      PROVE  Real(q)'
  <2>1. given' = given /\ rentals' = [rentals EXCEPT ![r] = [rentals[r] EXCEPT !.state = "starting", !.station = s]]
    BY <1>5 DEF StartRental
  <2>2. rentals[r] \in RentalRow
    BY <1>0
  <2>3. rentals'[r].state = "starting" /\ \A u \in RentalIds \ {r} : rentals'[u] = rentals[u]
    BY <1>0, <2>1, <2>2 DEF RentalRow
  <2> QED  BY <1>1, <2>1, <2>3
<1>6. ASSUME NEW r \in RentalIds, NEW c \in Cabinets, NEW b \in Batteries, Pop(r, c, b)
      PROVE  Real(q)'
  <2>1. given' = given /\ rentals' = [rentals EXCEPT ![r] = [rentals[r] EXCEPT !.state = "ejecting", !.battery = b]]
    BY <1>6 DEF Pop
  <2>2. rentals[r] \in RentalRow
    BY <1>0
  <2>3. rentals'[r].state = "ejecting" /\ \A u \in RentalIds \ {r} : rentals'[u] = rentals[u]
    BY <1>0, <2>1, <2>2 DEF RentalRow
  <2> QED  BY <1>1, <2>1, <2>3
<1>7. ASSUME NEW r \in RentalIds, NEW c \in Cabinets, NEW p \in SlotsOf[c], Return(r, c, p)
      PROVE  Real(q)'
  BY <1>1, <1>7 DEF Return
<1>8. ASSUME NEW p \in Requests, NEW r \in RentalIds, CloseRental(p, r)
      PROVE  Real(q)'
  <2>1. given' = given
    BY <1>8 DEF CloseRental, Outside
  <2>2. rentals' = rentals \/ rentals' = [rentals EXCEPT ![r].state = "done"]
    BY <1>8 DEF CloseRental
  <2>3. rentals' = rentals \/ OnlyState(r, "done")
    BY <1>0, <2>2, StateSet
  <2> QED  BY <1>1, <2>1, <2>3 DEF OnlyState
<1>9. ASSUME NEW r \in RentalIds, Settles(r)
      PROVE  Real(q)'
  <2>1. PICK p \in Requests : q = requests[p]
    BY <1>9
  <2>2. /\ given' = given /\ rentals' = [rentals EXCEPT ![r] = [rentals[r] EXCEPT !.settled = TRUE]]
        /\ rentals[r].state = "active"
        /\ r \notin given /\ q.step = "commit" => rentals[r].battery \notin Held(q.reading.contents)
    BY <1>9, <2>1 DEF Settles
  <2>3. rentals[r] \in RentalRow
    BY <1>0
  <2>4. /\ rentals'[r].battery = rentals[r].battery /\ \A u \in RentalIds \ {r} : rentals'[u] = rentals[u]
    BY <1>0, <2>2, <2>3 DEF RentalRow
  <2>5. q.found \subseteq given'
    BY <2>2 DEF Real
  <2>6. ASSUME q.step = "commit", NEW u \in RentalIds, rentals'[u].state = "active", rentals'[u].settled,
               rentals'[u].battery \in Held(q.reading.contents)
        PROVE  u \in given'
    BY <2>2, <2>4, <2>6 DEF Real
  <2> QED  BY <2>5, <2>6 DEF Real, Held
<1> QED  BY <1>2, <1>3, <1>4, <1>5, <1>6, <1>7, <1>8, <1>9, RentalMoves

LEMMA RequestsStep ==
  ASSUME SyncInv, CabinetsAssumption, [Next]_vars
  PROVE  RequestsOK' /\ ReturnsReal'
<1>0. RequestsOK /\ ReturnsReal
  BY DEF SyncInv
<1>1. CASE UNCHANGED requests
  <2>1. RequestsOK'
    BY <1>0, <1>1 DEF RequestsOK, RequestOK, Distinct, Waiting
  <2>2. ASSUME Prompt, NEW p \in Requests
        PROVE  Real(requests[p])'
    <3>1. Real(requests[p])
      BY <1>0, <2>2 DEF ReturnsReal
    <3> DEFINE q == requests[p]
    <3>2. \E n \in Requests : q = requests[n]
      OBVIOUS
    <3> HIDE DEF q
    <3>3. Real(q)
      BY <3>1 DEF q
    <3>4. PICK x : x = q
      OBVIOUS
    <3>5. Real(x)'
      BY <2>2, <3>2, <3>3, <3>4, RealStays
    <3> QED  BY <1>1, <3>4, <3>5 DEF Real, q, Held
  <2> QED  BY <2>1, <2>2 DEF ReturnsReal
<1>2. ASSUME NEW p \in Requests, Run(p)
      PROVE  RequestsOK' /\ ReturnsReal'
  <2>1. PICK row : Becomes(p, row)
    BY <1>2, RunBecomes
  <2>2. /\ requests' = [n \in Requests |-> requests'[n]] /\ requests'[p] = row
        /\ \A n \in Requests \ {p} : requests'[n] = requests[n]
    BY <1>0, <2>1 DEF Becomes, RequestsOK
  <2>3. \A n \in Requests : RequestOK(requests'[n])
    BY <1>0, <2>1, <2>2 DEF Becomes, RequestsOK
  <2>4. RequestsOK'
    BY <2>2, <2>3 DEF RequestsOK, RequestOK, Distinct, Waiting
  <2>5. \A r \in RentalIds : ~Settles(r) \/ UNCHANGED requests
    BY DEF Settles, Elsewhere
  <2>6. ASSUME Prompt, NEW n \in Requests
        PROVE  Real(requests[n])'
    <3>1. PICK x : x = requests'[n]
      OBVIOUS
    <3>2. Real(x)
      BY <1>0, <2>1, <2>2, <2>6, <3>1 DEF Becomes, ReturnsReal
    <3>3. \A r \in RentalIds : Settles(r) => \E m \in Requests : x = requests[m]
      BY <2>5, <3>1
    <3>4. Real(x)'
      BY <2>6, <3>2, <3>3, RealStays
    <3> QED  BY <3>1, <3>4 DEF Real, Held
  <2> QED  BY <2>4, <2>6 DEF ReturnsReal
<1>3. CASE People
  BY <1>1, <1>3 DEF People, PowerSwitched, ReadingAges, TakeOut, BringIn, Return, LinkStation, MoveLink, GiveUp,
                    Ejected, Settles, StartRental, Pop, Adopt, Elsewhere
<1> QED  BY <1>1, <1>2, <1>3 DEF Next, vars

-----------------------------------------------------------------------------
(* Theorems. *)

LEMMA SyncStart ==
  ASSUME CabinetsAssumption, Init
  PROVE  SyncInv
<1>1. \A c \in Cabinets : /\ cabinets[c] = [contents |-> BatteriesIn[c], online |-> TRUE]
                          /\ BatteriesIn[c] \in Contents(c)
  BY DEF Init, CabinetsAssumption, Contents
<1>2. CabinetsOK
  <2>1. \A c \in Cabinets : cabinets[c] \in Reading
    <3>1. \A c \in Cabinets : BatteriesIn[c] \in AnyContents
      BY <1>1 DEF AnyContents
    <3> QED  BY <3>1 DEF Init, Reading
  <2>2. cabinets \in [Cabinets -> Reading]
    BY <2>1 DEF Init
  <2>3. \A c \in Cabinets : cabinets[c].contents = BatteriesIn[c]
    BY DEF Init
  <2> QED  BY <1>1, <2>2, <2>3 DEF CabinetsOK, CabinetsAssumption
<1>3. LinksOK
  BY DEF Init, LinksOK, CabinetsAssumption
<1>4. StoredOK
  BY DEF Init, StoredOK
<1>5. RentalsOK
  BY DEF Init, RentalsOK, RentalRow, NoRental, Out
<1>6. InventoryOK
  <2>1. \A s \in Stations : \A p \in DOMAIN slots[s] : slots[s][p] = None
    BY DEF Init
  <2>2. \A b \in Batteries : ~InSlot(b) /\ status[b] = "MISSING"
    BY <2>1 DEF Init, InSlot, Held
  <2>3. \A r \in RentalIds : rentals[r].state = "none"
    BY DEF Init, NoRental
  <2>4. OutOnRental /\ OneSlotEach
    BY <2>1, <2>2, <2>3 DEF OutOnRental, OneSlotEach
  <2>5. /\ slots = [s \in Stations |-> slots[s]] /\ online \in [Stations -> BOOLEAN]
        /\ \A s \in Stations : slots[s] \in [DOMAIN slots[s] -> Batteries \cup {None}]
        /\ status \in [Batteries -> {"AVAILABLE", "RENTED", "MISSING"}]
    BY DEF Init
  <2> QED  BY <2>2, <2>4, <2>5 DEF InventoryOK
<1>7. RequestsOK /\ ReturnsReal
  <2>1. Waiting \in RequestRow /\ Waiting.step = "idle" /\ Waiting.found = {}
    BY DEF Waiting, RequestRow
  <2>2. requests = [p \in Requests |-> Waiting]
    BY DEF Init
  <2>3. RequestOK(Waiting) /\ Real(Waiting)
    BY <2>1 DEF RequestOK, Real
  <2> QED  BY <2>2, <2>3 DEF RequestsOK, ReturnsReal
<1> QED  BY <1>2, <1>3, <1>4, <1>5, <1>6, <1>7 DEF SyncInv

\* The inductive invariant: what cabinets, links, stored readings, slots, rentals and the requests
\* under way say of each other.
THEOREM SyncInvariant == Spec => []SyncInv
<1>1. Init => SyncInv
  BY CabinetsAssumption, SyncStart
<1>2. SyncInv /\ [Next]_vars => SyncInv'
  <2>1. ASSUME SyncInv, [Next]_vars
        PROVE  SyncInv'
    <3>1. CabinetsOK' /\ StoredOK' /\ LinksOK'
      BY <2>1, CabinetsAssumption, CabinetsKept, StoredKept, LinksKept DEF SyncInv
    <3>2. InventoryOK' /\ RentalsOK'
      BY <2>1, CabinetsAssumption, InventoryKept, RentalsKept
    <3>3. RequestsOK' /\ ReturnsReal'
      BY <2>1, CabinetsAssumption, RequestsStep
    <3> QED  BY <3>1, <3>2, <3>3 DEF SyncInv
  <2> QED  BY <2>1
<1> QED  BY <1>1, <1>2, PTL DEF Spec

\* A station follows one cabinet at a time, and whatever readings are mirrored in whatever order,
\* the inventory is one that the commit gate accepts (mirrorCabinetInventory, validateData).
THEOREM InventoryValid == Spec => []ValidInventory
<1>1. SyncInv => ValidInventory
  <2> SUFFICES ASSUME SyncInv
               PROVE  ValidInventory
    OBVIOUS
  <2>1. CabinetsOK /\ LinksOK /\ StoredOK /\ InventoryOK /\ RentalsOK /\ RequestsOK
    BY DEF SyncInv
  <2>2. \A c \in Cabinets : /\ cabinets[c].contents \in [SlotsOf[c] -> Batteries \cup {None}]
                            /\ cabinets[c].online \in BOOLEAN
    BY <2>1 DEF CabinetsOK, Reading, Contents
  <2>3. \A c \in Cabinets : /\ links[c].station \in Stations \cup {None} /\ links[c].active \in BOOLEAN
                            /\ links[c].active => links[c].station # None
    BY <2>1 DEF LinksOK
  <2>4. \A c \in Cabinets : stored[c] # None => stored[c].contents \in [SlotsOf[c] -> Batteries \cup {None}]
    BY <2>1 DEF StoredOK, Contents
  <2>5. /\ \A s \in Stations : slots[s] \in [DOMAIN slots[s] -> Batteries \cup {None}] /\ online[s] \in BOOLEAN
        /\ status \in [Batteries -> {"AVAILABLE", "RENTED", "MISSING"}]
    BY <2>1 DEF InventoryOK
  <2>6. /\ \A r \in RentalIds : rentals[r].state \in {"none", "starting", "ejecting", "active", "done"}
        /\ given \subseteq RentalIds
    BY <2>1 DEF RentalsOK, RentalRow
  <2>7. \A p \in Requests : requests[p].step = "idle" => requests[p] = Waiting
    BY <2>1 DEF RequestsOK, RequestOK
  <2>8. TypeOK
    BY <2>2, <2>3, <2>4, <2>5, <2>6, <2>7 DEF TypeOK
  <2>9. ASSUME NEW s \in Stations
        PROVE  Cardinality(LinkedTo(s)) <= 1
    <3>1. \A c, d \in LinkedTo(s) : c = d
      BY <2>1 DEF LinksOK, LinkedTo
    <3>2. CASE LinkedTo(s) = {}
      BY <3>2, FS_EmptySet
    <3>3. CASE LinkedTo(s) # {}
      <4>1. PICK c : c \in LinkedTo(s)
        BY <3>3
      <4>2. LinkedTo(s) = {c}
        BY <3>1, <4>1
      <4>3. Cardinality({c}) = 1
        BY FS_Singleton
      <4>4. Cardinality(LinkedTo(s)) = 1
        BY <4>2, <4>3
      <4> QED  BY <4>4
    <3> QED  BY <3>2, <3>3
  <2>10. /\ \A s, t \in Stations : \A p \in DOMAIN slots[s], q \in DOMAIN slots[t] :
              slots[s][p] = slots[t][q] /\ slots[s][p] # None => s = t /\ p = q
         /\ \A b \in Batteries : InSlot(b) <=> status[b] = "AVAILABLE"
         /\ \A b \in Batteries : status[b] = "RENTED" =>
              \E r \in RentalIds : rentals[r].battery = b /\ rentals[r].state = "active"
    BY <2>1 DEF InventoryOK, OutOnRental, OneSlotEach
  <2> QED  BY <2>8, <2>9, <2>10 DEF ValidInventory
<1> QED  BY <1>1, SyncInvariant, PTL

\* A reading closes a rental only when its customer has brought the battery back, provided that a
\* reading is used within RETURN_SETTLE_MS (detectReturns).
THEOREM ReturnsAreReal ==
  ASSUME Prompt
  PROVE  Spec => ReturnIsReal
<1>1. ASSUME SyncInv, [Next]_vars, NEW r \in RentalIds, rentals[r].state = "active", rentals'[r].state = "done"
      PROVE  r \in given
  <2>0. RentalsOK /\ rentals \in [RentalIds -> RentalRow]
    BY <1>1 DEF SyncInv, RentalsOK
  <2>1. ASSUME NEW q \in RentalIds, GiveUp(q) \/ Ejected(q)
        PROVE  FALSE
    <3>1. rentals[q].state # "active"
      BY <2>1 DEF GiveUp, Ejected
    <3>2. PICK x \in {"active", "done"} : rentals' = [rentals EXCEPT ![q].state = x]
      BY <2>1 DEF GiveUp, Ejected
    <3>3. x \in {"none", "starting", "ejecting", "active", "done"}
      OBVIOUS
    <3>4. OnlyState(q, x)
      BY <2>0, <3>2, <3>3, StateSet
    <3> QED  BY <1>1, <3>1, <3>4 DEF OnlyState
  <2>2. ASSUME NEW q \in RentalIds, Settles(q)
        PROVE  FALSE
    <3>1. rentals' = [rentals EXCEPT ![q] = [rentals[q] EXCEPT !.settled = TRUE]] /\ rentals[q] \in RentalRow
      BY <2>0, <2>2 DEF Settles
    <3>2. rentals'[r].state = rentals[r].state
      BY <2>0, <3>1 DEF RentalRow
    <3> QED  BY <1>1, <3>2
  <2>3. ASSUME NEW q \in RentalIds, NEW s \in Stations, StartRental(q, s)
        PROVE  FALSE
    <3>1. /\ rentals' = [rentals EXCEPT ![q] = [rentals[q] EXCEPT !.state = "starting", !.station = s]]
          /\ rentals[q] \in RentalRow
      BY <2>0, <2>3 DEF StartRental
    <3>2. rentals'[r].state \in {rentals[r].state, "starting"}
      BY <2>0, <3>1 DEF RentalRow
    <3> QED  BY <1>1, <3>2
  <2>4. ASSUME NEW q \in RentalIds, NEW c \in Cabinets, NEW b \in Batteries, Pop(q, c, b)
        PROVE  FALSE
    <3>1. /\ rentals' = [rentals EXCEPT ![q] = [rentals[q] EXCEPT !.state = "ejecting", !.battery = b]]
          /\ rentals[q] \in RentalRow
      BY <2>0, <2>4 DEF Pop
    <3>2. rentals'[r].state \in {rentals[r].state, "ejecting"}
      BY <2>0, <3>1 DEF RentalRow
    <3> QED  BY <1>1, <3>2
  <2>5. ASSUME NEW p \in Requests, NEW q \in RentalIds, CloseRental(p, q)
        PROVE  r \in given
    <3>1. rentals' = rentals \/ OnlyState(q, "done")
      BY <2>0, <2>5, StateSet DEF CloseRental
    <3>2. r = q
      BY <1>1, <3>1 DEF OnlyState
    <3>3. Real(requests[p]) /\ r \in requests[p].found
      BY <1>1, <2>5, <3>2 DEF CloseRental, SyncInv, ReturnsReal
    <3> QED  BY <3>3 DEF Real
  <2>6. ASSUME UNCHANGED rentals
        PROVE  FALSE
    BY <1>1, <2>6
  <2>7. ASSUME NEW q \in RentalIds, NEW c \in Cabinets, NEW p \in SlotsOf[c], Return(q, c, p)
        PROVE  FALSE
    BY <1>1, <2>7 DEF Return
  <2> QED  BY <1>1, <2>1, <2>2, <2>3, <2>4, <2>5, <2>6, <2>7, CabinetsAssumption, RentalMoves
<1>2. SyncInv /\ [Next]_vars =>
        [\A r \in RentalIds : rentals[r].state = "active" /\ rentals'[r].state = "done" => r \in given]_vars
  BY <1>1
<1> QED  BY <1>2, SyncInvariant, PTL DEF ReturnIsReal, Spec

=============================================================================
