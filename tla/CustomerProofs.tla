------------------------------ MODULE CustomerProofs ------------------------------
(***************************************************************************)
(* No device opens the next rental of a customer without having shown the  *)
(* one before, for any number of rentals, taps, reloads, relaunches, lost  *)
(* answers and late requests.                                              *)
(***************************************************************************)
EXTENDS CustomerClient, TLAPS, FiniteSetTheorems, SequenceTheorems, WellFoundedInduction

-----------------------------------------------------------------------------
(* The invariant.  It is written over values rs, p, a, g: the rentals, the   *)
(* page, the application and the requests left behind.                       *)

Row == [who : Customers, at : Stations, key : Keys, by : {"start", "resume", "take"},
        state : States, intent : {"open", "processing", "held"}]
Own(rs, c) == {i \in DOMAIN rs : rs[i].who = c}
Last(rs, c, i) == i \in Own(rs, c) /\ \A j \in Own(rs, c) : j <= i
Known(rs, c, key) == \E i \in Own(rs, c) : rs[i].key = key
Views(rs, c) == [id : Own(rs, c), state : States]
Oks(rs, c) == [ok : {TRUE}, rental : Views(rs, c), session : Own(rs, c) \cup {None}]

\* A key opens one rental of a customer, only the last may be under way, and the application takes
\* batteries for the browser's customer only after the handoff.
KeyOnce(rs) == \A i, j \in DOMAIN rs : rs[i].who = rs[j].who /\ rs[i].key = rs[j].key => i = j
OpenIsLast(rs) == \A i \in DOMAIN rs : rs[i].state \in OpenStates => Last(rs, rs[i].who, i)
ByWhom(rs, who) ==
  \A i \in DOMAIN rs : /\ rs[i].by \in {"start", "resume"} => rs[i].who = "web"
                       /\ rs[i].by = "take" /\ rs[i].who = "web" => who = "web"
RowsOK(rs, who) == rs \in Seq(Row) /\ KeyOnce(rs) /\ OpenIsLast(rs) /\ ByWhom(rs, who)

\* The requests of the page and of the application, who being the customer of the application.
Fields == {"do", "as", "at", "key", "rental", "answer"}
PageCall(rs, q) ==
  /\ DOMAIN q = Fields /\ q.do \in {"start", "resume", "confirm", "cancel"} /\ q.as = "web"
  /\ q.do \in {"start", "resume"} => q.key \in Keys /\ q.at \in Stations
  /\ q.do \in {"confirm", "cancel"} => q.rental \in Own(rs, "web")
  /\ q.answer \in Oks(rs, "web") \cup {None, Failure}
AppCall(rs, who, q) ==
  /\ DOMAIN q = Fields /\ q.do \in {"take", "return", "claim"} /\ q.as \in Customers
  /\ q.do = "take" => q.key \in Keys /\ q.at \in Stations /\ (q.as = "web" => who = "web")
  /\ q.answer \in (IF q.do = "claim" THEN {[ok |-> TRUE]} ELSE Oks(rs, q.as)) \cup {None, Failure}
GoneOK(rs, who, g) == \A q \in g : PageCall(rs, q) \/ AppCall(rs, who, q)

PageFields == {"loaded", "remote", "local", "session", "key", "busy", "dismissed", "resumed", "paying",
               "returned", "calls", "n", "seen", "dropped"}
\* What is on the page was seen; a page that is loading holds nothing.
Displayed(p) == View(p) \notin {"loading", "busy"} /\ Shown(p) # None => Shown(p).id \in p.seen
Empty(p) == p.local = None /\ ~p.dismissed /\ ~p.busy /\ p.calls = {} /\ p.key = None
PageShape(rs, p) ==
  /\ DOMAIN p = PageFields
  /\ p.remote \in Views(rs, "web") \cup {None} /\ p.local \in Views(rs, "web") \cup {None}
  /\ p.session \in Own(rs, "web") \cup {None} /\ p.key \in Keys \cup {None} /\ p.n \in Nat
  /\ p.seen \subseteq DOMAIN rs
  /\ \A q \in p.calls : PageCall(rs, q) /\ q.do # "cancel"
  /\ ~p.loaded => Empty(p)
PageOK(rs, p) == PageShape(rs, p) /\ Displayed(p)

AppFields == {"who", "rental", "pending", "calls", "online", "installed", "n", "seen", "dropped"}
\* One request at a time, with the pending key unless it opens the link.
OfPending(a, q) ==
  q.do # "claim" => /\ a.online /\ a.pending # None /\ q.as = a.who
                    /\ q.do = a.pending.do /\ q.key = a.pending.key
AppOK(rs, a) ==
  /\ DOMAIN a = AppFields
  /\ a.who \in Customers /\ a.n \in Nat /\ a.seen \subseteq DOMAIN rs
  /\ a.pending \in [do : {"take", "return"}, at : Stations, key : Keys] \cup {None}
  /\ \A q \in a.calls : AppCall(rs, a.who, q) /\ OfPending(a, q)
  /\ \A q, r \in a.calls : q = r
  /\ ~a.online => a.pending = None

\* A device that acts for c has one attempt at most that may still open a rental, that of the key k; and
\* it has seen the last rental it opened, unless k opened it.
Single(rs, given, c, do, calls, seen, k) ==
  /\ \A q \in calls : q.do = do /\ q.as = c => q.key = k \/ Known(rs, c, q.key) \/ q.key \in given
  /\ \A i \in DOMAIN rs :
       Last(rs, c, i) /\ rs[i].by = do => rs[i].key = k \/ i \in seen \/ rs[i].key \in given
Given(p, a) == p.dropped \cup a.dropped
\* Requests that will open no rental, unless their key was given up.
Quiet(rs, given, c, do, calls) ==
  \A q \in calls : q.do = do /\ q.as = c => Known(rs, c, q.key) \/ q.key \in given
PageSingle(rs, p, a, g) ==
  /\ \E k \in Keys \cup {None} : /\ p.loaded => k = p.key
                                 /\ Single(rs, Given(p, a), "web", "start", p.calls \cup g, p.seen, k)
  /\ ~p.loaded => Quiet(rs, Given(p, a), "web", "start", p.calls \cup g)
\* The key of the attempt the application has not seen answered.
TakeKey(a) == IF a.pending # None /\ a.pending.do = "take" THEN a.pending.key ELSE None
AppSingle(rs, p, a, g, c) ==
  /\ \E k \in Keys \cup {None} : /\ a.online /\ a.who = c => k = TakeKey(a)
                                 /\ Single(rs, Given(p, a), c, "take", a.calls \cup g, a.seen, k)
  /\ ~a.online => Quiet(rs, Given(p, a), c, "take", a.calls \cup g)

\* SeenBeforeNext.
Next2(rs, given, i, j) ==
  /\ i < j /\ rs[i].who = rs[j].who /\ rs[i].by = rs[j].by
  /\ \A h \in i + 1 .. j - 1 : rs[h].who # rs[j].who
  /\ {rs[i].key, rs[j].key} \cap given = {}
Pairs(rs, given, onPage, inApp) ==
  \A i, j \in DOMAIN rs :
    Next2(rs, given, i, j) => /\ rs[j].by = "start" => i \in onPage
                              /\ rs[j].by = "take"  => i \in inApp

Attempts(rs, p, a, g) ==
  /\ PageSingle(rs, p, a, g) /\ \A c \in Customers : AppSingle(rs, p, a, g, c)
  /\ Pairs(rs, Given(p, a), p.seen, a.seen)
Inv(rs, p, a, g) ==
  /\ RowsOK(rs, a.who) /\ PageOK(rs, p) /\ AppOK(rs, a) /\ GoneOK(rs, a.who, g)
  /\ Attempts(rs, p, a, g)
CustomerInv == Inv(rentals, page, app, gone)

-----------------------------------------------------------------------------
(* The rentals.  A request changes the state of some, or opens one.          *)

Grown(rs, new) ==
  /\ DOMAIN rs \subseteq DOMAIN new
  /\ \A i \in DOMAIN rs : new[i].who = rs[i].who /\ new[i].key = rs[i].key /\ new[i].by = rs[i].by
Kept(rs, new) ==
  /\ new \in Seq(Row) /\ DOMAIN new = DOMAIN rs /\ Grown(rs, new)
  /\ \A i \in DOMAIN rs : new[i].state \in OpenStates => rs[i].state \in OpenStates
Opened(rs, new, q) ==
  /\ new \in Seq(Row) /\ DOMAIN new = DOMAIN rs \cup {Len(rs) + 1} /\ Grown(rs, new)
  /\ \A i \in DOMAIN rs : new[i].state = rs[i].state
  /\ new[Len(rs) + 1].who = q.as /\ new[Len(rs) + 1].key = q.key /\ new[Len(rs) + 1].by = q.do
  /\ ~Known(rs, q.as, q.key) /\ \A i \in Own(rs, q.as) : rs[i].state \notin OpenStates

\* The rentals are numbered from one.
LEMMA Numbers ==
  ASSUME NEW rs \in Seq(Row)
  PROVE  DOMAIN rs = 1 .. Len(rs) /\ Len(rs) \in Nat /\ \A i \in DOMAIN rs : i \in Nat /\ i <= Len(rs) /\ rs[i] \in Row
<1> PICK n \in Nat : n = Len(rs) /\ DOMAIN rs = 1 .. n
  BY LenProperties
<1>1. \A i \in DOMAIN rs : rs[i] \in Row
  BY ElementOfSeq, LenProperties
<1> QED
  BY <1>1

\* When none is opened, everybody has the rentals they had.
LEMMA KeptOwn ==
  ASSUME NEW rs, NEW new, Kept(rs, new)
  PROVE  \A c : /\ Own(new, c) = Own(rs, c)
                /\ \A i : Last(new, c, i) <=> Last(rs, c, i)
                /\ \A key : Known(new, c, key) <=> Known(rs, c, key)
<1>1. \A c : Own(new, c) = Own(rs, c)
  BY DEF Kept, Grown, Own
<1>2. \A c : \A key : Known(new, c, key) <=> Known(rs, c, key)
  BY <1>1 DEF Known, Own, Kept, Grown
<1> QED
  BY <1>1, <1>2 DEF Last

\* The rentals stay well formed when none is opened,
LEMMA KeptRows ==
  ASSUME NEW rs, NEW new, Kept(rs, new), NEW who, RowsOK(rs, who)
  PROVE  RowsOK(new, who)
<1>1. KeyOnce(new)
  BY DEF RowsOK, KeyOnce, Kept, Grown
<1>2. OpenIsLast(new)
  BY KeptOwn DEF RowsOK, OpenIsLast, Kept, Grown
<1>3. ByWhom(new, who)
  BY DEF RowsOK, ByWhom, Kept, Grown
<1> QED
  BY <1>1, <1>2, <1>3 DEF RowsOK, Kept

\* The rental that was opened is the last of its customer.
LEMMA OpenedOwn ==
  ASSUME NEW rs \in Seq(Row), NEW new, NEW q, Opened(rs, new, q), NEW n, n = Len(rs) + 1
  PROVE  /\ \A c : c # q.as => Own(new, c) = Own(rs, c) /\ \A i : Last(new, c, i) <=> Last(rs, c, i)
         /\ Own(new, q.as) = Own(rs, q.as) \cup {n} /\ n \notin DOMAIN rs /\ n \in DOMAIN new
         /\ \A i : Last(new, q.as, i) <=> i = n
         /\ \A c, key : Known(rs, c, key) => Known(new, c, key)
<1>1. n \in Nat /\ n \notin DOMAIN rs /\ \A i \in DOMAIN rs : i \in Nat /\ i < n
  BY Numbers
<1>2. /\ DOMAIN new = DOMAIN rs \cup {n} /\ new[n].who = q.as
      /\ \A i \in DOMAIN rs : new[i].who = rs[i].who /\ new[i].key = rs[i].key
  BY DEF Opened, Grown
<1>3. \A c : c # q.as => Own(new, c) = Own(rs, c)
  BY <1>2 DEF Own
<1>4. Own(new, q.as) = Own(rs, q.as) \cup {n}
  BY <1>1, <1>2 DEF Own
<1>5. \A c : c # q.as => \A i : Last(new, c, i) <=> Last(rs, c, i)
  BY <1>3 DEF Last
<1>6. \A i : Last(new, q.as, i) <=> i = n
  <2>1. \A i \in Own(rs, q.as) : i \in Nat /\ i < n
    BY <1>1 DEF Own
  <2> QED
    BY <1>1, <1>4, <2>1 DEF Last
<1>7. \A c, key : Known(rs, c, key) => Known(new, c, key)
  BY <1>2 DEF Known, Own
<1> QED
  BY <1>1, <1>2, <1>3, <1>4, <1>5, <1>6, <1>7

\* and when a request of the right client opens one: its customer had none under way.
LEMMA OpenedRows ==
  ASSUME NEW rs, NEW new, NEW q, Opened(rs, new, q), NEW who, RowsOK(rs, who),
         q.do \in {"start", "resume"} => q.as = "web", q.do = "take" /\ q.as = "web" => who = "web"
  PROVE  RowsOK(new, who)
<1> PICK n : n = Len(rs) + 1
  OBVIOUS
<1>0. rs \in Seq(Row)
  BY DEF RowsOK
<1>1. /\ DOMAIN new = DOMAIN rs \cup {n} /\ n \notin DOMAIN rs
      /\ new[n].who = q.as /\ new[n].key = q.key /\ new[n].by = q.do
      /\ \A i \in DOMAIN rs : new[i].who = rs[i].who /\ new[i].key = rs[i].key /\ new[i].by = rs[i].by
      /\ \A i \in DOMAIN rs : new[i].state = rs[i].state
  BY <1>0, OpenedOwn DEF Opened, Grown
<1>2. KeyOnce(new)
  <2>1. \A i \in DOMAIN rs : ~ (rs[i].who = q.as /\ rs[i].key = q.key)
    BY DEF Opened, Known, Own
  <2> QED
    BY <1>1, <2>1 DEF KeyOnce, RowsOK
<1>3. OpenIsLast(new)
  <2> SUFFICES ASSUME NEW i \in DOMAIN new, new[i].state \in OpenStates
               PROVE  Last(new, new[i].who, i)
    BY DEF OpenIsLast
  <2>1. CASE i = n
    BY <1>0, <1>1, <2>1, OpenedOwn
  <2>2. CASE i # n
    <3>1. i \in DOMAIN rs /\ rs[i].state \in OpenStates /\ new[i].who = rs[i].who
      BY <1>1, <2>2
    <3>2. rs[i].who # q.as
      BY <3>1 DEF Opened, Own
    <3>3. Last(rs, rs[i].who, i)
      BY <3>1 DEF RowsOK, OpenIsLast
    <3>4. \A c : c # q.as => \A j : Last(new, c, j) <=> Last(rs, c, j)
      BY <1>0, OpenedOwn
    <3> QED
      BY <3>1, <3>2, <3>3, <3>4
  <2> QED
    BY <2>1, <2>2
<1>4. ByWhom(new, who)
  BY <1>1 DEF ByWhom, RowsOK
<1> QED
  BY <1>2, <1>3, <1>4 DEF RowsOK, Opened

\* A customer with a rental has a last one, which is what GET customer tells.
LEMMA LastExists ==
  ASSUME NEW rs \in Seq(Row), NEW c, Own(rs, c) # {}
  PROVE  \E i \in Own(rs, c) : Last(rs, c, i)
<1> PICK n \in Nat : n = Len(rs)
  BY Numbers
<1> DEFINE Rest == {n - i : i \in Own(rs, c)}
<1>1. \A i \in Own(rs, c) : i \in Nat /\ n - i \in Nat
  BY Numbers DEF Own
<1>2. Rest \in SUBSET Nat /\ Rest # {}
  BY <1>1
<1> DEFINE Before == OpToRel(<, Nat)
<1>3. \A y, z \in Nat : y < z => <<y, z>> \in Before
  BY DEF OpToRel
<1>4. IsWellFoundedOn(Before, Nat)
  BY NatLessThanWellFounded
<1> HIDE DEF Before
<1>5. PICK x \in Rest : \A y \in Rest : <<y, x>> \notin Before
  BY <1>2, <1>4, WFMin
<1>6. PICK i \in Own(rs, c) : x = n - i
  BY <1>5
<1>7. ASSUME NEW j \in Own(rs, c) PROVE j <= i
  <2>1. n - j \in Rest /\ n - j \in Nat /\ x \in Nat
    BY <1>1, <1>6
  <2>2. ~ (n - j < x)
    BY <1>3, <1>5, <2>1
  <2> QED
    BY <1>1, <1>6, <2>2
<1> QED
  BY <1>7 DEF Last

\* The library chooses the greatest.
LEMMA MaxIs ==
  ASSUME NEW S \in SUBSET Nat, NEW m \in S, \A x \in S : x <= m
  PROVE  Max(S) = m
<1> PICK x : x = Max(S)
  OBVIOUS
<1>1. \E y \in S : \A z \in S : y >= z
  OBVIOUS
<1>2. x \in S /\ \A z \in S : x >= z
  BY <1>1 DEF Max
<1>3. x \in Nat /\ m \in Nat /\ x >= m /\ x <= m
  BY <1>2
<1> QED
  BY <1>3

\* GET customer tells the last rental: none but the last can be under way.
LEMMA CurrentIs ==
  ASSUME NEW who, RowsOK(rentals, who), NEW c
  PROVE  \/ Own(rentals, c) = {} /\ Current(c) = None
         \/ \E i \in Own(rentals, c) : /\ Last(rentals, c, i) /\ Current(c) = [id |-> i, state |-> rentals[i].state]
                                       /\ Current(c) \in Views(rentals, c)
<1> PICK rs \in Seq(Row) : rs = rentals
  BY DEF RowsOK
<1>1. Ids(c) = Own(rs, c)
  BY DEF Ids, Own
<1>2. CASE Own(rs, c) = {}
  BY <1>1, <1>2 DEF Current
<1>3. CASE Own(rs, c) # {}
  <2> PICK i \in Own(rs, c) : Last(rs, c, i)
    BY <1>3, LastExists
  <2> DEFINE open == {j \in Own(rs, c) : rs[j].state \in OpenStates}
             from == IF open # {} THEN open ELSE Own(rs, c)
  <2>1. \A j \in open : j = i
    <3> SUFFICES ASSUME NEW j \in open PROVE j = i
      OBVIOUS
    <3>1. Last(rs, c, j)
      BY DEF RowsOK, OpenIsLast, Own
    <3>2. i \in Nat /\ j \in Nat
      BY Numbers DEF Own
    <3> QED
      BY <3>1, <3>2 DEF Last
  <2>2. i \in from /\ \A j \in from : j <= i
    BY <2>1 DEF Last
  <2>3. from \in SUBSET Nat
    BY Numbers DEF Own
  <2>4. Max(from) = i
    BY <2>2, <2>3, MaxIs
  <2>5. Current(c) = Rental(rs, i)
    BY <1>1, <1>3, <2>4 DEF Current
  <2>6. rs[i] \in Row
    BY Numbers DEF Own
  <2> QED
    BY <2>5, <2>6 DEF Rental, Views, Row
<1> QED
  BY <1>2, <1>3

-----------------------------------------------------------------------------
(* Attempts.                                                                 *)

\* Every request do of the first set is one of the second, perhaps answered since.
Fewer(more, calls, do) ==
  \A q \in more : q.do = do => \E r \in calls : r.do = do /\ r.as = q.as /\ r.key = q.key

\* Doing nothing opens none.
LEMMA KeptSelf ==
  ASSUME NEW rs \in Seq(Row)
  PROVE  Kept(rs, rs)
BY DEF Kept, Grown

\* A device keeps its one attempt while no rental is opened.
LEMMA SingleKept ==
  ASSUME NEW rs, NEW new, Kept(rs, new), NEW given, NEW later, given \subseteq later, NEW c, NEW do,
         NEW calls, NEW more, Fewer(more, calls, do), NEW seen, NEW shown, seen \subseteq shown, NEW k,
         Single(rs, given, c, do, calls, seen, k)
  PROVE  Single(new, later, c, do, more, shown, k)
<1>1. \A q \in more : q.do = do /\ q.as = c => q.key = k \/ Known(new, c, q.key) \/ q.key \in later
  BY KeptOwn DEF Single, Fewer
<1>2. \A i \in DOMAIN new :
        Last(new, c, i) /\ new[i].by = do => new[i].key = k \/ i \in shown \/ new[i].key \in later
  BY KeptOwn DEF Single, Kept, Grown
<1> QED
  BY <1>1, <1>2 DEF Single

\* A key that opened a rental is known for good.
LEMMA QuietKept ==
  ASSUME NEW rs, NEW new, Grown(rs, new), NEW given, NEW later, given \subseteq later, NEW c, NEW do,
         NEW calls, NEW more, Fewer(more, calls, do), Quiet(rs, given, c, do, calls)
  PROVE  Quiet(new, later, c, do, more)
<1>1. \A key : Known(rs, c, key) => Known(new, c, key)
  BY DEF Known, Own, Grown
<1> QED
  BY <1>1 DEF Quiet, Fewer

\* And when its own attempt opens a rental, or another request does.
LEMMA SingleOpened ==
  ASSUME NEW rs \in Seq(Row), NEW new, NEW q, Opened(rs, new, q), NEW given, NEW c, NEW do,
         NEW calls, NEW more, Fewer(more, calls, do), NEW seen, NEW k,
         q.do = do => q \in calls, Single(rs, given, c, do, calls, seen, k)
  PROVE  Single(new, given, c, do, more, seen, k)
<1> PICK n : n = Len(rs) + 1
  OBVIOUS
<1>0. /\ c # q.as => \A i : Last(new, c, i) <=> Last(rs, c, i)
      /\ \A i : Last(new, q.as, i) <=> i = n
      /\ \A key : Known(rs, c, key) => Known(new, c, key)
  <2>1. c # q.as => \A i : Last(new, c, i) <=> Last(rs, c, i)
    BY OpenedOwn
  <2>2. \A i : Last(new, q.as, i) <=> i = n
    BY OpenedOwn
  <2>3. \A key : Known(rs, c, key) => Known(new, c, key)
    BY OpenedOwn
  <2> QED
    BY <2>1, <2>2, <2>3
<1>1. \A r \in more : r.do = do /\ r.as = c => r.key = k \/ Known(new, c, r.key) \/ r.key \in given
  BY <1>0 DEF Single, Fewer
<1>2. ASSUME NEW i \in DOMAIN new, Last(new, c, i), new[i].by = do
      PROVE  new[i].key = k \/ i \in seen \/ new[i].key \in given
  <2>1. CASE c = q.as
    <3>0. i = n
      BY <1>0, <1>2, <2>1
    <3>1. new[i].key = q.key /\ q.do = do
      BY <1>2, <3>0 DEF Opened
    <3>2. ~Known(rs, c, q.key)
      BY <2>1 DEF Opened
    <3> QED
      BY <2>1, <3>1, <3>2 DEF Single
  <2>2. CASE c # q.as
    <3>1. Last(rs, c, i) /\ i \in DOMAIN rs
      BY <1>0, <1>2, <2>2 DEF Last, Own
    <3>2. new[i].by = rs[i].by /\ new[i].key = rs[i].key
      BY <3>1 DEF Opened, Grown
    <3> QED
      BY <1>2, <3>1, <3>2 DEF Single
  <2> QED
    BY <2>1, <2>2
<1> QED
  BY <1>1, <1>2 DEF Single

\* Pairs of rentals stay right while none is opened.
LEMMA PairsKept ==
  ASSUME NEW rs, NEW new, Kept(rs, new), NEW given, NEW later, given \subseteq later,
         NEW onPage, NEW inApp, NEW shown, NEW known, onPage \subseteq shown, inApp \subseteq known,
         Pairs(rs, given, onPage, inApp)
  PROVE  Pairs(new, later, shown, known)
<1> SUFFICES ASSUME NEW i \in DOMAIN new, NEW j \in DOMAIN new, Next2(new, later, i, j)
             PROVE  /\ new[j].by = "start" => i \in shown
                    /\ new[j].by = "take"  => i \in known
  BY DEF Pairs
<1>1. DOMAIN new = DOMAIN rs /\ \A h \in DOMAIN rs : /\ new[h].who = rs[h].who /\ new[h].key = rs[h].key
                                                     /\ new[h].by = rs[h].by
  BY DEF Kept, Grown
<1>2. \A h \in i + 1 .. j - 1 : h \in DOMAIN rs
  <2>1. DOMAIN new = 1 .. Len(new) /\ Len(new) \in Nat
    BY Numbers DEF Kept
  <2> QED
    BY <1>1, <2>1
<1>3. Next2(rs, given, i, j)
  BY <1>1, <1>2 DEF Next2
<1> QED
  BY <1>1, <1>3 DEF Pairs

\* The rental before the one an attempt opens was seen by its device.
LEMMA BeforeIsSeen ==
  ASSUME NEW rs \in Seq(Row), NEW new, NEW q, Opened(rs, new, q), NEW given, NEW calls, q \in calls, NEW seen,
         NEW k, Single(rs, given, q.as, q.do, calls, seen, k),
         NEW n, n = Len(rs) + 1, NEW i \in DOMAIN rs, Next2(new, given, i, n)
  PROVE  i \in seen
<1>1. new[n].who = q.as /\ new[n].key = q.key /\ new[n].by = q.do /\ ~Known(rs, q.as, q.key)
  BY DEF Opened
<1>2. rs[i].who = q.as /\ rs[i].by = q.do /\ rs[i].key = new[i].key
  BY <1>1 DEF Next2, Opened, Grown
<1>3. q.key \notin given /\ rs[i].key \notin given
  BY <1>1, <1>2 DEF Next2
<1>4. q.key = k
  BY <1>1, <1>3 DEF Single
<1>5. rs[i].key # k
  BY <1>1, <1>2, <1>4 DEF Known, Own
<1>6. Last(rs, q.as, i)
  <2> SUFFICES ASSUME NEW j \in Own(rs, q.as), ~(j <= i) PROVE FALSE
    BY <1>2 DEF Last, Own
  <2>1. j \in Nat /\ i \in Nat /\ j < n /\ n \in Nat
    BY Numbers DEF Own
  <2>2. j \in i + 1 .. n - 1
    BY <2>1
  <2>3. new[j].who = q.as
    BY DEF Opened, Grown, Own
  <2> QED
    BY <1>1, <2>2, <2>3 DEF Next2
<1> QED
  BY <1>2, <1>3, <1>5, <1>6 DEF Single

\* So the pair that a rental makes with the one before is right.
LEMMA PairsOpened ==
  ASSUME NEW rs \in Seq(Row), NEW new, NEW q, Opened(rs, new, q), NEW given, NEW onPage, NEW inApp,
         Pairs(rs, given, onPage, inApp), NEW calls, q \in calls,
         q.do = "start" => \E k : Single(rs, given, q.as, "start", calls, onPage, k),
         q.do = "take" => \E k : Single(rs, given, q.as, "take", calls, inApp, k)
  PROVE  Pairs(new, given, onPage, inApp)
<1> SUFFICES ASSUME NEW i \in DOMAIN new, NEW j \in DOMAIN new, Next2(new, given, i, j)
             PROVE  /\ new[j].by = "start" => i \in onPage
                    /\ new[j].by = "take"  => i \in inApp
  BY DEF Pairs
<1> PICK n : n = Len(rs) + 1
  OBVIOUS
<1>1. /\ DOMAIN new = DOMAIN rs \cup {n} /\ n \in Nat /\ n \notin DOMAIN rs /\ new[n].by = q.do
      /\ \A h \in DOMAIN rs : new[h].who = rs[h].who /\ new[h].key = rs[h].key /\ new[h].by = rs[h].by
      /\ \A h \in DOMAIN rs : h \in Nat /\ h < n /\ h >= 1
      /\ DOMAIN rs = 1 .. n - 1
  BY Numbers DEF Opened, Grown
<1>2. i < j
  BY DEF Next2
<1>3. i \in DOMAIN rs
  <2> SUFFICES ASSUME i = n PROVE FALSE
    BY <1>1
  <2>1. j = n \/ j < n
    BY <1>1
  <2> QED
    BY <1>1, <1>2, <2>1
<1>4. CASE j = n
  <2>1. Next2(new, given, i, n)
    BY <1>4
  <2>2. ASSUME q.do = "start" PROVE i \in onPage
    <3> PICK k : Single(rs, given, q.as, q.do, calls, onPage, k)
      BY <2>2
    <3> QED
      BY <1>3, <2>1, BeforeIsSeen
  <2>3. ASSUME q.do = "take" PROVE i \in inApp
    <3> PICK k : Single(rs, given, q.as, q.do, calls, inApp, k)
      BY <2>3
    <3> QED
      BY <1>3, <2>1, BeforeIsSeen
  <2> QED
    BY <1>1, <1>4, <2>2, <2>3
<1>5. CASE j # n
  <2>1. j \in DOMAIN rs /\ \A h \in i + 1 .. j - 1 : h \in DOMAIN rs
    BY <1>1, <1>3, <1>5
  <2>2. Next2(rs, given, i, j)
    BY <1>1, <1>3, <2>1 DEF Next2
  <2> QED
    BY <1>1, <1>3, <2>1, <2>2 DEF Pairs
<1> QED
  BY <1>4, <1>5

-----------------------------------------------------------------------------
(* What is served.                                                           *)

\* Views, answers and requests stay right while rentals are added.
LEMMA GrownTypes ==
  ASSUME NEW rs, NEW new, Grown(rs, new)
  PROVE  /\ \A c : Own(rs, c) \subseteq Own(new, c) /\ Views(rs, c) \subseteq Views(new, c)
                   /\ Oks(rs, c) \subseteq Oks(new, c)
         /\ \A q : PageCall(rs, q) => PageCall(new, q)
         /\ \A who, q : AppCall(rs, who, q) => AppCall(new, who, q)
<1>1. \A c : Own(rs, c) \subseteq Own(new, c)
  BY DEF Grown, Own
<1>2. \A c : Views(rs, c) \subseteq Views(new, c)
  BY <1>1 DEF Views
<1>3. \A c : Oks(rs, c) \subseteq Oks(new, c)
  BY <1>1, <1>2 DEF Oks
<1>4. \A q : PageCall(rs, q) => PageCall(new, q)
  BY <1>1, <1>3 DEF PageCall
<1>5. \A who, q : AppCall(rs, who, q) => AppCall(new, who, q)
  BY <1>3 DEF AppCall
<1> QED
  BY <1>1, <1>2, <1>3, <1>4, <1>5

\* So do the page,
LEMMA GrownPage ==
  ASSUME NEW rs, NEW new, Grown(rs, new), NEW p, PageOK(rs, p)
  PROVE  PageOK(new, p)
<1>1. /\ p.remote \in Views(new, "web") \cup {None} /\ p.local \in Views(new, "web") \cup {None}
      /\ p.session \in Own(new, "web") \cup {None}
  BY GrownTypes DEF PageOK, PageShape
<1>2. \A q \in p.calls : PageCall(new, q) /\ q.do # "cancel"
  BY GrownTypes DEF PageOK, PageShape
<1>3. p.seen \subseteq DOMAIN new
  BY DEF PageOK, PageShape, Grown
<1> QED
  BY <1>1, <1>2, <1>3 DEF PageOK, PageShape

\* the application
LEMMA GrownApp ==
  ASSUME NEW rs, NEW new, Grown(rs, new), NEW a, AppOK(rs, a)
  PROVE  AppOK(new, a)
<1>1. \A q \in a.calls : AppCall(new, a.who, q) /\ OfPending(a, q)
  BY GrownTypes DEF AppOK
<1>2. a.seen \subseteq DOMAIN new
  BY DEF AppOK, Grown
<1> QED
  BY <1>1, <1>2 DEF AppOK

\* and the requests left behind.
LEMMA GrownGone ==
  ASSUME NEW rs, NEW new, Grown(rs, new), NEW who, NEW g, GoneOK(rs, who, g)
  PROVE  GoneOK(new, who, g)
BY GrownTypes DEF GoneOK

\* Only the page starts, only the application takes.
LEMMA WhoseCall ==
  ASSUME NEW rs, NEW p, NEW a, NEW g, Inv(rs, p, a, g), NEW q \in p.calls \cup a.calls \cup g
  PROVE  /\ q.do = "start" => q \in p.calls \cup g /\ q.as = "web"
         /\ q.do = "take"  => q \in a.calls \cup g /\ q.as \in Customers
<1>1. q \in p.calls => PageCall(rs, q)
  BY DEF Inv, PageOK, PageShape
<1>2. q \in a.calls => AppCall(rs, a.who, q)
  BY DEF Inv, AppOK
<1>3. q \in g => PageCall(rs, q) \/ AppCall(rs, a.who, q)
  BY DEF Inv, GoneOK
<1> QED
  BY <1>1, <1>2, <1>3 DEF PageCall, AppCall

\* The two clients wait as before, for no other answers.
Waiting(p, a, g, p2, a2, g2) ==
  /\ p2.seen = p.seen /\ a2.seen = a.seen /\ p2.dropped = p.dropped /\ a2.dropped = a.dropped
  /\ p2.loaded = p.loaded /\ p2.key = p.key /\ a2.online = a.online /\ a2.who = a.who /\ a2.pending = a.pending
  /\ Fewer(p2.calls \cup g2, p.calls \cup g, "start") /\ Fewer(a2.calls \cup g2, a.calls \cup g, "take")

\* A request served keeps the attempts single, and opens a rental only after the one before was seen.
LEMMA ServedAttempts ==
  ASSUME NEW rs, NEW p, NEW a, NEW g, Inv(rs, p, a, g), NEW q \in p.calls \cup a.calls \cup g,
         NEW new, Kept(rs, new) \/ Opened(rs, new, q),
         NEW p2, NEW a2, NEW g2,
         Waiting(p, a, g, p2, a2, g2)
  PROVE  Attempts(new, p2, a2, g2)
<1> /\ p2.seen = p.seen /\ a2.seen = a.seen /\ p2.dropped = p.dropped /\ a2.dropped = a.dropped
    /\ p2.loaded = p.loaded /\ p2.key = p.key /\ a2.online = a.online /\ a2.who = a.who /\ a2.pending = a.pending
    /\ Fewer(p2.calls \cup g2, p.calls \cup g, "start") /\ Fewer(a2.calls \cup g2, a.calls \cup g, "take")
  BY DEF Waiting
<1> PICK given : given = Given(p, a) /\ given = Given(p2, a2)
  BY DEF Given
<1>0. rs \in Seq(Row)
  BY DEF Inv, RowsOK
<1> Grown(rs, new)
  BY DEF Kept, Opened
<1>1. PageSingle(new, p2, a2, g2)
  <2> PICK k \in Keys \cup {None} : /\ p.loaded => k = p.key
                                    /\ Single(rs, given, "web", "start", p.calls \cup g, p.seen, k)
    BY DEF Inv, Attempts, PageSingle
  <2>1. q.do = "start" => q \in p.calls \cup g
    BY WhoseCall
  <2>2. Single(new, given, "web", "start", p2.calls \cup g2, p.seen, k)
    BY <1>0, <2>1, SingleKept, SingleOpened
  <2>3. ~p2.loaded => Quiet(new, given, "web", "start", p2.calls \cup g2)
    BY QuietKept DEF Inv, Attempts, PageSingle
  <2> QED
    BY <2>2, <2>3 DEF PageSingle
<1>2. ASSUME NEW c \in Customers PROVE AppSingle(new, p2, a2, g2, c)
  <2> PICK k \in Keys \cup {None} : /\ a.online /\ a.who = c => k = TakeKey(a)
                                    /\ Single(rs, given, c, "take", a.calls \cup g, a.seen, k)
    BY DEF Inv, Attempts, AppSingle
  <2>1. q.do = "take" => q \in a.calls \cup g
    BY WhoseCall
  <2>2. Single(new, given, c, "take", a2.calls \cup g2, a.seen, k)
    BY <1>0, <2>1, SingleKept, SingleOpened
  <2>3. TakeKey(a2) = TakeKey(a)
    BY DEF TakeKey
  <2>4. ~a2.online => Quiet(new, given, c, "take", a2.calls \cup g2)
    BY QuietKept DEF Inv, Attempts, AppSingle
  <2> QED
    BY <2>2, <2>3, <2>4 DEF AppSingle
<1>3. Pairs(new, given, p.seen, a.seen)
  <2>1. Pairs(rs, given, p.seen, a.seen)
    BY DEF Inv, Attempts
  <2>2. CASE Kept(rs, new)
    BY <2>1, <2>2, PairsKept
  <2>3. CASE Opened(rs, new, q)
    <3>1. CASE q.do = "start"
      <4>1. q \in p.calls \cup g /\ q.as = "web"
        BY <3>1, WhoseCall
      <4>2. \E k : Single(rs, given, q.as, "start", p.calls \cup g, p.seen, k)
        BY <4>1 DEF Inv, Attempts, PageSingle
      <4> QED
        BY <1>0, <2>1, <2>3, <3>1, <4>1, <4>2, PairsOpened
    <3>2. CASE q.do = "take"
      <4>1. q \in a.calls \cup g /\ q.as \in Customers
        BY <3>2, WhoseCall
      <4>2. \E k : Single(rs, given, q.as, "take", a.calls \cup g, a.seen, k)
        BY <4>1 DEF Inv, Attempts, AppSingle
      <4> QED
        BY <1>0, <2>1, <2>3, <3>2, <4>1, <4>2, PairsOpened
    <3>3. CASE q.do \notin {"start", "take"}
      BY <1>0, <2>1, <2>3, <3>3, PairsOpened
    <3> QED
      BY <3>1, <3>2, <3>3
  <2> QED
    BY <2>2, <2>3
<1> QED
  BY <1>1, <1>2, <1>3 DEF Attempts

-----------------------------------------------------------------------------
(* The routes.                                                               *)

\* A request of either client, at any time.
AnyCall(rs, who, q) == PageCall(rs, q) \/ AppCall(rs, who, q)
Told(rs, q) == (IF q.do = "claim" THEN {[ok |-> TRUE]} ELSE Oks(rs, q.as)) \cup {Failure}
\* What a route may do to the rentals, and answer.
Right(q, who, o) ==
  /\ Kept(rentals, o.rentals) \/ Opened(rentals, o.rentals, q)
  /\ RowsOK(o.rentals, who) /\ o.answer \in Told(o.rentals, q)

\* What an answer tells of a rental of the customer who asks.
LEMMA OkIs ==
  ASSUME NEW rs \in Seq(Row), NEW c, NEW i \in Own(rs, c)
  PROVE  Ok(rs, i) \in Oks(rs, c)
<1>1. rs[i].state \in States
  BY Numbers DEF Own, Row
<1> QED
  BY <1>1 DEF Ok, Rental, Oks, Views

\* A rental that moves to a state, and is not opened again.
LEMMA BecameKept ==
  ASSUME NEW rs \in Seq(Row), rs = rentals, NEW i \in DOMAIN rs, NEW s \in States,
         s \in OpenStates => rs[i].state \in OpenStates
  PROVE  Kept(rs, Became(i, s)) /\ Became(i, s) \in Seq(Row)
<1> DEFINE row == [rs[i] EXCEPT !.state = s, !.intent = "open"]
           new == [rs EXCEPT ![i] = row]
<1>1. rs[i] \in Row
  BY Numbers
<1>2. row \in Row /\ row.who = rs[i].who /\ row.key = rs[i].key /\ row.by = rs[i].by /\ row.state = s
  BY <1>1 DEF Row
<1>3. Became(i, s) = new
  BY <1>1 DEF Became, Row
<1> HIDE DEF row
<1>4. new \in Seq(Row)
  BY <1>2, ExceptSeq
<1>5. DOMAIN new = DOMAIN rs /\ new[i] = row /\ \A j \in DOMAIN rs \ {i} : new[j] = rs[j]
  OBVIOUS
<1> HIDE DEF new
<1>6. Kept(rs, new)
  BY <1>2, <1>4, <1>5 DEF Kept, Grown
<1> QED
  BY <1>3, <1>4, <1>6

\* A route that only answers,
LEMMA SaidIs ==
  ASSUME NEW who, RowsOK(rentals, who), NEW q, NEW answer \in Told(rentals, q)
  PROVE  Right(q, who, Said(answer))
<1>1. Said(answer).rentals = rentals /\ Said(answer).answer = answer
  BY DEF Said
<1>2. Kept(rentals, rentals)
  BY KeptSelf DEF RowsOK
<1> QED
  BY <1>1, <1>2 DEF Right

\* one that moves a rental of the customer who asks,
LEMMA WroteIs ==
  ASSUME NEW who, RowsOK(rentals, who), NEW q, q.do # "claim", NEW i \in Own(rentals, q.as), NEW s \in States,
         s \in OpenStates => rentals[i].state \in OpenStates
  PROVE  Right(q, who, Wrote(Became(i, s), i))
<1> PICK rs \in Seq(Row) : rs = rentals
  BY DEF RowsOK
<1> PICK new : new = Became(i, s)
  OBVIOUS
<1>1. Kept(rs, new) /\ new \in Seq(Row)
  BY BecameKept DEF Own
<1>2. RowsOK(new, who)
  BY <1>1, KeptRows
<1>3. i \in Own(new, q.as)
  BY <1>1, KeptOwn
<1>4. Ok(new, i) \in Told(new, q)
  BY <1>1, <1>3, OkIs DEF Told
<1>5. Wrote(new, i).rentals = new /\ Wrote(new, i).answer = Ok(new, i)
  BY DEF Wrote
<1> QED
  BY <1>1, <1>2, <1>4, <1>5 DEF Right

\* create, which finds the rental of the key or the open one before it opens another,
LEMMA StartIs ==
  ASSUME NEW who, RowsOK(rentals, who), NEW q, AnyCall(rentals, who, q), q.do \in {"start", "resume", "take"},
         NEW o \in Start(q)
  PROVE  Right(q, who, o)
<1> PICK rs \in Seq(Row) : rs = rentals
  BY DEF RowsOK
<1> DEFINE known == {i \in Ids(q.as) : rs[i].key = q.key}
           open  == {i \in Ids(q.as) : rs[i].state \in OpenStates}
           row(s) == [who |-> q.as, at |-> q.at, key |-> q.key, by |-> q.do, state |-> s, intent |-> "open"]
<1>0. Ids(q.as) = Own(rs, q.as)
  BY DEF Ids, Own
<1>1. /\ q.key \in Keys /\ q.at \in Stations /\ q.as \in Customers
      /\ q.do \in {"start", "resume"} => q.as = "web"
      /\ q.do = "take" /\ q.as = "web" => who = "web"
  BY DEF AnyCall, PageCall, AppCall, Customers
<1>2. Failure \in Told(rs, q)
  BY DEF Told
<1>3. CASE known \cup open # {}
  <2> PICK i : i = CHOOSE j \in (IF known # {} THEN known ELSE open) : TRUE
    OBVIOUS
  <2>1. i \in Own(rs, q.as)
    BY <1>0, <1>3
  <2>2. o = Said(IF rs[i].at = q.at THEN Ok(rs, i) ELSE Failure)
    BY <1>3 DEF Start
  <2>3. Ok(rs, i) \in Told(rs, q)
    BY <2>1, OkIs DEF Told
  <2> QED
    BY <1>2, <2>2, <2>3, SaidIs
<1>4. CASE known \cup open = {}
  <2>1. \/ o = Said(Failure)
        \/ \E s \in {"CREATED", "CLOSED", "ACTIVE"} : o = Wrote(Append(rs, row(s)), Len(rs) + 1)
    BY <1>4 DEF Start
  <2>2. ASSUME NEW s \in {"CREATED", "CLOSED", "ACTIVE"}, o = Wrote(Append(rs, row(s)), Len(rs) + 1)
        PROVE  Right(q, who, o)
    <3> PICK n : n = Len(rs) + 1
      OBVIOUS
    <3> PICK new : new = Append(rs, row(s))
      OBVIOUS
    <3>1. row(s) \in Row
      BY <1>1 DEF Row, States, OpenStates
    <3>2. /\ new \in Seq(Row) /\ Len(new) = n /\ new[n] = row(s) /\ \A i \in 1 .. Len(rs) : new[i] = rs[i]
      BY <3>1, AppendProperties
    <3>3. DOMAIN new = 1 .. n /\ DOMAIN rs = 1 .. Len(rs) /\ Len(rs) \in Nat
      BY <3>2, Numbers
    <3>4. DOMAIN new = DOMAIN rs \cup {n}
      BY <3>3
    <3>5. ~Known(rs, q.as, q.key) /\ \A i \in Own(rs, q.as) : rs[i].state \notin OpenStates
      BY <1>0, <1>4 DEF Known
    <3>6. Opened(rs, new, q)
      BY <3>2, <3>3, <3>4, <3>5 DEF Opened, Grown
    <3>7. RowsOK(new, who)
      BY <1>1, <3>6, OpenedRows
    <3>8. n \in Own(new, q.as)
      BY <3>2, <3>3, <3>4 DEF Own
    <3>9. Ok(new, n) \in Told(new, q)
      BY <3>2, <3>8, OkIs DEF Told
    <3>10. o.rentals = new /\ o.answer = Ok(new, n)
      BY <2>2 DEF Wrote
    <3> QED
      BY <3>6, <3>7, <3>9, <3>10 DEF Right
  <2> QED
    BY <1>2, <2>1, <2>2, SaidIs
<1> QED
  BY <1>3, <1>4

\* and any route: nobody is told of the rental of another, and one rental at most is opened.
LEMMA OutcomeIs ==
  ASSUME NEW who, RowsOK(rentals, who), NEW q, AnyCall(rentals, who, q), NEW o \in Outcomes(q) \cup {Said(Failure)}
  PROVE  Right(q, who, o)
<1> PICK rs \in Seq(Row) : rs = rentals
  BY DEF RowsOK
<1>1. Failure \in Told(rs, q)
  BY DEF Told
<1>2. CASE o = Said(Failure)
  BY <1>1, <1>2, SaidIs
<1>3. CASE q.do \in {"start", "resume", "take"} /\ o \in Outcomes(q)
  BY <1>3, StartIs DEF Outcomes
<1>4. CASE q.do = "confirm" /\ o \in Outcomes(q)
  <2>1. o \in Confirm(q) /\ q.as = "web" /\ q.rental \in Own(rs, q.as)
    BY <1>4 DEF Outcomes, AnyCall, PageCall, AppCall
  <2>2. Ok(rs, q.rental) \in Told(rs, q)
    BY <1>4, <2>1, OkIs DEF Told
  <2>3. CASE rs[q.rental].state # "CREATED" \/ rs[q.rental].intent # "held"
    BY <1>1, <2>1, <2>2, <2>3, SaidIs DEF Confirm
  <2>4. CASE rs[q.rental].state = "CREATED" /\ rs[q.rental].intent = "held"
    <3>1. PICK s \in {"ACTIVE", "CLOSED"} : o = Wrote(Became(q.rental, s), q.rental)
      BY <2>1, <2>4 DEF Confirm
    <3>2. s \in States /\ rs[q.rental].state \in OpenStates
      BY <2>4 DEF States, OpenStates
    <3> QED
      BY <1>4, <2>1, <3>1, <3>2, WroteIs
  <2> QED
    BY <2>3, <2>4
<1>5. CASE q.do = "cancel" /\ o \in Outcomes(q)
  <2>1. o \in Cancel(q) /\ q.as = "web" /\ q.rental \in Own(rs, q.as)
    BY <1>5 DEF Outcomes, AnyCall, PageCall, AppCall
  <2>2. Ok(rs, q.rental) \in Told(rs, q)
    BY <1>5, <2>1, OkIs DEF Told
  <2>3. "CLOSED" \in States /\ "CLOSED" \notin OpenStates
    BY DEF States, OpenStates
  <2>4. o = Said(Ok(rs, q.rental)) \/ o = Wrote(Became(q.rental, "CLOSED"), q.rental)
    BY <2>1 DEF Cancel
  <2> QED
    BY <1>5, <2>1, <2>2, <2>3, <2>4, SaidIs, WroteIs
<1>6. CASE q.do = "return" /\ o \in Outcomes(q)
  <2> DEFINE open == {i \in Ids(q.as) : rs[i].state \in OpenStates}
  <2>0. Ids(q.as) = Own(rs, q.as)
    BY DEF Ids, Own
  <2>1. o = (IF open = {} THEN Said(Failure) ELSE Wrote(Became(Max(open), "COMPLETED"), Max(open)))
    BY <1>6 DEF Outcomes, Return
  <2>2. CASE open = {}
    BY <1>1, <2>1, <2>2, SaidIs
  <2>3. CASE open # {}
    <3> PICK i \in open : TRUE
      BY <2>3
    <3>1. \A j \in open : j \in Own(rs, q.as) /\ Last(rs, q.as, j)
      BY <2>0 DEF RowsOK, OpenIsLast, Own
    <3>2. \A j \in open : j <= i
      BY <3>1 DEF Last
    <3>3. open \in SUBSET Nat
      BY <2>0, Numbers DEF Own
    <3> HIDE DEF open
    <3>4. Max(open) = i
      BY <3>2, <3>3, MaxIs
    <3>5. "COMPLETED" \in States /\ "COMPLETED" \notin OpenStates
      BY DEF States, OpenStates
    <3> QED
      BY <1>6, <2>1, <2>3, <3>1, <3>4, <3>5, WroteIs
  <2> QED
    BY <2>2, <2>3
<1>7. CASE q.do = "claim" /\ o \in Outcomes(q)
  <2>0. o \in Claim
    BY <1>7 DEF Outcomes
  <2> DEFINE spent == [rentals |-> rentals, link |-> "spent", answer |-> [ok |-> TRUE]]
  <2>4. o = Said(Failure) \/ o = spent
    <3> HIDE DEF spent
    <3>1. Claim = {IF link # "ready" THEN Said(Failure) ELSE spent}
      BY DEF Claim, spent
    <3> QED
      BY <2>0, <3>1
  <2>5. spent.rentals = rs /\ spent.answer = [ok |-> TRUE]
    OBVIOUS
  <2>1. o = Said(Failure) \/ (o.rentals = rs /\ o.answer = [ok |-> TRUE])
    <3> HIDE DEF spent
    <3> QED
      BY <2>4, <2>5
  <2>2. [ok |-> TRUE] \in Told(rs, q) /\ Kept(rs, rs)
    BY <1>7, KeptSelf DEF Told
  <2> QED
    BY <1>1, <2>1, <2>2, SaidIs DEF Right
<1> QED
  BY <1>2, <1>3, <1>4, <1>5, <1>6, <1>7 DEF AnyCall, PageCall, AppCall

\* Two pages with the same rental, session and flags.
Alike(p, p2) ==
  /\ p2.loaded = p.loaded /\ p2.remote = p.remote /\ p2.local = p.local
  /\ p2.session = p.session /\ p2.busy = p.busy /\ p2.dismissed = p.dismissed

\* What the customer sees depends on nothing else.
LEMMA LooksAlike ==
  ASSUME NEW p, NEW p2, Alike(p, p2)
  PROVE  Shown(p2) = Shown(p) /\ View(p2) = View(p)
<1> /\ p2.loaded = p.loaded /\ p2.remote = p.remote /\ p2.local = p.local
    /\ p2.session = p.session /\ p2.busy = p.busy /\ p2.dismissed = p.dismissed
  BY DEF Alike
<1>1. Shown(p2) = Shown(p)
  BY DEF Shown
<1> QED
  BY <1>1 DEF View

\* A request answered is still a request of its client.
LEMMA Answering ==
  ASSUME NEW q, NEW who, NEW o, Right(q, who, o), NEW q2, q2 = [q EXCEPT !.answer = o.answer]
  PROVE  /\ Grown(rentals, o.rentals)
         /\ PageCall(rentals, q) => PageCall(o.rentals, q2)
         /\ AppCall(rentals, who, q) => AppCall(o.rentals, who, q2)
<1>1. Grown(rentals, o.rentals)
  BY DEF Right, Kept, Opened
<1>2. ASSUME DOMAIN q = Fields
      PROVE  /\ DOMAIN q2 = Fields /\ q2.answer = o.answer /\ q2.do = q.do /\ q2.as = q.as /\ q2.at = q.at
             /\ q2.key = q.key /\ q2.rental = q.rental
  BY <1>2 DEF Fields
<1>3. o.answer \in Told(o.rentals, q)
  BY DEF Right
<1>4. ASSUME PageCall(rentals, q) PROVE PageCall(o.rentals, q2)
  <2>1. PageCall(o.rentals, q)
    BY <1>1, <1>4, GrownTypes
  <2>2. DOMAIN q = Fields /\ o.answer \in Oks(o.rentals, "web") \cup {Failure}
    BY <1>3, <1>4 DEF PageCall, Told
  <2> QED
    BY <1>2, <2>1, <2>2 DEF PageCall
<1>5. ASSUME AppCall(rentals, who, q) PROVE AppCall(o.rentals, who, q2)
  <2>1. AppCall(o.rentals, who, q)
    BY <1>1, <1>5, GrownTypes
  <2>2. DOMAIN q = Fields
    BY <1>5 DEF AppCall
  <2> QED
    BY <1>2, <1>3, <2>1, <2>2 DEF AppCall, Told
<1> QED
  BY <1>1, <1>4, <1>5

\* A request of the page is served.
LEMMA ServePageKeeps ==
  ASSUME CustomerInv, ServePage
  PROVE  CustomerInv'
<1> PICK q \in page.calls : \E o \in Outcomes(q) :
      /\ q.answer = None /\ rentals' = o.rentals
      /\ page' = [page EXCEPT !.calls = Answered(@, q, o)] /\ app' = app /\ gone' = gone
  BY DEF ServePage, Unserved, Did
<1> PICK o \in Outcomes(q) :
      /\ q.answer = None /\ rentals' = o.rentals
      /\ page' = [page EXCEPT !.calls = Answered(@, q, o)] /\ app' = app /\ gone' = gone
  OBVIOUS
<1> PICK new : new = rentals'
  OBVIOUS
<1> PICK p2 : p2 = page'
  OBVIOUS
<1> PICK q2 : q2 = [q EXCEPT !.answer = o.answer]
  OBVIOUS
<1>0. RowsOK(rentals, app.who) /\ PageOK(rentals, page) /\ AppOK(rentals, app) /\ GoneOK(rentals, app.who, gone)
  BY DEF CustomerInv, Inv
<1>1. PageCall(rentals, q) /\ q.do # "cancel" /\ page.loaded
  BY <1>0 DEF PageOK, PageShape, Empty
<1>2. Right(q, app.who, o)
  BY <1>0, <1>1, OutcomeIs DEF AnyCall
<1>3. Grown(rentals, new) /\ PageCall(new, q2) /\ RowsOK(new, app.who)
  BY <1>1, <1>2, Answering DEF Right
<1>4. q2.do = q.do /\ q2.as = q.as /\ q2.key = q.key
  BY <1>1 DEF PageCall, Fields
<1>5. /\ DOMAIN p2 = PageFields /\ p2.calls = (page.calls \ {q}) \cup {q2}
      /\ \A f \in PageFields \ {"calls"} : p2[f] = page[f]
  BY <1>0 DEF PageOK, PageShape, PageFields, Answered
<1>6. /\ p2.loaded = page.loaded /\ p2.remote = page.remote /\ p2.local = page.local
      /\ p2.session = page.session /\ p2.busy = page.busy /\ p2.dismissed = page.dismissed
      /\ p2.key = page.key /\ p2.n = page.n /\ p2.seen = page.seen /\ p2.dropped = page.dropped
  BY <1>5 DEF PageFields
<1>7. PageOK(new, p2)
  <2>1. PageOK(new, page)
    BY <1>0, <1>3, GrownPage
  <2>2. Displayed(p2)
    <3>1. Shown(p2) = Shown(page) /\ View(p2) = View(page)
      BY <1>6, LooksAlike DEF Alike
    <3> QED
      BY <1>6, <2>1, <3>1 DEF PageOK, Displayed
  <2> QED
    BY <1>1, <1>3, <1>4, <1>5, <1>6, <2>1, <2>2 DEF PageOK, PageShape
<1>8. AppOK(new, app) /\ GoneOK(new, app.who, gone)
  BY <1>0, <1>3, GrownApp, GrownGone
<1>9. Attempts(new, p2, app, gone)
  <2>1. Fewer(p2.calls \cup gone, page.calls \cup gone, "start")
    <3> SUFFICES ASSUME NEW r \in p2.calls \cup gone, r.do = "start"
                 PROVE  \E s \in page.calls \cup gone : s.do = "start" /\ s.as = r.as /\ s.key = r.key
      BY DEF Fewer
    <3>1. CASE r = q2
      BY <1>4, <3>1
    <3>2. CASE r \in page.calls \cup gone
      BY <3>2
    <3> QED
      BY <1>5, <3>1, <3>2
  <2>2. Fewer(app.calls \cup gone, app.calls \cup gone, "take")
    BY DEF Fewer
  <2>3. Kept(rentals, new) \/ Opened(rentals, new, q)
    BY <1>2 DEF Right
  <2>4. Inv(rentals, page, app, gone)
    BY DEF CustomerInv
  <2>5. Waiting(page, app, gone, p2, app, gone)
    BY <1>6, <2>1, <2>2 DEF Waiting
  <2> QED
    BY <2>3, <2>4, <2>5, ServedAttempts
<1> QED
  BY <1>3, <1>7, <1>8, <1>9 DEF CustomerInv, Inv

\* A request of the application is served.
LEMMA ServeAppKeeps ==
  ASSUME CustomerInv, ServeApp
  PROVE  CustomerInv'
<1> PICK q \in app.calls : \E o \in Outcomes(q) :
      /\ q.answer = None /\ rentals' = o.rentals
      /\ app' = [app EXCEPT !.calls = Answered(@, q, o)] /\ page' = page /\ gone' = gone
  BY DEF ServeApp, Unserved, Did
<1> PICK o \in Outcomes(q) :
      /\ q.answer = None /\ rentals' = o.rentals
      /\ app' = [app EXCEPT !.calls = Answered(@, q, o)] /\ page' = page /\ gone' = gone
  OBVIOUS
<1> PICK new : new = rentals'
  OBVIOUS
<1> PICK a2 : a2 = app'
  OBVIOUS
<1> PICK q2 : q2 = [q EXCEPT !.answer = o.answer]
  OBVIOUS
<1>0. RowsOK(rentals, app.who) /\ PageOK(rentals, page) /\ AppOK(rentals, app) /\ GoneOK(rentals, app.who, gone)
  BY DEF CustomerInv, Inv
<1>1. AppCall(rentals, app.who, q) /\ OfPending(app, q) /\ app.calls = {q}
  BY <1>0 DEF AppOK
<1>2. Right(q, app.who, o)
  BY <1>0, <1>1, OutcomeIs DEF AnyCall
<1>3. Grown(rentals, new) /\ AppCall(new, app.who, q2) /\ RowsOK(new, app.who)
  BY <1>1, <1>2, Answering DEF Right
<1>4. q2.do = q.do /\ q2.as = q.as /\ q2.key = q.key
  BY <1>1 DEF AppCall, Fields
<1>5. /\ DOMAIN a2 = AppFields /\ a2.calls = {q2}
      /\ \A f \in AppFields \ {"calls"} : a2[f] = app[f]
  BY <1>0, <1>1 DEF AppOK, AppFields, Answered
<1>6. /\ a2.who = app.who /\ a2.rental = app.rental /\ a2.pending = app.pending /\ a2.online = app.online
      /\ a2.n = app.n /\ a2.seen = app.seen /\ a2.dropped = app.dropped
  BY <1>5 DEF AppFields
<1>7. AppOK(new, a2)
  <2>1. AppOK(new, app)
    BY <1>0, <1>3, GrownApp
  <2>2. OfPending(a2, q2)
    BY <1>1, <1>4, <1>6 DEF OfPending
  <2> QED
    BY <1>3, <1>5, <1>6, <2>1, <2>2 DEF AppOK
<1>8. PageOK(new, page) /\ GoneOK(new, app.who, gone)
  BY <1>0, <1>3, GrownPage, GrownGone
<1>9. Attempts(new, page, a2, gone)
  <2>1. Fewer(page.calls \cup gone, page.calls \cup gone, "start")
    BY DEF Fewer
  <2>2. Fewer(a2.calls \cup gone, app.calls \cup gone, "take")
    <3> SUFFICES ASSUME NEW r \in a2.calls \cup gone, r.do = "take"
                 PROVE  \E s \in app.calls \cup gone : s.do = "take" /\ s.as = r.as /\ s.key = r.key
      BY DEF Fewer
    <3>1. CASE r = q2
      BY <1>4, <3>1
    <3>2. CASE r \in app.calls \cup gone
      BY <3>2
    <3> QED
      BY <1>5, <3>1, <3>2
  <2>3. Kept(rentals, new) \/ Opened(rentals, new, q)
    BY <1>2 DEF Right
  <2>4. Inv(rentals, page, app, gone)
    BY DEF CustomerInv
  <2>5. Waiting(page, app, gone, page, a2, gone)
    BY <1>6, <2>1, <2>2 DEF Waiting
  <2> QED
    BY <2>3, <2>4, <2>5, ServedAttempts
<1> QED
  BY <1>3, <1>6, <1>7, <1>8, <1>9 DEF CustomerInv, Inv

\* A request whose sender is gone is served, late, or never.
LEMMA ServeGoneKeeps ==
  ASSUME CustomerInv, ServeGone
  PROVE  CustomerInv'
<1> PICK q \in gone : \E o \in Outcomes(q) \cup {Said(Failure)} :
      rentals' = o.rentals /\ gone' = gone \ {q} /\ page' = page /\ app' = app
  BY DEF ServeGone, Did
<1> PICK o \in Outcomes(q) \cup {Said(Failure)} :
      rentals' = o.rentals /\ gone' = gone \ {q} /\ page' = page /\ app' = app
  OBVIOUS
<1> PICK new : new = rentals'
  OBVIOUS
<1> PICK g2 : g2 = gone'
  OBVIOUS
<1>0. RowsOK(rentals, app.who) /\ PageOK(rentals, page) /\ AppOK(rentals, app) /\ GoneOK(rentals, app.who, gone)
  BY DEF CustomerInv, Inv
<1>1. AnyCall(rentals, app.who, q)
  BY <1>0 DEF GoneOK, AnyCall
<1>2. Right(q, app.who, o)
  BY <1>0, <1>1, OutcomeIs
<1>3. Grown(rentals, new) /\ RowsOK(new, app.who)
  BY <1>2, Answering DEF Right
<1>4. PageOK(new, page) /\ AppOK(new, app) /\ GoneOK(new, app.who, gone)
  BY <1>0, <1>3, GrownPage, GrownApp, GrownGone
<1>5. GoneOK(new, app.who, g2)
  BY <1>4 DEF GoneOK
<1>6. Attempts(new, page, app, g2)
  <2>1. Fewer(page.calls \cup g2, page.calls \cup gone, "start")
    BY DEF Fewer
  <2>2. Fewer(app.calls \cup g2, app.calls \cup gone, "take")
    BY DEF Fewer
  <2>3. Kept(rentals, new) \/ Opened(rentals, new, q)
    BY <1>2 DEF Right
  <2>4. Inv(rentals, page, app, gone)
    BY DEF CustomerInv
  <2>5. Waiting(page, app, gone, page, app, g2)
    BY <2>1, <2>2 DEF Waiting
  <2> QED
    BY <2>3, <2>4, <2>5, ServedAttempts
<1> QED
  BY <1>3, <1>4, <1>5, <1>6 DEF CustomerInv, Inv

-----------------------------------------------------------------------------
(* Steps that open no rental.                                                *)

\* The page keeps its one attempt.
LEMMA KeptPageSingle ==
  ASSUME NEW rs, NEW new, Kept(rs, new), NEW p, NEW a, NEW g, PageSingle(rs, p, a, g),
         NEW p2, NEW a2, NEW g2, Given(p, a) \subseteq Given(p2, a2), p.seen \subseteq p2.seen,
         p2.loaded = p.loaded, p2.loaded => p2.key = p.key, Fewer(p2.calls \cup g2, p.calls \cup g, "start")
  PROVE  PageSingle(new, p2, a2, g2)
<1> PICK k \in Keys \cup {None} : /\ p.loaded => k = p.key
                                  /\ Single(rs, Given(p, a), "web", "start", p.calls \cup g, p.seen, k)
  BY DEF PageSingle
<1>1. Single(new, Given(p2, a2), "web", "start", p2.calls \cup g2, p2.seen, k)
  BY SingleKept
<1>2. ~p2.loaded => Quiet(new, Given(p2, a2), "web", "start", p2.calls \cup g2)
  BY QuietKept DEF PageSingle, Kept
<1> QED
  BY <1>1, <1>2 DEF PageSingle

\* The application keeps its one attempt, for each customer it acted for.
LEMMA KeptAppSingle ==
  ASSUME NEW rs, NEW new, Kept(rs, new), NEW p, NEW a, NEW g, NEW c, AppSingle(rs, p, a, g, c),
         NEW p2, NEW a2, NEW g2, Given(p, a) \subseteq Given(p2, a2), a.seen \subseteq a2.seen,
         a2.online /\ a2.who = c => a.online /\ a.who = c /\ TakeKey(a2) = TakeKey(a),
         a.online => a2.online, Fewer(a2.calls \cup g2, a.calls \cup g, "take")
  PROVE  AppSingle(new, p2, a2, g2, c)
<1> PICK k \in Keys \cup {None} : /\ a.online /\ a.who = c => k = TakeKey(a)
                                  /\ Single(rs, Given(p, a), c, "take", a.calls \cup g, a.seen, k)
  BY DEF AppSingle
<1>1. Single(new, Given(p2, a2), c, "take", a2.calls \cup g2, a2.seen, k)
  BY SingleKept
<1>2. ~a2.online => Quiet(new, Given(p2, a2), c, "take", a2.calls \cup g2)
  BY QuietKept DEF AppSingle, Kept
<1> QED
  BY <1>1, <1>2 DEF AppSingle

\* What a step must do to the attempts when it opens none and ends none.
LEMMA KeptAttempts ==
  ASSUME NEW rs, NEW new, Kept(rs, new), NEW p, NEW a, NEW g, Attempts(rs, p, a, g),
         NEW p2, NEW a2, NEW g2, Given(p, a) \subseteq Given(p2, a2),
         p.seen \subseteq p2.seen, a.seen \subseteq a2.seen,
         p2.loaded = p.loaded, p2.loaded => p2.key = p.key,
         a2.online = a.online, a2.online => TakeKey(a2) = TakeKey(a), a2.who = a.who,
         Fewer(p2.calls \cup g2, p.calls \cup g, "start"), Fewer(a2.calls \cup g2, a.calls \cup g, "take")
  PROVE  Attempts(new, p2, a2, g2)
<1>1. PageSingle(new, p2, a2, g2)
  BY KeptPageSingle DEF Attempts
<1>2. \A c \in Customers : AppSingle(new, p2, a2, g2, c)
  BY KeptAppSingle DEF Attempts
<1>3. Pairs(new, Given(p2, a2), p2.seen, a2.seen)
  BY PairsKept DEF Attempts
<1> QED
  BY <1>1, <1>2, <1>3 DEF Attempts

\* The clients are where they were.
LEMMA RentalsMove ==
  ASSUME CustomerInv, Kept(rentals, rentals'), page' = page, app' = app, gone' = gone
  PROVE  CustomerInv'
<1> PICK new : new = rentals'
  OBVIOUS
<1>0. /\ RowsOK(rentals, app.who) /\ PageOK(rentals, page) /\ AppOK(rentals, app) /\ GoneOK(rentals, app.who, gone)
      /\ Attempts(rentals, page, app, gone)
  BY DEF CustomerInv, Inv
<1>1. Grown(rentals, new) /\ RowsOK(new, app.who)
  BY <1>0, KeptRows DEF Kept
<1>2. PageOK(new, page) /\ AppOK(new, app) /\ GoneOK(new, app.who, gone)
  BY <1>0, <1>1, GrownPage, GrownApp, GrownGone
<1>3. Fewer(page.calls \cup gone, page.calls \cup gone, "start") /\ Fewer(app.calls \cup gone, app.calls \cup gone, "take")
  BY DEF Fewer
<1>4. Attempts(new, page, app, gone)
  BY <1>0, <1>3, KeptAttempts
<1> QED
  BY <1>1, <1>2, <1>4 DEF CustomerInv, Inv

\* The card changes nothing of a rental but its intent.
LEMMA IntentKept ==
  ASSUME NEW rs \in Seq(Row), rs = rentals, NEW i \in DOMAIN rs, NEW s \in {"open", "processing", "held"}
  PROVE  Kept(rs, [rentals EXCEPT ![i].intent = s])
<1> DEFINE row == [rs[i] EXCEPT !.intent = s]
           new == [rs EXCEPT ![i] = row]
<1>1. rs[i] \in Row
  BY Numbers
<1>2. row \in Row /\ row.who = rs[i].who /\ row.key = rs[i].key /\ row.by = rs[i].by /\ row.state = rs[i].state
  BY <1>1 DEF Row
<1>3. [rentals EXCEPT ![i].intent = s] = new
  OBVIOUS
<1> HIDE DEF row
<1>4. new \in Seq(Row)
  BY <1>2, ExceptSeq
<1>5. DOMAIN new = DOMAIN rs /\ new[i] = row /\ \A j \in DOMAIN rs \ {i} : new[j] = rs[j]
  OBVIOUS
<1> HIDE DEF new
<1>6. Kept(rs, new)
  BY <1>2, <1>4, <1>5 DEF Kept, Grown
<1> QED
  BY <1>3, <1>6

\* Expiry, a battery given back, the end of a card, the link.
LEMMA RoutesKeep ==
  ASSUME CustomerInv, Expire \/ GiveBack \/ Settle \/ Handoff \/ LinkEnds
  PROVE  CustomerInv'
<1> PICK rs \in Seq(Row) : rs = rentals
  BY DEF CustomerInv, Inv, RowsOK
<1>1. CASE Expire \/ GiveBack
  <2>1. PICK i \in DOMAIN rs, s \in {"CLOSED", "COMPLETED"} :
          rentals' = Became(i, s) /\ page' = page /\ app' = app /\ gone' = gone
    BY <1>1 DEF Expire, GiveBack
  <2>2. s \in States /\ s \notin OpenStates
    BY DEF States, OpenStates
  <2> QED
    BY <2>1, <2>2, BecameKept, RentalsMove
<1>2. CASE Settle
  <2>1. PICK i \in DOMAIN rs, s \in {"held", "open"} :
          rentals' = [rentals EXCEPT ![i].intent = s] /\ page' = page /\ app' = app /\ gone' = gone
    BY <1>2 DEF Settle
  <2> QED
    BY <2>1, IntentKept, RentalsMove
<1>3. CASE Handoff \/ LinkEnds
  <2>1. rentals' = rentals /\ page' = page /\ app' = app /\ gone' = gone
    BY <1>3 DEF Handoff, LinkEnds
  <2> QED
    BY <2>1, KeptSelf, RentalsMove
<1> QED
  BY <1>1, <1>2, <1>3

-----------------------------------------------------------------------------
(* The page.                                                                 *)

\* What the effect after a change may do: show a rental, and ask again for its card.
Dressed(p, r) ==
  /\ DOMAIN r = PageFields /\ r.loaded = p.loaded /\ r.remote = p.remote /\ r.local = p.local
  /\ r.session = p.session /\ r.key = p.key /\ r.dismissed = p.dismissed /\ r.busy = p.busy
  /\ r.dropped = p.dropped /\ r.n \in Nat /\ p.seen \subseteq r.seen
  /\ \A i \in r.seen : i \in p.seen \/ (Shown(p) # None /\ i = Shown(p).id)
  /\ \A q \in r.calls : q \in p.calls \/ q = Call("resume", "web", Here, <<"page", p.n + 1>>, None)
  /\ Displayed(r)

\* The effect does no more than that.
LEMMA RenderedIs ==
  ASSUME NEW p, DOMAIN p = PageFields, p.n \in Nat
  PROVE  Dressed(p, Rendered(p))
<1> PICK q : q = (IF View(p) \in {"loading", "busy"} \/ Shown(p) = None THEN p
                  ELSE [p EXCEPT !.seen = @ \cup {Shown(p).id}])
  OBVIOUS
<1> PICK call : call = Call("resume", "web", Here, <<"page", p.n + 1>>, None)
  OBVIOUS
<1> PICK r : r = Rendered(p)
  OBVIOUS
<1>1. /\ DOMAIN q = PageFields /\ q.loaded = p.loaded /\ q.remote = p.remote /\ q.local = p.local
      /\ q.session = p.session /\ q.key = p.key /\ q.dismissed = p.dismissed /\ q.busy = p.busy
      /\ q.dropped = p.dropped /\ q.n = p.n /\ q.calls = p.calls
  BY DEF PageFields
<1>2. /\ p.seen \subseteq q.seen
      /\ \A i \in q.seen : i \in p.seen \/ (Shown(p) # None /\ i = Shown(p).id)
      /\ View(p) \notin {"loading", "busy"} /\ Shown(p) # None => Shown(p).id \in q.seen
  BY DEF PageFields
<1>3. r = q \/ r = Send([q EXCEPT !.resumed = TRUE, !.n = @ + 1], "resume", Fresh(q), None)
  BY DEF Rendered
<1>4. CASE r = q
  <2>1. Shown(q) = Shown(p) /\ View(q) = View(p)
    BY <1>1, LooksAlike DEF Alike
  <2>2. Displayed(r)
    BY <1>2, <1>4, <2>1 DEF Displayed
  <2> QED
    BY <1>1, <1>2, <1>4, <2>2 DEF Dressed
<1>5. CASE r = Send([q EXCEPT !.resumed = TRUE, !.n = @ + 1], "resume", Fresh(q), None)
  <2> PICK m : m = [q EXCEPT !.resumed = TRUE, !.n = @ + 1]
    OBVIOUS
  <2>1. /\ DOMAIN m = PageFields /\ m.n = p.n + 1 /\ m.calls = p.calls
        /\ \A f \in PageFields \ {"n", "resumed"} : m[f] = q[f]
    BY <1>1 DEF PageFields
  <2>2. r = [m EXCEPT !.calls = @ \cup {call}]
    BY <1>1, <1>5 DEF Send, Fresh
  <2>3. /\ DOMAIN r = PageFields /\ r.calls = p.calls \cup {call}
        /\ \A f \in PageFields \ {"calls"} : r[f] = m[f]
    BY <2>1, <2>2 DEF PageFields
  <2>4. /\ r.loaded = q.loaded /\ r.remote = q.remote /\ r.local = q.local
        /\ r.session = q.session /\ r.key = q.key /\ r.dismissed = q.dismissed /\ r.busy = q.busy
        /\ r.dropped = q.dropped /\ r.n = p.n + 1 /\ r.seen = q.seen
    <3>1. /\ m.loaded = q.loaded /\ m.remote = q.remote /\ m.local = q.local
          /\ m.session = q.session /\ m.key = q.key /\ m.dismissed = q.dismissed /\ m.busy = q.busy
          /\ m.dropped = q.dropped /\ m.seen = q.seen
      BY <2>1 DEF PageFields
    <3>2. /\ r.loaded = m.loaded /\ r.remote = m.remote /\ r.local = m.local
          /\ r.session = m.session /\ r.key = m.key /\ r.dismissed = m.dismissed /\ r.busy = m.busy
          /\ r.dropped = m.dropped /\ r.n = m.n /\ r.seen = m.seen
      BY <2>3 DEF PageFields
    <3> QED
      BY <2>1, <3>1, <3>2
  <2>5. Displayed(r)
    <3>1. Shown(r) = Shown(p) /\ View(r) = View(p)
      BY <1>1, <2>4, LooksAlike DEF Alike
    <3> QED
      BY <1>2, <2>4, <3>1 DEF Displayed
  <2> QED
    BY <1>1, <1>2, <2>3, <2>4, <2>5 DEF Dressed
<1> QED
  BY <1>3, <1>4, <1>5

\* The effect keeps the page well formed, and starts nothing.
LEMMA DressedPage ==
  ASSUME NEW rs, NEW p, PageShape(rs, p), p.loaded, NEW r, Dressed(p, r)
  PROVE  PageOK(rs, r) /\ \A g : Fewer(r.calls \cup g, p.calls \cup g, "start")
<1>1. Shown(p) \in Views(rs, "web") \cup {None}
  BY DEF Shown, PageShape
<1>2. r.seen \subseteq DOMAIN rs
  BY <1>1 DEF Dressed, PageShape, Views, Own
<1> PICK call : call = Call("resume", "web", Here, <<"page", p.n + 1>>, None)
  OBVIOUS
<1>3. PageCall(rs, call) /\ call.do = "resume"
  <2>1. <<"page", p.n + 1>> \in Keys
    BY DEF PageShape, Keys
  <2> QED
    BY <2>1, StationsAssumption DEF Call, PageCall, Fields
<1>4. \A q \in r.calls : PageCall(rs, q) /\ q.do # "cancel"
  BY <1>3 DEF Dressed, PageShape
<1>5. \A g : Fewer(r.calls \cup g, p.calls \cup g, "start")
  BY <1>3 DEF Dressed, Fewer
<1> QED
  BY <1>2, <1>4, <1>5 DEF Dressed, PageShape, PageOK

\* A step of the page: its attempts are all that is left to look at.
LEMMA PageChanges ==
  ASSUME CustomerInv, Kept(rentals, rentals'), app' = app, GoneOK(rentals, app.who, gone'),
         PageOK(rentals, page'), page.seen \subseteq page'.seen, page.dropped \subseteq page'.dropped,
         PageSingle(rentals', page', app, gone'), Fewer(gone', page.calls \cup gone, "take")
  PROVE  CustomerInv'
<1> PICK new : new = rentals'
  OBVIOUS
<1> PICK p2 : p2 = page'
  OBVIOUS
<1> PICK g2 : g2 = gone'
  OBVIOUS
<1>0. /\ RowsOK(rentals, app.who) /\ PageOK(rentals, page) /\ AppOK(rentals, app) /\ GoneOK(rentals, app.who, gone)
      /\ Attempts(rentals, page, app, gone)
  BY DEF CustomerInv, Inv
<1>1. Grown(rentals, new) /\ RowsOK(new, app.who)
  BY <1>0, KeptRows DEF Kept
<1>2. PageOK(new, p2) /\ AppOK(new, app) /\ GoneOK(new, app.who, g2)
  BY <1>0, <1>1, GrownPage, GrownApp, GrownGone
<1>3. Fewer(app.calls \cup g2, app.calls \cup gone, "take")
  <2>1. \A q \in page.calls : q.do # "take"
    BY <1>0 DEF PageOK, PageShape, PageCall
  <2>2. \A q \in g2 : q.do = "take" => \E r \in gone : r.do = "take" /\ r.as = q.as /\ r.key = q.key
    BY <2>1 DEF Fewer
  <2> QED
    BY <2>2 DEF Fewer
<1>4. Given(page, app) \subseteq Given(p2, app)
  BY DEF Given
<1>5. \A c \in Customers : AppSingle(new, p2, app, g2, c)
  BY <1>0, <1>3, <1>4, KeptAppSingle DEF Attempts
<1>6. Pairs(new, Given(p2, app), p2.seen, app.seen)
  BY <1>0, <1>4, PairsKept DEF Attempts
<1>7. Attempts(new, p2, app, g2)
  BY <1>5, <1>6 DEF Attempts
<1> QED
  BY <1>1, <1>2, <1>7 DEF CustomerInv, Inv

\* One that gives up no key and takes none.
LEMMA PageMoves ==
  ASSUME CustomerInv, Kept(rentals, rentals'), app' = app, GoneOK(rentals, app.who, gone'),
         PageOK(rentals, page'), page.seen \subseteq page'.seen, page'.dropped = page.dropped,
         page'.loaded = page.loaded, page'.loaded => page'.key = page.key,
         Fewer(page'.calls \cup gone', page.calls \cup gone, "start"),
         Fewer(gone', page.calls \cup gone, "take")
  PROVE  CustomerInv'
<1>1. Given(page, app) = Given(page', app)
  BY DEF Given
<1>2. PageSingle(rentals, page, app, gone)
  BY DEF CustomerInv, Inv, Attempts
<1>3. PageSingle(rentals', page', app, gone')
  BY <1>1, <1>2, KeptPageSingle
<1> QED
  BY <1>3, PageChanges

\* What the page makes of an answer, before the effect.
LEMMA GotIs ==
  ASSUME NEW rs, NEW p, PageShape(rs, p), p.loaded, NEW q \in p.calls, NEW answer \in Oks(rs, "web") \cup {Failure},
         NEW p1, p1 = PageGot([p EXCEPT !.calls = @ \ {q}], q, answer)
  PROVE  /\ PageShape(rs, p1) /\ p1.loaded /\ p1.key = p.key /\ p1.seen = p.seen /\ p1.dropped = p.dropped
         /\ \A r \in p1.calls : r \in p.calls \/ r.do = "confirm"
<1> PICK p0 : p0 = [p EXCEPT !.calls = @ \ {q}]
  OBVIOUS
<1>1. /\ DOMAIN p0 = PageFields /\ p0.calls = p.calls \ {q} /\ \A f \in PageFields \ {"calls"} : p0[f] = p[f]
  BY DEF PageFields, PageShape
<1> DEFINE Same(m) == /\ DOMAIN m = PageFields /\ m.loaded /\ m.key = p.key /\ m.seen = p.seen /\ m.dropped = p.dropped
                      /\ m.n = p.n /\ m.remote = p.remote /\ m.calls = p.calls \ {q}
                      /\ m.local \in Views(rs, "web") \cup {None} /\ m.session \in Own(rs, "web") \cup {None}
<1>2. Same(p0)
  BY <1>1 DEF PageShape, PageFields
<1>3. answer.ok => answer.rental \in Views(rs, "web") /\ answer.session \in Own(rs, "web") \cup {None}
  <2>1. CASE answer \in Oks(rs, "web")
    BY <2>1 DEF Oks
  <2>2. CASE answer = Failure
    BY <2>2 DEF Failure
  <2> QED
    BY <2>1, <2>2
<1>4. \/ Same(p1)
      \/ \E m, i : i \in Own(rs, "web") /\ Same(m) /\ p1 = Send(m, "confirm", None, i)
  <2>1. q.do \in {"start", "resume", "confirm"}
    BY DEF PageShape, PageCall
  <2>2. CASE q.do = "start"
    <3>1. p1 = (IF answer.ok THEN [p0 EXCEPT !.local = answer.rental, !.session = answer.session, !.busy = FALSE]
                ELSE [p0 EXCEPT !.busy = FALSE])
      BY <2>2 DEF PageGot
    <3> QED
      BY <1>2, <1>3, <3>1 DEF PageFields
  <2>3. CASE q.do = "confirm"
    <3>1. p1 = (IF answer.ok THEN [p0 EXCEPT !.local = answer.rental, !.session = None, !.paying = FALSE]
                ELSE [p0 EXCEPT !.paying = FALSE])
      BY <2>3 DEF PageGot
    <3> QED
      BY <1>2, <1>3, <3>1 DEF PageFields
  <2>4. CASE q.do = "resume"
    <3>1. p1 = (IF ~answer.ok THEN p0
                ELSE IF p0.returned THEN Confirming([p0 EXCEPT !.returned = FALSE], answer.rental.id)
                ELSE IF answer.session # None THEN [p0 EXCEPT !.session = answer.session] ELSE p0)
      BY <2>4 DEF PageGot
    <3>2. CASE answer.ok /\ p0.returned
      <4> PICK m0 : m0 = [p0 EXCEPT !.returned = FALSE]
        OBVIOUS
      <4> PICK m : m = [m0 EXCEPT !.paying = TRUE]
        OBVIOUS
      <4>1. Same(m0)
        BY <1>2 DEF PageFields
      <4>2. Same(m)
        BY <4>1 DEF PageFields
      <4>3. answer.rental.id \in Own(rs, "web")
        BY <1>3, <3>2 DEF Views
      <4>4. p1 = Send(m, "confirm", None, answer.rental.id)
        BY <3>1, <3>2 DEF Confirming
      <4> QED
        BY <4>2, <4>3, <4>4
    <3>3. CASE ~(answer.ok /\ p0.returned)
      BY <1>2, <1>3, <3>1, <3>3 DEF PageFields
    <3> QED
      BY <3>2, <3>3
  <2> QED
    BY <2>1, <2>2, <2>3, <2>4
<1>5. CASE Same(p1)
  BY <1>5 DEF PageShape
<1>6. ASSUME NEW m, NEW i \in Own(rs, "web"), Same(m), p1 = Send(m, "confirm", None, i)
      PROVE  /\ PageShape(rs, p1) /\ p1.loaded /\ p1.key = p.key /\ p1.seen = p.seen /\ p1.dropped = p.dropped
             /\ \A r \in p1.calls : r \in p.calls \/ r.do = "confirm"
  <2> PICK call : call = Call("confirm", "web", Here, None, i)
    OBVIOUS
  <2>1. PageCall(rs, call) /\ call.do = "confirm"
    BY DEF Call, PageCall, Fields
  <2>2. p1 = [m EXCEPT !.calls = @ \cup {call}]
    BY <1>6 DEF Send
  <2>3. /\ DOMAIN p1 = PageFields /\ p1.calls = m.calls \cup {call}
        /\ \A f \in PageFields \ {"calls"} : p1[f] = m[f]
    BY <1>6, <2>2 DEF PageFields
  <2>4. /\ p1.loaded /\ p1.key = p.key /\ p1.seen = p.seen /\ p1.dropped = p.dropped /\ p1.n = p.n
        /\ p1.remote = p.remote /\ p1.local = m.local /\ p1.session = m.session
    BY <1>6, <2>3 DEF PageFields
  <2> QED
    BY <1>6, <2>1, <2>3, <2>4 DEF PageShape
<1> QED
  BY <1>4, <1>5, <1>6

\* An answer to the page comes, or is lost.
LEMMA AnswerMoves ==
  ASSUME CustomerInv, NEW q \in page.calls, NEW answer \in Oks(rentals, "web") \cup {Failure},
         page' = Rendered(PageGot([page EXCEPT !.calls = @ \ {q}], q, answer)),
         rentals' = rentals, app' = app, gone' \subseteq gone \cup {q}
  PROVE  CustomerInv'
<1> PICK p2 : p2 = page'
  OBVIOUS
<1> PICK g2 : g2 = gone'
  OBVIOUS
<1> PICK p1 : p1 = PageGot([page EXCEPT !.calls = @ \ {q}], q, answer)
  OBVIOUS
<1>0. /\ RowsOK(rentals, app.who) /\ PageShape(rentals, page) /\ page.loaded /\ GoneOK(rentals, app.who, gone)
  BY DEF CustomerInv, Inv, PageOK, PageShape, Empty
<1>1. /\ PageShape(rentals, p1) /\ p1.loaded /\ p1.key = page.key /\ p1.seen = page.seen /\ p1.dropped = page.dropped
      /\ \A r \in p1.calls : r \in page.calls \/ r.do = "confirm"
  BY <1>0, GotIs
<1>2. Dressed(p1, p2)
  BY <1>1, RenderedIs DEF PageShape
<1>3. PageOK(rentals, p2)
  BY <1>1, <1>2, DressedPage
<1>4. Fewer(p2.calls \cup g2, p1.calls \cup g2, "start")
  <2>1. \A g : Fewer(p2.calls \cup g, p1.calls \cup g, "start")
    BY <1>1, <1>2, DressedPage
  <2> QED
    BY <2>1
<1>5. Fewer(p2.calls \cup g2, page.calls \cup gone, "start")
  <2>1. \A r \in p1.calls \cup g2 : r.do = "start" => r \in page.calls \cup gone
    BY <1>1
  <2> QED
    BY <1>4, <2>1 DEF Fewer
<1>6. Fewer(g2, page.calls \cup gone, "take")
  BY DEF Fewer
<1>7. GoneOK(rentals, app.who, g2)
  BY <1>0 DEF GoneOK, PageShape
<1>8. Kept(rentals, rentals)
  BY <1>0, KeptSelf DEF RowsOK
<1>9. p2.loaded /\ p2.key = page.key /\ p2.dropped = page.dropped /\ page.seen \subseteq p2.seen
  BY <1>1, <1>2 DEF Dressed
<1> QED
  BY <1>0, <1>3, <1>5, <1>6, <1>7, <1>8, <1>9, PageMoves

\* An answer reaches the page, or the connection fails.
LEMMA AnswersKeep ==
  ASSUME CustomerInv, DeliverPage \/ LosePage
  PROVE  CustomerInv'
<1>0. \A q \in page.calls : q.answer \in Oks(rentals, "web") \cup {None, Failure}
  BY DEF CustomerInv, Inv, PageOK, PageShape, PageCall
<1>1. CASE DeliverPage
  <2>1. PICK q \in page.calls : /\ q.answer # None
                                /\ page' = Rendered(PageGot([page EXCEPT !.calls = @ \ {q}], q, q.answer))
                                /\ rentals' = rentals /\ app' = app /\ gone' = gone
    BY <1>1 DEF DeliverPage, server
  <2>2. q.answer \in Oks(rentals, "web") \cup {Failure}
    BY <1>0, <2>1
  <2> QED
    BY <2>1, <2>2, AnswerMoves
<1>2. CASE LosePage
  <2>1. PICK q \in page.calls : /\ page' = Rendered(PageGot([page EXCEPT !.calls = @ \ {q}], q, Failure))
                                /\ rentals' = rentals /\ app' = app /\ gone' = gone \cup Unserved({q})
    BY <1>2 DEF LosePage, server
  <2>2. gone' \subseteq gone \cup {q}
    BY <2>1 DEF Unserved
  <2> QED
    BY <2>1, <2>2, AnswerMoves
<1> QED
  BY <1>1, <1>2

\* What a device forgets of its attempts: only keys, and all that could still open a rental.
LEMMA ForgotIs ==
  ASSUME NEW d, NEW fields, DOMAIN d = fields, "dropped" \in fields, NEW do, NEW qs, NEW m, m = Forgot(d, do, qs)
  PROVE  /\ DOMAIN m = fields /\ \A f \in fields \ {"dropped"} : m[f] = d[f]
         /\ d.dropped \subseteq m.dropped
         /\ \A given, c : m.dropped \subseteq given => Quiet(rentals, given, c, do, qs)
<1> PICK keys : keys = {q.key : q \in {r \in qs : r.do = do /\ \A i \in Ids(r.as) : rentals[i].key # r.key}}
  OBVIOUS
<1>1. m = [d EXCEPT !.dropped = d.dropped \cup keys]
  BY DEF Forgot
<1>2. DOMAIN m = fields /\ m.dropped = d.dropped \cup keys /\ \A f \in fields \ {"dropped"} : m[f] = d[f]
  BY <1>1
<1>3. ASSUME NEW given, NEW c, m.dropped \subseteq given PROVE Quiet(rentals, given, c, do, qs)
  <2> SUFFICES ASSUME NEW q \in qs, q.do = do, q.as = c, ~Known(rentals, c, q.key) PROVE q.key \in given
    BY DEF Quiet
  <2>1. \A i \in Ids(q.as) : rentals[i].key # q.key
    BY DEF Ids, Known, Own
  <2>2. q.key \in keys
    BY <2>1
  <2> QED
    BY <1>2, <1>3, <2>2
<1> QED
  BY <1>2, <1>3

\* A reload, or the bank's page, leaves requests behind.
LEMMA LeftBehind ==
  ASSUME CustomerInv, Kept(rentals, rentals'), NEW returned, Left(returned), app' = app
  PROVE  CustomerInv'
<1> PICK p2 : p2 = page'
  OBVIOUS
<1> PICK g2 : g2 = gone'
  OBVIOUS
<1> PICK m : m = Forgot(page, "start", g2)
  OBVIOUS
<1>0. /\ PageOK(rentals, page) /\ PageShape(rentals, page) /\ GoneOK(rentals, app.who, gone)
      /\ PageSingle(rentals, page, app, gone)
  BY DEF CustomerInv, Inv, PageOK, Attempts
<1>1. p2 = Blank(m, returned) /\ g2 = gone \cup Unserved(page.calls)
  BY DEF Left
<1>2. /\ DOMAIN m = PageFields /\ m.n = page.n /\ m.seen = page.seen /\ page.dropped \subseteq m.dropped
      /\ \A given, c : m.dropped \subseteq given => Quiet(rentals, given, c, "start", g2)
  <2>1. DOMAIN page = PageFields /\ "dropped" \in PageFields
    BY <1>0 DEF PageShape, PageFields
  <2>2. \A f \in PageFields \ {"dropped"} : m[f] = page[f]
    BY <2>1, ForgotIs
  <2>3. m.n = page.n /\ m.seen = page.seen
    BY <2>2 DEF PageFields
  <2> QED
    BY <2>1, <2>3, ForgotIs
<1>3. /\ DOMAIN p2 = PageFields /\ ~p2.loaded /\ p2.remote = None /\ p2.local = None /\ p2.session = None
      /\ p2.key = None /\ p2.n = page.n /\ p2.seen = page.seen /\ p2.dropped = m.dropped /\ p2.calls = {}
      /\ ~p2.dismissed /\ ~p2.busy
  BY <1>1, <1>2 DEF Blank, PageFields
<1>4. Displayed(p2)
  BY <1>3 DEF Displayed, View
<1>5. PageOK(rentals, p2)
  BY <1>0, <1>3, <1>4 DEF PageOK, PageShape, Empty
<1>6. g2 \subseteq page.calls \cup gone
  BY <1>1 DEF Unserved
<1>7. GoneOK(rentals, app.who, g2)
  BY <1>0, <1>6 DEF GoneOK, PageOK, PageShape
<1>8. Fewer(p2.calls \cup g2, page.calls \cup gone, "start") /\ Fewer(g2, page.calls \cup gone, "take")
  BY <1>3, <1>6 DEF Fewer
<1>9. Given(page, app) \subseteq Given(p2, app) /\ m.dropped \subseteq Given(p2, app)
  BY <1>2, <1>3 DEF Given
<1>10. PageSingle(rentals', p2, app, g2)
  <2> PICK new : new = rentals'
    OBVIOUS
  <2>1. PICK k \in Keys \cup {None} : Single(rentals, Given(page, app), "web", "start", page.calls \cup gone, page.seen, k)
    BY <1>0 DEF PageSingle
  <2>2. Single(new, Given(p2, app), "web", "start", p2.calls \cup g2, p2.seen, k)
    BY <1>3, <1>8, <1>9, <2>1, SingleKept
  <2>3. Quiet(rentals, Given(p2, app), "web", "start", g2)
    BY <1>2, <1>9
  <2>4. Fewer(p2.calls \cup g2, g2, "start")
    BY <1>3 DEF Fewer
  <2>5. Quiet(new, Given(p2, app), "web", "start", p2.calls \cup g2)
    BY <2>3, <2>4, QuietKept DEF Kept
  <2> QED
    BY <1>3, <2>2, <2>5 DEF PageSingle
<1> QED
  BY <1>2, <1>3, <1>5, <1>7, <1>8, <1>10, PageChanges

\* Stripe takes the card, on the page or on the bank's.
LEMMA PayKeeps ==
  ASSUME CustomerInv, Pay
  PROVE  CustomerInv'
<1> PICK p2 : p2 = page'
  OBVIOUS
<1>0. /\ RowsOK(rentals, app.who) /\ PageOK(rentals, page) /\ PageShape(rentals, page) /\ GoneOK(rentals, app.who, gone)
  BY DEF CustomerInv, Inv, PageOK
<1>1. Kept(rentals, rentals')
  <2>1. View(page) = "card"
    BY DEF Pay
  <2>2. page.session # None
    BY <2>1 DEF View
  <2>3. page.session \in DOMAIN rentals
    BY <1>0, <2>2 DEF PageShape, Own
  <2> PICK rs \in Seq(Row) : rs = rentals
    BY <1>0 DEF RowsOK
  <2>4. PICK s \in {"held", "processing"} : rentals' = [rentals EXCEPT ![page.session].intent = s]
    BY DEF Pay
  <2> QED
    BY <2>3, <2>4, IntentKept
<1>2. CASE Left(TRUE)
  BY <1>1, <1>2, LeftBehind DEF Pay
<1>3. CASE page' = Confirming(page, Shown(page).id) /\ gone' = gone
  <2> PICK i : i = Shown(page).id
    OBVIOUS
  <2> PICK m : m = [page EXCEPT !.paying = TRUE]
    OBVIOUS
  <2> PICK call : call = Call("confirm", "web", Here, None, i)
    OBVIOUS
  <2>1. View(page) = "card"
    BY DEF Pay
  <2>2. page.loaded /\ Shown(page) # None
    BY <2>1 DEF View
  <2>3. i \in Own(rentals, "web")
    BY <1>0, <2>2 DEF PageShape, Shown, Views
  <2>4. PageCall(rentals, call) /\ call.do = "confirm"
    BY <2>3 DEF Call, PageCall, Fields
  <2>5. /\ DOMAIN m = PageFields /\ \A f \in PageFields \ {"paying"} : m[f] = page[f]
    BY <1>0 DEF PageShape, PageFields
  <2>6. p2 = [m EXCEPT !.calls = @ \cup {call}]
    BY <1>3 DEF Confirming, Send
  <2>7. /\ DOMAIN p2 = PageFields /\ p2.calls = page.calls \cup {call}
        /\ \A f \in PageFields \ {"paying", "calls"} : p2[f] = page[f]
    BY <2>5, <2>6 DEF PageFields
  <2>8. /\ p2.loaded = page.loaded /\ p2.remote = page.remote /\ p2.local = page.local
        /\ p2.session = page.session /\ p2.busy = page.busy /\ p2.dismissed = page.dismissed
        /\ p2.key = page.key /\ p2.n = page.n /\ p2.seen = page.seen /\ p2.dropped = page.dropped
    BY <2>7 DEF PageFields
  <2>9. PageOK(rentals, p2)
    <3>1. Displayed(p2)
      <4>1. Shown(p2) = Shown(page) /\ View(p2) = View(page)
        BY <2>8, LooksAlike DEF Alike
      <4> QED
        BY <1>0, <2>8, <4>1 DEF PageOK, Displayed
    <3> QED
      BY <1>0, <2>2, <2>4, <2>7, <2>8, <3>1 DEF PageOK, PageShape
  <2>10. Fewer(p2.calls \cup gone, page.calls \cup gone, "start") /\ Fewer(gone, page.calls \cup gone, "take")
    BY <2>4, <2>7 DEF Fewer
  <2> QED
    BY <1>0, <1>1, <1>3, <2>2, <2>8, <2>9, <2>10, PageMoves DEF Pay
<1> QED
  BY <1>2, <1>3 DEF Pay

\* The customer reloads the page.
LEMMA ReloadKeeps ==
  ASSUME CustomerInv, Reload
  PROVE  CustomerInv'
<1>1. rentals' = rentals /\ app' = app /\ Left(FALSE)
  BY DEF Reload, server
<1>2. Kept(rentals, rentals)
  BY KeptSelf DEF CustomerInv, Inv, RowsOK
<1> QED
  BY <1>1, <1>2, LeftBehind

\* What GET customer tells a customer with a rental is the last one.
LEMMA CurrentLast ==
  ASSUME NEW who, RowsOK(rentals, who), NEW c, NEW i, Last(rentals, c, i)
  PROVE  Current(c) # None /\ Current(c).id = i
<1> PICK now : now = Current(c)
  OBVIOUS
<1>1. PICK j \in Own(rentals, c) : Last(rentals, c, j) /\ now = [id |-> j, state |-> rentals[j].state]
  BY CurrentIs DEF Last
<1>2. i = j
  <2>1. i \in Nat /\ j \in Nat
    BY Numbers DEF RowsOK, Own, Last
  <2> QED
    BY <1>1, <2>1 DEF Last
<1>3. now \in [id : Nat, state : States]
  <2>1. j \in DOMAIN rentals /\ rentals \in Seq(Row)
    BY DEF RowsOK, Own
  <2>2. j \in Nat /\ rentals[j] \in Row
    BY <2>1, Numbers
  <2> QED
    BY <1>1, <2>2 DEF Row
<1>4. None \notin [id : Nat, state : States]
  BY NoneAssumption
<1> QED
  BY <1>1, <1>2, <1>3, <1>4

\* The first answer of a poll after a load shows the last rental: the keys of before are of no use.
LEMMA PollKeeps ==
  ASSUME CustomerInv, Poll
  PROVE  CustomerInv'
<1> PICK now : now = Current("web")
  OBVIOUS
<1> PICK p1 : p1 = [page EXCEPT !.remote = now, !.loaded = TRUE]
  OBVIOUS
<1> PICK p2 : p2 = page'
  OBVIOUS
<1>0. /\ RowsOK(rentals, app.who) /\ PageShape(rentals, page) /\ GoneOK(rentals, app.who, gone)
      /\ PageSingle(rentals, page, app, gone)
  BY DEF CustomerInv, Inv, PageOK, Attempts
<1>1. page' = Rendered(p1) /\ rentals' = rentals /\ app' = app /\ gone' = gone
  BY DEF Poll, server
<1>2. /\ DOMAIN p1 = PageFields /\ p1.loaded = TRUE /\ p1.remote = now
      /\ \A f \in PageFields \ {"remote", "loaded"} : p1[f] = page[f]
  BY <1>0 DEF PageShape, PageFields
<1>3. /\ p1.local = page.local /\ p1.session = page.session /\ p1.busy = page.busy
      /\ p1.dismissed = page.dismissed /\ p1.key = page.key /\ p1.n = page.n /\ p1.seen = page.seen
      /\ p1.dropped = page.dropped /\ p1.calls = page.calls
  BY <1>2 DEF PageFields
<1>4. now \in Views(rentals, "web") \cup {None}
  BY <1>0, CurrentIs
<1>5. PageShape(rentals, p1)
  BY <1>0, <1>2, <1>3, <1>4 DEF PageShape
<1>6. Dressed(p1, p2)
  BY <1>1, <1>5, RenderedIs DEF PageShape
<1>7. PageOK(rentals, p2)
  BY <1>2, <1>5, <1>6, DressedPage
<1>8. Fewer(p2.calls \cup gone, page.calls \cup gone, "start")
  <2>1. \A g : Fewer(p2.calls \cup g, p1.calls \cup g, "start")
    BY <1>2, <1>5, <1>6, DressedPage
  <2> QED
    BY <1>3, <2>1
<1>9. /\ p2.loaded /\ p2.key = page.key /\ p2.dropped = page.dropped /\ page.seen \subseteq p2.seen
      /\ p2.remote = now /\ p2.local = page.local /\ p2.busy = page.busy /\ p2.dismissed = page.dismissed
  BY <1>2, <1>3, <1>6 DEF Dressed
<1>10. Kept(rentals, rentals) /\ Fewer(gone, page.calls \cup gone, "take")
  BY <1>0, KeptSelf DEF RowsOK, Fewer
<1>11. CASE page.loaded
  BY <1>0, <1>1, <1>7, <1>8, <1>9, <1>10, <1>11, PageMoves
<1>12. CASE ~page.loaded
  <2>1. p2.key = None /\ p2.local = None /\ ~p2.busy /\ ~p2.dismissed /\ Given(page, app) = Given(p2, app)
    BY <1>0, <1>1, <1>9, <1>12 DEF PageShape, Empty, Given
  <2>2. Quiet(rentals, Given(p2, app), "web", "start", p2.calls \cup gone)
    <3>1. Quiet(rentals, Given(p2, app), "web", "start", page.calls \cup gone)
      BY <1>0, <1>12, <2>1 DEF PageSingle
    <3> QED
      BY <1>8, <1>10, <3>1, QuietKept DEF Kept
  <2>3. Shown(p2) = now
    BY <1>9, <2>1 DEF Shown
  <2>4. View(p2) \notin {"loading", "busy"}
    BY <1>9, <2>1 DEF View
  <2>5. now # None => now.id \in p2.seen
    BY <1>7, <2>3, <2>4 DEF PageOK, Displayed
  <2>6. ASSUME NEW i \in DOMAIN rentals, Last(rentals, "web", i) PROVE i \in p2.seen
    <3>1. now # None /\ now.id = i
      BY <1>0, <2>6, CurrentLast
    <3> QED
      BY <2>5, <3>1
  <2>7. Single(rentals, Given(p2, app), "web", "start", p2.calls \cup gone, p2.seen, None)
    BY <2>2, <2>6 DEF Single, Quiet
  <2>8. PageSingle(rentals, p2, app, gone)
    BY <1>9, <2>1, <2>7 DEF PageSingle
  <2> QED
    BY <1>0, <1>1, <1>7, <1>9, <1>10, <2>8, PageChanges
<1> QED
  BY <1>11, <1>12

\* No attempt is under way: any key may be taken.
LEMMA SingleRenewed ==
  ASSUME NEW rs \in Seq(Row), NEW given, NEW c, NEW do, NEW calls, NEW seen, Single(rs, given, c, do, calls, seen, None),
         \A q \in calls : q.do = do => q.key \in Keys, NEW k
  PROVE  Single(rs, given, c, do, calls, seen, k)
<1>1. \A i \in DOMAIN rs : rs[i].key \in Keys
  BY Numbers DEF Row
<1>2. None \notin Keys
  BY NoneAssumption
<1> QED
  BY <1>1, <1>2 DEF Single

\* A tap sends the key it has, or takes one when none is under way.
LEMMA TapStartKeeps ==
  ASSUME CustomerInv, TapStart
  PROVE  CustomerInv'
<1> PICK k : k = StartKey(page)
  OBVIOUS
<1> PICK call : call = Call("start", "web", Here, k, None)
  OBVIOUS
<1> PICK n : n = IF k = Fresh(page) THEN page.n + 1 ELSE page.n
  OBVIOUS
<1> PICK m : m = [page EXCEPT !.busy = TRUE, !.dismissed = FALSE, !.key = k, !.n = n]
  OBVIOUS
<1> PICK p1 : p1 = [m EXCEPT !.calls = @ \cup {call}]
  OBVIOUS
<1> PICK p2 : p2 = page'
  OBVIOUS
<1>0. /\ RowsOK(rentals, app.who) /\ PageShape(rentals, page) /\ GoneOK(rentals, app.who, gone)
      /\ PageSingle(rentals, page, app, gone)
  BY DEF CustomerInv, Inv, PageOK, Attempts
<1>1. page' = Rendered(p1) /\ rentals' = rentals /\ app' = app /\ gone' = gone /\ View(page) = "intro"
  BY DEF TapStart, server, Send
<1>2. page.loaded
  BY <1>1 DEF View
<1>3. k \in Keys /\ n \in Nat /\ call.do = "start" /\ call.as = "web" /\ call.key = k /\ PageCall(rentals, call)
  <2>1. k \in Keys
    BY <1>0 DEF StartKey, Fresh, Keys, PageShape
  <2> QED
    BY <1>0, <2>1, StationsAssumption DEF Call, PageCall, Fields, PageShape
<1>4. /\ DOMAIN m = PageFields /\ m.key = k /\ m.n = n
      /\ \A f \in PageFields \ {"busy", "dismissed", "key", "n"} : m[f] = page[f]
  BY <1>0 DEF PageShape, PageFields
<1>5. /\ DOMAIN p1 = PageFields /\ p1.calls = page.calls \cup {call}
      /\ \A f \in PageFields \ {"calls"} : p1[f] = m[f]
  BY <1>4 DEF PageFields
<1>6. /\ p1.loaded = page.loaded /\ p1.remote = page.remote /\ p1.local = page.local /\ p1.session = page.session
      /\ p1.key = k /\ p1.n = n /\ p1.seen = page.seen /\ p1.dropped = page.dropped
  BY <1>4, <1>5 DEF PageFields
<1>7. PageShape(rentals, p1)
  BY <1>0, <1>2, <1>3, <1>5, <1>6 DEF PageShape
<1>8. Dressed(p1, p2)
  BY <1>1, <1>7, RenderedIs DEF PageShape
<1>9. PageOK(rentals, p2)
  BY <1>2, <1>6, <1>7, <1>8, DressedPage
<1>10. Fewer(p2.calls \cup gone, p1.calls \cup gone, "start")
  <2>1. \A g : Fewer(p2.calls \cup g, p1.calls \cup g, "start")
    BY <1>2, <1>6, <1>7, <1>8, DressedPage
  <2> QED
    BY <2>1
<1>11. /\ p2.loaded /\ p2.key = k /\ p2.dropped = page.dropped /\ page.seen \subseteq p2.seen
  BY <1>2, <1>6, <1>8 DEF Dressed
<1>12. Kept(rentals, rentals) /\ Fewer(gone, page.calls \cup gone, "take")
  BY <1>0, KeptSelf DEF RowsOK, Fewer
<1>13. Single(rentals, Given(page, app), "web", "start", page.calls \cup gone, page.seen, k)
  <2>1. Single(rentals, Given(page, app), "web", "start", page.calls \cup gone, page.seen, page.key)
    BY <1>0, <1>2 DEF PageSingle
  <2>2. CASE page.key # None
    BY <2>1, <2>2 DEF StartKey
  <2>3. CASE page.key = None
    <3>1. \A q \in page.calls \cup gone : q.do = "start" => q.key \in Keys
      BY <1>0 DEF PageShape, GoneOK, PageCall, AppCall
    <3> QED
      BY <1>0, <2>1, <2>3, <3>1, SingleRenewed DEF RowsOK
  <2> QED
    BY <2>2, <2>3
<1>14. Single(rentals, Given(page, app), "web", "start", p1.calls \cup gone, page.seen, k)
  BY <1>3, <1>5, <1>13 DEF Single
<1>15. Single(rentals, Given(p2, app), "web", "start", p2.calls \cup gone, p2.seen, k)
  BY <1>10, <1>11, <1>12, <1>14, SingleKept DEF Given
<1>16. PageSingle(rentals, p2, app, gone)
  BY <1>3, <1>11, <1>15 DEF PageSingle
<1> QED
  BY <1>0, <1>1, <1>9, <1>11, <1>12, <1>16, PageChanges

\* The key of an attempt given up at a rental on display: that rental's own, or one that is dropped.
LEMMA SingleGivenUp ==
  ASSUME NEW rs \in Seq(Row), KeyOnce(rs), NEW given, NEW later, given \subseteq later, NEW c, NEW do, NEW calls,
         NEW seen, NEW shown, seen \subseteq shown, NEW k, Single(rs, given, c, do, calls, seen, k),
         NEW i \in Own(rs, c), i \in shown, k = None \/ rs[i].key = k \/ k \in later
  PROVE  Single(rs, later, c, do, calls, shown, None)
<1>1. \A q \in calls : q.do = do /\ q.as = c => q.key = None \/ Known(rs, c, q.key) \/ q.key \in later
  BY DEF Single, Known
<1>2. ASSUME NEW j \in DOMAIN rs, Last(rs, c, j), rs[j].by = do
      PROVE  rs[j].key = None \/ j \in shown \/ rs[j].key \in later
  <2>1. rs[j].key = k \/ j \in shown \/ rs[j].key \in later
    BY <1>2 DEF Single
  <2>2. rs[i].who = c /\ rs[j].who = c /\ i \in DOMAIN rs
    BY <1>2 DEF Last, Own
  <2>3. rs[i].key = k /\ rs[j].key = k => i = j
    BY <2>2 DEF KeyOnce
  <2> QED
    BY <2>1, <2>3
<1> QED
  BY <1>1, <1>2 DEF Single

\* A key given up at the end of another rental is dropped.
LEMMA DroppedIs ==
  ASSUME NEW d, "dropped" \in DOMAIN d, NEW key, NEW r
  PROVE  /\ DOMAIN Dropped(d, key, r) = DOMAIN d
         /\ \A f \in DOMAIN d \ {"dropped"} : Dropped(d, key, r)[f] = d[f]
         /\ d.dropped \subseteq Dropped(d, key, r).dropped
         /\ key = None \/ rentals[r.id].key = key \/ key \in Dropped(d, key, r).dropped
<1> PICK e : e = Dropped(d, key, r)
  OBVIOUS
<1>1. CASE key = None \/ rentals[r.id].key = key
  BY <1>1 DEF Dropped
<1>2. CASE ~(key = None \/ rentals[r.id].key = key)
  <2>1. e = [d EXCEPT !.dropped = @ \cup {key}]
    BY <1>2 DEF Dropped
  <2> QED
    BY <2>1
<1> QED
  BY <1>1, <1>2

\* The customer puts away the rental on the page.
LEMMA PutAway ==
  ASSUME CustomerInv, page.loaded, View(page) \notin {"loading", "busy"}, Shown(page) # None,
         NEW p1, DOMAIN p1 = PageFields, p1.loaded, p1.remote = page.remote, p1.local = None,
         p1.session \in {None, page.session}, p1.key = None, p1.n = page.n, p1.seen = page.seen,
         p1.dropped = Dropped(page, page.key, Shown(page)).dropped, p1.calls = page.calls,
         page' = Rendered(p1), rentals' = rentals, app' = app,
         gone' \in {gone, gone \cup {Call("cancel", "web", Here, None, Shown(page).id)}}
  PROVE  CustomerInv'
<1> PICK i : i = Shown(page).id
  OBVIOUS
<1> PICK call : call = Call("cancel", "web", Here, None, i)
  OBVIOUS
<1> PICK p2 : p2 = page'
  OBVIOUS
<1> PICK g2 : g2 = gone'
  OBVIOUS
<1>0. /\ RowsOK(rentals, app.who) /\ PageShape(rentals, page) /\ GoneOK(rentals, app.who, gone)
      /\ PageSingle(rentals, page, app, gone) /\ Displayed(page)
  BY DEF CustomerInv, Inv, PageOK, Attempts
<1>1. i \in Own(rentals, "web") /\ i \in page.seen
  BY <1>0 DEF PageShape, Shown, Views, Displayed
<1>2. PageCall(rentals, call) /\ call.do = "cancel"
  BY <1>1 DEF Call, PageCall, Fields
<1>3. PageShape(rentals, p1)
  BY <1>0 DEF PageShape
<1>4. Dressed(p1, p2)
  BY <1>3, RenderedIs DEF PageShape
<1>5. PageOK(rentals, p2)
  BY <1>3, <1>4, DressedPage
<1>6. Fewer(p2.calls \cup g2, p1.calls \cup g2, "start")
  <2>1. \A g : Fewer(p2.calls \cup g, p1.calls \cup g, "start")
    BY <1>3, <1>4, DressedPage
  <2> QED
    BY <2>1
<1>7. Fewer(p2.calls \cup g2, page.calls \cup gone, "start") /\ Fewer(g2, page.calls \cup gone, "take")
  BY <1>2, <1>6 DEF Fewer
<1>8. p2.loaded /\ p2.key = None /\ p2.dropped = p1.dropped /\ page.seen \subseteq p2.seen
  BY <1>4 DEF Dressed
<1>9. /\ page.dropped \subseteq p2.dropped
      /\ page.key = None \/ rentals[i].key = page.key \/ page.key \in p2.dropped
  BY <1>0, <1>8, DroppedIs DEF PageShape, PageFields
<1>10. Kept(rentals, rentals) /\ GoneOK(rentals, app.who, g2)
  BY <1>0, <1>2, KeptSelf DEF RowsOK, GoneOK
<1>11. Single(rentals, Given(page, app), "web", "start", page.calls \cup gone, page.seen, page.key)
  BY <1>0 DEF PageSingle
<1>12. Given(page, app) \subseteq Given(p2, app) /\ p2.dropped \subseteq Given(p2, app)
  BY <1>9 DEF Given
<1>13. page.key = None \/ rentals[i].key = page.key \/ page.key \in Given(p2, app)
  BY <1>9, <1>12
<1>14. Single(rentals, Given(p2, app), "web", "start", page.calls \cup gone, page.seen, None)
  BY <1>0, <1>1, <1>11, <1>12, <1>13, SingleGivenUp DEF RowsOK
<1>15. Single(rentals, Given(p2, app), "web", "start", p2.calls \cup g2, p2.seen, None)
  BY <1>7, <1>8, <1>10, <1>14, SingleKept
<1>16. PageSingle(rentals, p2, app, g2)
  BY <1>8, <1>15 DEF PageSingle
<1> QED
  BY <1>5, <1>7, <1>8, <1>9, <1>10, <1>16, PageChanges

\* Cancelling, or starting over below a rental that is over.
LEMMA PutAwayKeeps ==
  ASSUME CustomerInv, TapCancel \/ TapAgain
  PROVE  CustomerInv'
<1> PICK d : d = Dropped(page, page.key, Shown(page))
  OBVIOUS
<1>0. DOMAIN page = PageFields
  BY DEF CustomerInv, Inv, PageOK, PageShape
<1>1. DOMAIN d = PageFields /\ \A f \in PageFields \ {"dropped"} : d[f] = page[f]
  BY <1>0, DroppedIs DEF PageFields
<1>2. CASE TapCancel
  <2> PICK p1 : p1 = [d EXCEPT !.session = None, !.dismissed = TRUE, !.local = None, !.key = None]
    OBVIOUS
  <2>1. View(page) = "card" /\ page' = Rendered(p1) /\ rentals' = rentals /\ app' = app
        /\ gone' = gone \cup {Call("cancel", "web", Here, None, Shown(page).id)}
    BY <1>2 DEF TapCancel, server
  <2>2. page.loaded /\ Shown(page) # None
    BY <2>1 DEF View
  <2>3. /\ DOMAIN p1 = PageFields /\ p1.local = None /\ p1.session = None /\ p1.key = None
        /\ \A f \in PageFields \ {"session", "dismissed", "local", "key"} : p1[f] = d[f]
    BY <1>1 DEF PageFields
  <2>4. /\ p1.loaded = page.loaded /\ p1.remote = page.remote /\ p1.n = page.n /\ p1.seen = page.seen
        /\ p1.dropped = d.dropped /\ p1.calls = page.calls
    BY <1>1, <2>3 DEF PageFields
  <2> QED
    BY <2>1, <2>2, <2>3, <2>4, PutAway
<1>3. CASE TapAgain
  <2> PICK p1 : p1 = [d EXCEPT !.dismissed = TRUE, !.local = None, !.key = None]
    OBVIOUS
  <2>1. View(page) \in {"receipt", "closed"} /\ page' = Rendered(p1) /\ rentals' = rentals /\ app' = app
        /\ gone' = gone
    BY <1>3 DEF TapAgain, server
  <2>2. page.loaded /\ Shown(page) # None
    BY <2>1 DEF View
  <2>3. /\ DOMAIN p1 = PageFields /\ p1.local = None /\ p1.key = None
        /\ \A f \in PageFields \ {"dismissed", "local", "key"} : p1[f] = d[f]
    BY <1>1 DEF PageFields
  <2>4. /\ p1.loaded = page.loaded /\ p1.remote = page.remote /\ p1.n = page.n /\ p1.seen = page.seen
        /\ p1.dropped = d.dropped /\ p1.calls = page.calls /\ p1.session = page.session
    BY <1>1, <2>3 DEF PageFields
  <2> QED
    BY <2>1, <2>2, <2>3, <2>4, PutAway
<1> QED
  BY <1>2, <1>3

-----------------------------------------------------------------------------
(* The application.                                                          *)

\* A step of the application: its attempts are all that is left to look at.
LEMMA AppChanges ==
  ASSUME CustomerInv, rentals' = rentals, page' = page, AppOK(rentals, app'), RowsOK(rentals, app'.who),
         GoneOK(rentals, app'.who, gone'), app.seen \subseteq app'.seen, app.dropped \subseteq app'.dropped,
         \A c \in Customers : AppSingle(rentals, page, app', gone', c), Fewer(gone', app.calls \cup gone, "start")
  PROVE  CustomerInv'
<1> PICK a2 : a2 = app'
  OBVIOUS
<1> PICK g2 : g2 = gone'
  OBVIOUS
<1>0. /\ RowsOK(rentals, app.who) /\ PageOK(rentals, page) /\ AppOK(rentals, app) /\ Attempts(rentals, page, app, gone)
  BY DEF CustomerInv, Inv
<1>1. Kept(rentals, rentals)
  BY <1>0, KeptSelf DEF RowsOK
<1>2. Fewer(page.calls \cup g2, page.calls \cup gone, "start")
  <2>1. \A q \in app.calls : q.do # "start"
    BY <1>0 DEF AppOK, AppCall
  <2>2. \A q \in g2 : q.do = "start" => \E r \in gone : r.do = "start" /\ r.as = q.as /\ r.key = q.key
    BY <2>1 DEF Fewer
  <2> QED
    BY <2>2 DEF Fewer
<1>3. Given(page, app) \subseteq Given(page, a2)
  BY DEF Given
<1>4. PageSingle(rentals, page, a2, g2)
  BY <1>0, <1>1, <1>2, <1>3, KeptPageSingle DEF Attempts
<1>5. Pairs(rentals, Given(page, a2), page.seen, a2.seen)
  BY <1>0, <1>1, <1>3, PairsKept DEF Attempts
<1>6. Attempts(rentals, page, a2, g2)
  BY <1>4, <1>5 DEF Attempts
<1> QED
  BY <1>0, <1>6 DEF CustomerInv, Inv

\* One that gives up no key and takes none.
LEMMA AppMoves ==
  ASSUME CustomerInv, rentals' = rentals, page' = page, AppOK(rentals, app'), app'.who = app.who,
         GoneOK(rentals, app.who, gone'), app.seen \subseteq app'.seen, app'.dropped = app.dropped,
         app'.online = app.online, app'.online => app'.pending = app.pending,
         Fewer(gone', app.calls \cup gone, "start"), Fewer(app'.calls \cup gone', app.calls \cup gone, "take")
  PROVE  CustomerInv'
<1> PICK a2 : a2 = app'
  OBVIOUS
<1>0. RowsOK(rentals, app.who) /\ \A c \in Customers : AppSingle(rentals, page, app, gone, c)
  BY DEF CustomerInv, Inv, Attempts
<1>1. Kept(rentals, rentals)
  BY <1>0, KeptSelf DEF RowsOK
<1>2. Given(page, app) \subseteq Given(page, a2)
  BY DEF Given
<1>3. a2.online => TakeKey(a2) = TakeKey(app)
  BY DEF TakeKey
<1>4. \A c \in Customers : AppSingle(rentals, page, a2, gone', c)
  BY <1>0, <1>1, <1>2, <1>3, KeptAppSingle
<1> QED
  BY <1>0, <1>4, AppChanges

\* The application shows the rental r.
Looked(a, r, b) ==
  /\ DOMAIN b = AppFields /\ \A f \in AppFields \ {"rental", "seen"} : b[f] = a[f]
  /\ a.seen \subseteq b.seen /\ \A i \in b.seen : i \in a.seen \/ (r # None /\ i = r.id)
  /\ r # None => r.id \in b.seen

\* The application shows what it was told, and changes nothing else.
LEMMA ShowsIs ==
  ASSUME NEW a, DOMAIN a = AppFields, NEW r
  PROVE  Looked(a, r, Shows(a, r))
<1> PICK b : b = Shows(a, r)
  OBVIOUS
<1>1. DOMAIN b = AppFields /\ b.seen = (IF r = None THEN a.seen ELSE a.seen \cup {r.id})
  BY DEF Shows, AppFields
<1>2. \A f \in AppFields \ {"rental", "seen"} : b[f] = a[f]
  BY DEF Shows, AppFields
<1> QED
  BY <1>1, <1>2 DEF Looked

\* The first refresh after a launch shows the last rental: the keys of before are of no use.
LEMMA RefreshKeeps ==
  ASSUME CustomerInv, Refresh
  PROVE  CustomerInv'
<1> PICK now : now = Current(app.who)
  OBVIOUS
<1> PICK a1 : a1 = [app EXCEPT !.online = TRUE]
  OBVIOUS
<1> PICK a2 : a2 = app'
  OBVIOUS
<1>0. /\ RowsOK(rentals, app.who) /\ AppOK(rentals, app) /\ GoneOK(rentals, app.who, gone)
      /\ \A c \in Customers : AppSingle(rentals, page, app, gone, c)
  BY DEF CustomerInv, Inv, Attempts
<1>1. a2 = Shows(a1, now) /\ rentals' = rentals /\ page' = page /\ gone' = gone
  BY DEF Refresh, server
<1>2. DOMAIN a1 = AppFields /\ a1.online = TRUE /\ \A f \in AppFields \ {"online"} : a1[f] = app[f]
  BY <1>0 DEF AppOK, AppFields
<1>3. Looked(a1, now, a2)
  BY <1>1, <1>2, ShowsIs
<1>4. /\ DOMAIN a2 = AppFields /\ a2.who = app.who /\ a2.pending = app.pending /\ a2.calls = app.calls /\ a2.online = TRUE
      /\ a2.n = app.n /\ a2.dropped = app.dropped /\ a1.seen = app.seen
  BY <1>2, <1>3 DEF AppFields, Looked
<1>5. /\ app.seen \subseteq a2.seen /\ \A i \in a2.seen : i \in app.seen \/ (now # None /\ i = now.id)
      /\ now # None => now.id \in a2.seen
  BY <1>3, <1>4 DEF Looked
<1>6. a2.seen \subseteq DOMAIN rentals
  <2>1. now \in Views(rentals, app.who) \cup {None}
    BY <1>0, CurrentIs
  <2> QED
    BY <1>0, <1>5, <2>1 DEF AppOK, Views, Own
<1>7. AppOK(rentals, a2)
  <2>1. \A q \in a2.calls : AppCall(rentals, a2.who, q) /\ OfPending(a2, q)
    BY <1>0, <1>4 DEF AppOK, OfPending
  <2> QED
    BY <1>0, <1>4, <1>6, <2>1 DEF AppOK
<1>8. /\ Fewer(gone, app.calls \cup gone, "start") /\ Fewer(a2.calls \cup gone, app.calls \cup gone, "take")
  BY <1>4 DEF Fewer
<1>9. CASE app.online
  BY <1>0, <1>1, <1>4, <1>5, <1>7, <1>8, <1>9, AppMoves
<1>10. CASE ~app.online
  <2>1. app.pending = None /\ Given(page, app) = Given(page, a2)
    BY <1>0, <1>4, <1>10 DEF AppOK, Given
  <2>2. Kept(rentals, rentals) /\ Given(page, app) \subseteq Given(page, a2)
    BY <1>0, <1>4, KeptSelf DEF RowsOK, Given
  <2>3. ASSUME NEW c \in Customers PROVE AppSingle(rentals, page, a2, gone, c)
    <3>1. CASE c = app.who
      <4>1. \A i \in DOMAIN rentals : Last(rentals, c, i) => i \in a2.seen
        BY <1>0, <1>5, <3>1, CurrentLast
      <4>2. Single(rentals, Given(page, a2), c, "take", a2.calls \cup gone, a2.seen, None)
        <5>1. Quiet(rentals, Given(page, a2), c, "take", a2.calls \cup gone)
          BY <1>0, <1>4, <1>10, <2>1 DEF AppSingle
        <5> QED
          BY <4>1, <5>1 DEF Single, Quiet
      <4>3. TakeKey(a2) = None
        BY <1>4, <2>1 DEF TakeKey
      <4> QED
        BY <1>4, <4>2, <4>3 DEF AppSingle
    <3>2. CASE c # app.who
      BY <1>0, <1>4, <1>5, <1>8, <2>2, <3>2, KeptAppSingle
    <3> QED
      BY <3>1, <3>2
  <2> QED
    BY <1>0, <1>1, <1>4, <1>5, <1>7, <1>8, <2>3, AppChanges
<1> QED
  BY <1>9, <1>10

\* The application asks: again with the key it has, or with a new one when none is under way.
LEMMA AskKeeps ==
  ASSUME CustomerInv, NEW do \in {"take", "return"}, NEW at \in Stations,
         NEW want, want = (IF app.pending # None THEN app.pending
                           ELSE [do |-> do, at |-> at, key |-> <<"phone", app.n + 1>>]),
         app.calls = {}, app.online, want.do = do, rentals' = rentals, page' = page, gone' = gone,
         app' = [app EXCEPT !.pending = want, !.n = want.key[2],
                   !.calls = {Call(do, app.who, at, want.key, None)}]
  PROVE  CustomerInv'
<1> PICK call : call = Call(do, app.who, at, want.key, None)
  OBVIOUS
<1> PICK a2 : a2 = app'
  OBVIOUS
<1>0. /\ RowsOK(rentals, app.who) /\ AppOK(rentals, app) /\ GoneOK(rentals, app.who, gone)
      /\ \A c \in Customers : AppSingle(rentals, page, app, gone, c)
  BY DEF CustomerInv, Inv, Attempts
<1>1. want \in [do : {"take", "return"}, at : Stations, key : Keys] /\ want # None
  <2>1. <<"phone", app.n + 1>> \in Keys
    BY <1>0 DEF AppOK, Keys
  <2>2. want \in [do : {"take", "return"}, at : Stations, key : Keys]
    BY <1>0, <2>1 DEF AppOK
  <2>3. None \notin [do : {"take", "return"}, at : Stations, key : Keys]
    BY NoneAssumption
  <2> QED
    BY <2>2, <2>3
<1>2. want.key \in Keys /\ want.key[2] \in Nat
  BY <1>1 DEF Keys
<1>3. /\ DOMAIN a2 = AppFields /\ a2.pending = want /\ a2.n = want.key[2] /\ a2.calls = {call}
      /\ a2.who = app.who /\ a2.online = app.online /\ a2.seen = app.seen /\ a2.dropped = app.dropped
  BY <1>0 DEF AppOK, AppFields
<1>4. call.do = do /\ call.as = app.who /\ call.key = want.key /\ AppCall(rentals, app.who, call)
  BY <1>0, <1>2 DEF Call, AppCall, AppOK, Fields
<1>5. AppOK(rentals, a2)
  <2>1. OfPending(a2, call)
    BY <1>1, <1>3, <1>4 DEF OfPending
  <2> QED
    BY <1>0, <1>1, <1>2, <1>3, <1>4, <2>1 DEF AppOK
<1>6. Given(page, a2) = Given(page, app)
  BY <1>3 DEF Given
<1>7. ASSUME NEW c \in Customers PROVE AppSingle(rentals, page, a2, gone, c)
  <2> PICK k \in Keys \cup {None} :
        /\ app.online /\ app.who = c => k = TakeKey(app)
        /\ Single(rentals, Given(page, app), c, "take", app.calls \cup gone, app.seen, k)
    BY <1>0 DEF AppSingle
  <2>1. CASE c # app.who
    <3>1. Single(rentals, Given(page, a2), c, "take", a2.calls \cup gone, a2.seen, k)
      BY <1>3, <1>4, <1>6, <2>1 DEF Single
    <3> QED
      BY <1>3, <2>1, <3>1 DEF AppSingle
  <2>2. CASE c = app.who
    <3> PICK k2 : k2 = TakeKey(a2)
      OBVIOUS
    <3>1. k2 = (IF do = "take" THEN want.key ELSE None) /\ k = TakeKey(app)
      BY <1>1, <1>3, <2>2 DEF TakeKey
    <3>2. Single(rentals, Given(page, app), c, "take", app.calls \cup gone, app.seen, k2)
      <4>1. CASE app.pending # None
        BY <3>1, <4>1 DEF TakeKey
      <4>2. CASE app.pending = None
        <5>1. k = None
          BY <3>1, <4>2 DEF TakeKey
        <5>2. \A q \in app.calls \cup gone : q.do = "take" => q.key \in Keys
          BY <1>0 DEF GoneOK, PageCall, AppCall
        <5> QED
          BY <1>0, <5>1, <5>2, SingleRenewed DEF RowsOK
      <4> QED
        BY <4>1, <4>2
    <3>3. Single(rentals, Given(page, a2), c, "take", a2.calls \cup gone, a2.seen, k2)
      BY <1>3, <1>4, <1>6, <3>1, <3>2 DEF Single
    <3>4. k2 \in Keys \cup {None}
      BY <1>2, <3>1
    <3> QED
      BY <3>3, <3>4 DEF AppSingle
  <2> QED
    BY <2>1, <2>2
<1>8. Fewer(gone, app.calls \cup gone, "start")
  BY DEF Fewer
<1> QED
  BY <1>0, <1>3, <1>5, <1>7, <1>8, AppChanges

\* A tap in the application: it shows what the server says, or asks.
LEMMA ActKeeps ==
  ASSUME CustomerInv, NEW do \in {"take", "return"}, NEW at \in Stations, Act(do, at)
  PROVE  CustomerInv'
<1> PICK now : now = Current(app.who)
  OBVIOUS
<1> PICK want : want = (IF app.pending # None THEN app.pending
                        ELSE [do |-> do, at |-> at, key |-> <<"phone", app.n + 1>>])
  OBVIOUS
<1> PICK a2 : a2 = app'
  OBVIOUS
<1>0. RowsOK(rentals, app.who) /\ AppOK(rentals, app) /\ GoneOK(rentals, app.who, gone)
  BY DEF CustomerInv, Inv
<1>1. /\ app.calls = {} /\ app.online /\ rentals' = rentals /\ page' = page /\ gone' = gone
      /\ \/ app' = Shows(app, now)
         \/ want.do = do /\ app' = [app EXCEPT !.pending = want, !.n = want.key[2],
                                      !.calls = {Call(do, app.who, at, want.key, None)}]
  BY DEF Act, server
<1>2. CASE app' = Shows(app, now)
  <2>1. Looked(app, now, a2)
    BY <1>0, <1>2, ShowsIs DEF AppOK
  <2>2. /\ DOMAIN a2 = AppFields /\ a2.who = app.who /\ a2.pending = app.pending /\ a2.calls = app.calls
        /\ a2.online = app.online /\ a2.n = app.n /\ a2.dropped = app.dropped
    BY <2>1 DEF AppFields, Looked
  <2>3. now \in Views(rentals, app.who) \cup {None}
    BY <1>0, CurrentIs
  <2>4. a2.seen \subseteq DOMAIN rentals /\ app.seen \subseteq a2.seen
    BY <1>0, <2>1, <2>3 DEF AppOK, Views, Own, Looked
  <2>5. AppOK(rentals, a2)
    BY <1>0, <1>1, <2>2, <2>4 DEF AppOK
  <2>6. /\ Fewer(gone, app.calls \cup gone, "start") /\ Fewer(a2.calls \cup gone, app.calls \cup gone, "take")
    BY <2>2 DEF Fewer
  <2> QED
    BY <1>0, <1>1, <2>2, <2>4, <2>5, <2>6, AppMoves
<1>3. CASE want.do = do /\ app' = [app EXCEPT !.pending = want, !.n = want.key[2],
                                     !.calls = {Call(do, app.who, at, want.key, None)}]
  BY <1>1, <1>3, AskKeeps
<1> QED
  BY <1>1, <1>2, <1>3

\* The handoff link is opened.
LEMMA OpenLinkKeeps ==
  ASSUME CustomerInv, OpenLink
  PROVE  CustomerInv'
<1> PICK call : call = Call("claim", app.who, None, None, None)
  OBVIOUS
<1> PICK a2 : a2 = app'
  OBVIOUS
<1>0. AppOK(rentals, app) /\ GoneOK(rentals, app.who, gone)
  BY DEF CustomerInv, Inv
<1>1. /\ a2 = [app EXCEPT !.calls = {call}] /\ rentals' = rentals /\ page' = page /\ gone' = gone
  BY DEF OpenLink, server
<1>2. call.do = "claim" /\ AppCall(rentals, app.who, call) /\ OfPending(a2, call)
  BY <1>0 DEF Call, AppCall, AppOK, Fields, OfPending
<1>3. /\ DOMAIN a2 = AppFields /\ a2.calls = {call} /\ a2.who = app.who /\ a2.online = app.online
      /\ a2.pending = app.pending /\ a2.n = app.n /\ a2.seen = app.seen /\ a2.dropped = app.dropped
  BY <1>0, <1>1 DEF AppOK, AppFields
<1>4. AppOK(rentals, a2)
  BY <1>0, <1>2, <1>3 DEF AppOK
<1>5. /\ Fewer(gone, app.calls \cup gone, "start") /\ Fewer(a2.calls \cup gone, app.calls \cup gone, "take")
  BY <1>2, <1>3 DEF Fewer
<1> QED
  BY <1>0, <1>1, <1>3, <1>4, <1>5, AppMoves

\* The connection fails.
LEMMA LossKeeps ==
  ASSUME CustomerInv, LoseApp
  PROVE  CustomerInv'
<1> PICK a2 : a2 = app'
  OBVIOUS
<1> PICK g2 : g2 = gone'
  OBVIOUS
<1>0. AppOK(rentals, app) /\ GoneOK(rentals, app.who, gone)
  BY DEF CustomerInv, Inv
<1>1. /\ rentals' = rentals /\ page' = page /\ g2 \subseteq app.calls \cup gone
      /\ a2 = [app EXCEPT !.calls = {}]
  BY DEF LoseApp, server, Unserved
<1>2. /\ DOMAIN a2 = AppFields /\ a2.calls = {} /\ a2.who = app.who
      /\ a2.n = app.n /\ a2.seen = app.seen /\ a2.dropped = app.dropped
      /\ a2.online = app.online /\ a2.pending = app.pending
  BY <1>0, <1>1 DEF AppOK, AppFields
<1>3. AppOK(rentals, a2)
  BY <1>0, <1>2 DEF AppOK
<1>4. GoneOK(rentals, app.who, g2)
  BY <1>0, <1>1 DEF GoneOK, AppOK
<1>5. Fewer(g2, app.calls \cup gone, "start") /\ Fewer(a2.calls \cup g2, app.calls \cup gone, "take")
  BY <1>1, <1>2 DEF Fewer
<1> QED
  BY <1>1, <1>2, <1>3, <1>4, <1>5, AppMoves

\* The application is killed, and forgets its attempt.
LEMMA RelaunchKeeps ==
  ASSUME CustomerInv, Relaunch
  PROVE  CustomerInv'
<1> PICK a2 : a2 = app'
  OBVIOUS
<1> PICK g2 : g2 = gone'
  OBVIOUS
<1> PICK m : m = Forgot(app, "take", g2)
  OBVIOUS
<1>0. /\ RowsOK(rentals, app.who) /\ AppOK(rentals, app) /\ GoneOK(rentals, app.who, gone)
      /\ \A c \in Customers : AppSingle(rentals, page, app, gone, c)
  BY DEF CustomerInv, Inv, Attempts
<1>1. /\ rentals' = rentals /\ page' = page /\ g2 \subseteq app.calls \cup gone
      /\ a2 = [m EXCEPT !.rental = None, !.pending = None, !.calls = {}, !.online = FALSE]
  BY DEF Relaunch, server, Unserved
<1>2. /\ DOMAIN m = AppFields /\ app.dropped \subseteq m.dropped
      /\ m.who = app.who /\ m.n = app.n /\ m.seen = app.seen
      /\ \A given, c : m.dropped \subseteq given => Quiet(rentals, given, c, "take", g2)
  <2>1. DOMAIN app = AppFields /\ "dropped" \in AppFields
    BY <1>0 DEF AppOK, AppFields
  <2>2. \A f \in AppFields \ {"dropped"} : m[f] = app[f]
    BY <2>1, ForgotIs
  <2>3. m.who = app.who /\ m.n = app.n /\ m.seen = app.seen
    BY <2>2 DEF AppFields
  <2> QED
    BY <2>1, <2>3, ForgotIs
<1>3. /\ DOMAIN a2 = AppFields /\ a2.calls = {} /\ a2.who = app.who /\ a2.n = app.n
      /\ a2.seen = app.seen /\ a2.dropped = m.dropped /\ ~a2.online /\ a2.pending = None
  BY <1>1, <1>2 DEF AppFields
<1>4. AppOK(rentals, a2)
  BY <1>0, <1>3 DEF AppOK
<1>5. GoneOK(rentals, app.who, g2)
  BY <1>0, <1>1 DEF GoneOK, AppOK
<1>6. Fewer(g2, app.calls \cup gone, "start") /\ Fewer(a2.calls \cup g2, app.calls \cup gone, "take")
  BY <1>1, <1>3 DEF Fewer
<1>7. Given(page, app) \subseteq Given(page, a2) /\ m.dropped \subseteq Given(page, a2)
  BY <1>2, <1>3 DEF Given
<1>8. ASSUME NEW c \in Customers PROVE AppSingle(rentals, page, a2, g2, c)
  <2>1. PICK k \in Keys \cup {None} : Single(rentals, Given(page, app), c, "take", app.calls \cup gone, app.seen, k)
    BY <1>0 DEF AppSingle
  <2>2. Single(rentals, Given(page, a2), c, "take", a2.calls \cup g2, a2.seen, k)
    BY <1>0, <1>3, <1>6, <1>7, <2>1, SingleKept, KeptSelf DEF RowsOK
  <2>3. Quiet(rentals, Given(page, a2), c, "take", a2.calls \cup g2)
    BY <1>2, <1>3, <1>7 DEF Quiet
  <2> QED
    BY <1>3, <2>2, <2>3 DEF AppSingle
<1> QED
  BY <1>0, <1>1, <1>2, <1>3, <1>4, <1>5, <1>6, <1>8, AppChanges

\* The session of the link: the application goes on for the customer of the browser.
LEMMA ClaimMoves ==
  ASSUME CustomerInv, rentals' = rentals, page' = page, gone' = gone,
         NEW m, m = [app EXCEPT !.calls = {}, !.who = "web"], app' = Shows(m, Current("web"))
  PROVE  CustomerInv'
<1> PICK now : now = Current("web")
  OBVIOUS
<1> PICK a2 : a2 = app'
  OBVIOUS
<1>0. /\ RowsOK(rentals, app.who) /\ AppOK(rentals, app) /\ GoneOK(rentals, app.who, gone)
      /\ \A c \in Customers : AppSingle(rentals, page, app, gone, c)
  BY DEF CustomerInv, Inv, Attempts
<1>1. /\ DOMAIN m = AppFields /\ m.calls = {} /\ m.who = "web" /\ m.online = app.online
      /\ m.pending = app.pending /\ m.n = app.n /\ m.seen = app.seen /\ m.dropped = app.dropped
  BY <1>0 DEF AppOK, AppFields
<1>2. Looked(m, now, a2)
  BY <1>1, ShowsIs
<1>3. /\ DOMAIN a2 = AppFields /\ a2.calls = {} /\ a2.who = "web" /\ a2.online = app.online
      /\ a2.pending = app.pending /\ a2.n = app.n /\ a2.dropped = app.dropped /\ app.seen \subseteq a2.seen
  BY <1>1, <1>2 DEF AppFields, Looked
<1>4. a2.seen \subseteq DOMAIN rentals
  <2>1. now \in Views(rentals, "web") \cup {None}
    BY <1>0, CurrentIs
  <2> QED
    BY <1>0, <1>1, <1>2, <2>1 DEF AppOK, Views, Own, Looked
<1>5. AppOK(rentals, a2)
  BY <1>0, <1>3, <1>4 DEF AppOK, Customers
<1>6. RowsOK(rentals, "web") /\ GoneOK(rentals, "web", gone)
  BY <1>0 DEF RowsOK, ByWhom, GoneOK, AppCall
<1>7. Given(page, a2) = Given(page, app) /\ TakeKey(a2) = TakeKey(app)
  BY <1>3 DEF Given, TakeKey
<1>8. /\ Fewer(gone, app.calls \cup gone, "start") /\ Fewer(a2.calls \cup gone, app.calls \cup gone, "take")
  BY <1>3 DEF Fewer
<1>9. ASSUME NEW c \in Customers PROVE AppSingle(rentals, page, a2, gone, c)
  <2>1. CASE c = "web" /\ app.who # "web"
    <3>1. \A q \in gone : q.do = "take" => q.as # c
      BY <1>0, <2>1 DEF GoneOK, PageCall, AppCall
    <3>2. \A i \in DOMAIN rentals : rentals[i].by = "take" => rentals[i].who # c
      BY <1>0, <2>1 DEF RowsOK, ByWhom
    <3>3. Single(rentals, Given(page, a2), c, "take", a2.calls \cup gone, a2.seen, TakeKey(app))
      BY <1>3, <3>1, <3>2 DEF Single, Last, Own
    <3>4. TakeKey(app) \in Keys \cup {None}
      BY <1>0 DEF AppOK, TakeKey
    <3> QED
      BY <1>3, <1>7, <3>1, <3>3, <3>4 DEF AppSingle, Quiet
  <2>2. CASE ~(c = "web" /\ app.who # "web")
    <3>1. Kept(rentals, rentals)
      BY <1>0, KeptSelf DEF RowsOK
    <3>2. a2.online /\ a2.who = c => app.online /\ app.who = c
      BY <1>3, <2>2
    <3> QED
      BY <1>0, <1>3, <1>7, <1>8, <3>1, <3>2, KeptAppSingle
  <2> QED
    BY <2>1, <2>2
<1> QED
  BY <1>3, <1>5, <1>6, <1>8, <1>9, AppChanges

\* The application ends its attempt at a rental it shows.
LEMMA AttemptEnds ==
  ASSUME NEW rs \in Seq(Row), KeyOnce(rs), NEW p, NEW a, NEW g, NEW c, AppSingle(rs, p, a, g, c), a.online,
         NEW a2, Given(p, a) \subseteq Given(p, a2), a.seen \subseteq a2.seen,
         a2.calls = {}, a2.online, a2.who = a.who, a2.pending = None, NEW i \in Own(rs, a.who), i \in a2.seen,
         TakeKey(a) = None \/ rs[i].key = TakeKey(a) \/ TakeKey(a) \in Given(p, a2)
  PROVE  AppSingle(rs, p, a2, g, c)
<1>1. Kept(rs, rs) /\ Fewer(a2.calls \cup g, a.calls \cup g, "take")
  BY KeptSelf DEF Fewer
<1>2. CASE c # a.who
  BY <1>1, <1>2, KeptAppSingle
<1>3. CASE c = a.who
  <2>1. Single(rs, Given(p, a), c, "take", a.calls \cup g, a.seen, TakeKey(a))
    BY <1>3 DEF AppSingle
  <2>2. Single(rs, Given(p, a2), c, "take", a.calls \cup g, a2.seen, None)
    BY <1>3, <2>1, SingleGivenUp
  <2>3. Single(rs, Given(p, a2), c, "take", a2.calls \cup g, a2.seen, None)
    BY <1>1, <2>2, SingleKept
  <2>4. TakeKey(a2) = None
    BY DEF TakeKey
  <2> QED
    BY <2>3, <2>4 DEF AppSingle
<1> QED
  BY <1>2, <1>3

\* An answer about a rental ends the attempt, and shows what became of it.
LEMMA ToldMoves ==
  ASSUME CustomerInv, rentals' = rentals, page' = page, gone' = gone,
         NEW q \in app.calls, q.do # "claim", NEW r \in Views(rentals, q.as),
         app' = Shows([Dropped([app EXCEPT !.calls = {}], IF q.do = "take" THEN q.key ELSE None, r)
                         EXCEPT !.pending = None], r)
  PROVE  CustomerInv'
<1> PICK key : key = IF q.do = "take" THEN q.key ELSE None
  OBVIOUS
<1> PICK a1 : a1 = [app EXCEPT !.calls = {}]
  OBVIOUS
<1> PICK d : d = Dropped(a1, key, r)
  OBVIOUS
<1> PICK m : m = [d EXCEPT !.pending = None]
  OBVIOUS
<1> PICK a2 : a2 = app'
  OBVIOUS
<1>0. /\ RowsOK(rentals, app.who) /\ AppOK(rentals, app) /\ GoneOK(rentals, app.who, gone)
      /\ \A c \in Customers : AppSingle(rentals, page, app, gone, c)
  BY DEF CustomerInv, Inv, Attempts
<1>1. AppCall(rentals, app.who, q) /\ OfPending(app, q) /\ app.calls = {q}
  BY <1>0 DEF AppOK
<1>2. DOMAIN a1 = AppFields /\ a1.calls = {} /\ \A f \in AppFields \ {"calls"} : a1[f] = app[f]
  BY <1>0 DEF AppOK, AppFields
<1>3. /\ DOMAIN d = AppFields /\ \A f \in AppFields \ {"dropped"} : d[f] = a1[f]
      /\ a1.dropped \subseteq d.dropped
      /\ key = None \/ rentals[r.id].key = key \/ key \in d.dropped
  BY <1>2, DroppedIs DEF AppFields
<1>4. /\ DOMAIN m = AppFields /\ m.pending = None /\ \A f \in AppFields \ {"pending"} : m[f] = d[f]
  BY <1>3 DEF AppFields
<1>5. Looked(m, r, a2)
  BY <1>4, ShowsIs
<1>6. /\ DOMAIN a2 = AppFields /\ a2.calls = {} /\ a2.who = app.who /\ a2.online = app.online
      /\ a2.pending = None /\ a2.n = app.n /\ a2.dropped = d.dropped /\ app.seen = m.seen
      /\ app.dropped \subseteq a2.dropped
  <2>1. /\ d.calls = {} /\ d.who = app.who /\ d.online = app.online /\ d.n = app.n /\ d.seen = app.seen
        /\ app.dropped \subseteq d.dropped
    BY <1>2, <1>3 DEF AppFields
  <2>2. /\ m.calls = {} /\ m.who = app.who /\ m.online = app.online /\ m.n = app.n /\ m.seen = app.seen
        /\ m.pending = None /\ m.dropped = d.dropped
    BY <1>4, <2>1 DEF AppFields
  <2>3. /\ DOMAIN a2 = AppFields /\ a2.calls = m.calls /\ a2.who = m.who /\ a2.online = m.online
        /\ a2.n = m.n /\ a2.pending = m.pending /\ a2.dropped = m.dropped
    BY <1>5 DEF AppFields, Looked
  <2> QED
    BY <2>1, <2>2, <2>3
<1>7. r # None /\ r.id \in Own(rentals, app.who)
  <2>1. r.id \in Own(rentals, q.as) /\ r.state \in States
    BY DEF Views
  <2>2. q.as = app.who
    BY <1>1 DEF OfPending
  <2>3. r \in [id : Nat, state : States]
    <3>1. Own(rentals, q.as) \subseteq Nat
      BY <1>0, Numbers DEF RowsOK, Own
    <3> QED
      BY <3>1 DEF Views
  <2>4. None \notin [id : Nat, state : States]
    BY NoneAssumption
  <2> QED
    BY <2>1, <2>2, <2>3, <2>4
<1>8. app.seen \subseteq a2.seen /\ a2.seen \subseteq DOMAIN rentals /\ r.id \in a2.seen
  BY <1>0, <1>5, <1>6, <1>7 DEF AppOK, Own, Looked
<1>9. AppOK(rentals, a2)
  BY <1>0, <1>6, <1>8 DEF AppOK
<1>10. /\ Fewer(gone, app.calls \cup gone, "start") /\ Fewer(a2.calls \cup gone, app.calls \cup gone, "take")
  BY <1>6 DEF Fewer
<1>11. Kept(rentals, rentals) /\ Given(page, app) \subseteq Given(page, a2)
  BY <1>0, <1>6, KeptSelf DEF RowsOK, Given
<1>12. TakeKey(app) = key /\ app.online
  BY <1>1 DEF TakeKey, OfPending, AppCall
<1>13. key = None \/ rentals[r.id].key = key \/ key \in Given(page, a2)
  BY <1>3, <1>6 DEF Given
<1>14. KeyOnce(rentals) /\ rentals \in Seq(Row)
  BY <1>0 DEF RowsOK
<1>15. \A c \in Customers : AppSingle(rentals, page, a2, gone, c)
  BY <1>0, <1>6, <1>7, <1>8, <1>11, <1>12, <1>13, <1>14, AttemptEnds
<1> QED
  BY <1>0, <1>6, <1>8, <1>9, <1>10, <1>15, AppChanges

\* An answer reaches the application.
LEMMA DeliverAppKeeps ==
  ASSUME CustomerInv, DeliverApp
  PROVE  CustomerInv'
<1> PICK q \in app.calls : /\ q.answer # None /\ app' = AppGot([app EXCEPT !.calls = {}], q, q.answer)
                           /\ rentals' = rentals /\ page' = page /\ gone' = gone
  BY DEF DeliverApp, server
<1> PICK a1 : a1 = [app EXCEPT !.calls = {}]
  OBVIOUS
<1> PICK a2 : a2 = app'
  OBVIOUS
<1>0. AppOK(rentals, app) /\ GoneOK(rentals, app.who, gone)
  BY DEF CustomerInv, Inv
<1>1. AppCall(rentals, app.who, q)
  BY <1>0 DEF AppOK
<1>2. CASE ~q.answer.ok
  <2>1. a2 = a1
    BY <1>2 DEF AppGot
  <2>2. /\ DOMAIN a2 = AppFields /\ a2.calls = {} /\ a2.who = app.who /\ a2.online = app.online
        /\ a2.pending = app.pending /\ a2.n = app.n /\ a2.seen = app.seen /\ a2.dropped = app.dropped
    BY <1>0, <2>1 DEF AppOK, AppFields
  <2>3. AppOK(rentals, a2)
    BY <1>0, <2>2 DEF AppOK
  <2>4. /\ Fewer(gone, app.calls \cup gone, "start") /\ Fewer(a2.calls \cup gone, app.calls \cup gone, "take")
    BY <2>2 DEF Fewer
  <2> QED
    BY <1>0, <2>2, <2>3, <2>4, AppMoves
<1>3. CASE q.answer.ok /\ q.do = "claim"
  <2> PICK m : m = [app EXCEPT !.calls = {}, !.who = "web"]
    OBVIOUS
  <2>1. a2 = Shows(m, Current("web"))
    BY <1>3 DEF AppGot
  <2> QED
    BY <2>1, ClaimMoves
<1>4. CASE q.answer.ok /\ q.do # "claim"
  <2>1. q.answer # Failure
    BY <1>4 DEF Failure
  <2>2. q.answer \in Oks(rentals, q.as)
    BY <1>1, <1>4, <2>1 DEF AppCall
  <2>3. q.answer.rental \in Views(rentals, q.as)
    BY <2>2 DEF Oks
  <2>4. a2 = Shows([Dropped(a1, IF q.do = "take" THEN q.key ELSE None, q.answer.rental)
                      EXCEPT !.pending = None], q.answer.rental)
    BY <1>4 DEF AppGot
  <2> QED
    BY <1>4, <2>3, <2>4, ToldMoves
<1> QED
  BY <1>2, <1>3, <1>4

-----------------------------------------------------------------------------
(* Every step.                                                               *)

\* Nothing was rented yet.
LEMMA InvInit ==
  ASSUME Init
  PROVE  CustomerInv
<1> PICK rs : rs = rentals
  OBVIOUS
<1>1. rs = << >> /\ rs \in Seq(Row) /\ DOMAIN rs = {}
  BY EmptySeq DEF Init
<1>2. RowsOK(rs, app.who)
  BY <1>1 DEF RowsOK, KeyOnce, OpenIsLast, ByWhom
<1>3. /\ DOMAIN page = PageFields /\ page.remote = None /\ page.local = None /\ page.session = None
      /\ page.key = None /\ page.n = 0 /\ page.seen = {} /\ page.calls = {} /\ ~page.loaded
      /\ ~page.dismissed /\ ~page.busy
  BY DEF Init, Blank, PageFields
<1>4. Displayed(page)
  BY <1>3 DEF Displayed, View
<1>5. PageOK(rs, page)
  BY <1>3, <1>4 DEF PageOK, PageShape, Empty
<1>6. /\ DOMAIN app = AppFields /\ app.who = "phone" /\ app.pending = None /\ app.calls = {} /\ ~app.online
      /\ app.n = 0 /\ app.seen = {} /\ gone = {}
  BY DEF Init, AppFields
<1>7. AppOK(rs, app) /\ GoneOK(rs, app.who, gone)
  BY <1>6 DEF AppOK, GoneOK, Customers
<1>8. PageSingle(rs, page, app, gone)
  BY <1>1, <1>3, <1>6 DEF PageSingle, Single, Quiet
<1>9. \A c \in Customers : AppSingle(rs, page, app, gone, c)
  BY <1>1, <1>6 DEF AppSingle, Single, Quiet
<1>10. Pairs(rs, Given(page, app), page.seen, app.seen)
  BY <1>1 DEF Pairs
<1> QED
  BY <1>2, <1>5, <1>7, <1>8, <1>9, <1>10 DEF CustomerInv, Inv, Attempts

\* Every action keeps the invariant.
LEMMA InvNext ==
  ASSUME CustomerInv, [Next]_vars
  PROVE  CustomerInv'
<1>1. CASE Routes
  BY <1>1, ServePageKeeps, ServeAppKeeps, ServeGoneKeeps, RoutesKeep DEF Routes
<1>2. CASE Page
  BY <1>2, AnswersKeep, PollKeeps, TapStartKeeps, PayKeeps, PutAwayKeeps, ReloadKeeps DEF Page
<1>3. CASE App
  <2>1. CASE Take \/ GiveBackByApp
    BY <2>1, ActKeeps DEF Take, GiveBackByApp
  <2> QED
    BY <1>3, <2>1, RefreshKeeps, OpenLinkKeeps, DeliverAppKeeps, LossKeeps, RelaunchKeeps DEF App
<1>4. CASE UNCHANGED vars
  BY <1>4 DEF vars, CustomerInv
<1> QED
  BY <1>1, <1>2, <1>3, <1>4 DEF Next

\* The clients and the rentals stay together: CustomerInv holds in every state.
THEOREM CustomerInvariant == Spec => []CustomerInv
<1>1. Init => CustomerInv
  BY InvInit
<1>2. CustomerInv /\ [Next]_vars => CustomerInv'
  BY InvNext
<1> QED
  BY <1>1, <1>2, PTL DEF Spec

\* The invariant says more than the property.
LEMMA SeenByInv ==
  ASSUME CustomerInv
  PROVE  SeenBeforeNext
<1>0. /\ RowsOK(rentals, app.who) /\ PageShape(rentals, page) /\ AppOK(rentals, app)
      /\ Pairs(rentals, Given(page, app), page.seen, app.seen)
  BY DEF CustomerInv, Inv, PageOK, Attempts
<1>1. TypeOK
  <2>1. \A i \in DOMAIN rentals : rentals[i].state \in States /\ rentals[i].who \in Customers
    BY <1>0, Numbers DEF RowsOK, Row
  <2>2. page.session \in DOMAIN rentals \cup {None} /\ page.seen \cup app.seen \subseteq DOMAIN rentals
    BY <1>0 DEF PageShape, AppOK, Own
  <2>3. Cardinality(app.calls) <= 1
    <3>1. CASE app.calls = {}
      BY <3>1, FS_EmptySet
    <3>2. CASE app.calls # {}
      <4>1. PICK q \in app.calls : app.calls = {q}
        BY <1>0, <3>2 DEF AppOK
      <4> QED
        BY <4>1, FS_Singleton
    <3> QED
      BY <3>1, <3>2
  <2> QED
    BY <2>1, <2>2, <2>3 DEF TypeOK
<1>2. ASSUME NEW i \in DOMAIN rentals, NEW j \in DOMAIN rentals, Consecutive(i, j)
      PROVE  /\ rentals[j].by = "start" => i \in page.seen
             /\ rentals[j].by = "take"  => i \in app.seen
  <2>1. Next2(rentals, Given(page, app), i, j)
    BY <1>2 DEF Consecutive, Neighbours, Next2, Given
  <2> QED
    BY <1>0, <2>1 DEF Pairs
<1> QED
  BY <1>1, <1>2 DEF SeenBeforeNext, Seen

\* By attempts it followed, a device never opens the next rental of a customer without having shown the
\* one before: those it forgot, reloaded or relaunched, may reach the server at any time.
THEOREM SeenFirst == Spec => []SeenBeforeNext
<1>1. CustomerInv => SeenBeforeNext
  BY SeenByInv
<1> QED
  BY <1>1, CustomerInvariant, PTL
=============================================================================
