---------------------------- MODULE VenueProofs ----------------------------
(***************************************************************************)
(* The venue's screens show each promotion on its schedule and speak one   *)
(* of the languages on offer, for any promotions, dates, hours, layouts,   *)
(* languages and durations, and whatever a page is told between two ticks. *)
(***************************************************************************)
EXTENDS VenueScreen, TLAPS, FiniteSetTheorems, SequenceTheorems, WellFoundedInduction

-----------------------------------------------------------------------------
(* The calendar: windows that open on given days of the week, in minutes.    *)

\* What the provers know of a quotient and its remainder.
LEMMA Division ==
  ASSUME NEW a \in Int, NEW b \in Nat \ {0}
  PROVE  a \div b \in Int /\ a % b \in 0 .. b - 1 /\ a = b * (a \div b) + (a % b)
  OBVIOUS

\* There is only one such pair.
LEMMA Quotient ==
  ASSUME NEW b \in Nat \ {0}, NEW q \in Int, NEW r \in 0 .. b - 1
  PROVE  (b * q + r) \div b = q /\ (b * q + r) % b = r
<1> DEFINE a == b * q + r
<1>1. a \in Int
  OBVIOUS
<1> PICK d \in Int : d = a \div b
  BY <1>1, Division
<1> PICK m \in 0 .. b - 1 : m = a % b
  BY <1>1, Division
<1>2. b * q + r = b * d + m
  BY <1>1, Division
<1>3. b * (q - d) = m - r
  BY <1>2
<1>4. m - r < b /\ r - m < b
  OBVIOUS
<1>5. q - d < 1 
  <2> SUFFICES ASSUME q - d >= 1 PROVE FALSE
    OBVIOUS
  <2>1. b * (q - d) >= b
    OBVIOUS
  <2> QED
    BY <2>1, <1>3, <1>4
<1>6. q - d > -1
  <2> SUFFICES ASSUME d - q >= 1 PROVE FALSE
    OBVIOUS
  <2>1. b * (d - q) >= b
    OBVIOUS
  <2>2. b * (d - q) = r - m
    BY <1>2
  <2> QED
    BY <2>1, <2>2, <1>4
<1>7. q = d
  BY <1>5, <1>6
<1> QED
  BY <1>7, <1>2

\* Days, weeks and the horizon are not empty.
LEMMA Calendar == DaysPerWeek \in Nat \ {0} /\ MinutesPerDay \in Nat \ {0} /\ MaxTime \in Nat
  BY TimesAssumption

\* The day before, as the code computes it.
LEMMA Yesterday ==
  ASSUME NEW d \in Int
  PROVE  ((d % DaysPerWeek) + DaysPerWeek - 1) % DaysPerWeek = (d - 1) % DaysPerWeek
<1> PICK b \in Nat \ {0} : b = DaysPerWeek
  BY Calendar
<1> PICK q \in Int : q = d \div b
  BY Division
<1> PICK r \in 0 .. b - 1 : r = d % b
  BY Division
<1>1. d = b * q + r
  BY Division
<1>2. \E e \in Int, z \in Int, w \in 0 .. b - 1 : d - 1 = b * e + w /\ r + b - 1 = b * z + w
  <2>1. CASE r = 0
    <3>1. d - 1 = b * (q - 1) + (b - 1) /\ r + b - 1 = b * 0 + (b - 1)
      BY <1>1, <2>1
    <3> WITNESS q - 1 \in Int, 0 \in Int, b - 1 \in 0 .. b - 1
    <3> QED
      BY <3>1
  <2>2. CASE r # 0
    <3>1. d - 1 = b * q + (r - 1) /\ r + b - 1 = b * 1 + (r - 1)
      BY <1>1, <2>2
    <3>2. r - 1 \in 0 .. b - 1
      BY <2>2
    <3> WITNESS q \in Int, 1 \in Int, r - 1 \in 0 .. b - 1
    <3> QED
      BY <3>1
  <2> QED
    BY <2>1, <2>2
<1> PICK e \in Int, z \in Int, w \in 0 .. b - 1 : d - 1 = b * e + w /\ r + b - 1 = b * z + w
  BY <1>2
<1> PICK u \in Int : u = b * e + w
  OBVIOUS
<1> PICK v \in Int : v = b * z + w
  OBVIOUS
<1>3. u % b = w
  BY Quotient
<1>4. v % b = w
  BY Quotient
<1>5. d - 1 = u /\ r + b - 1 = v
  OBVIOUS
<1>6. (r + b - 1) % b = (d - 1) % b
  BY <1>3, <1>4, <1>5, Zenon
<1> QED
  BY <1>6, Zenon

\* The midnights a window may open on are multiples of a day.
LEMMA Midnights ==
  ASSUME NEW p, NEW s
  PROVE  s \in Opens(p) <=>
           \E k \in Int : /\ s = MinutesPerDay * k /\ k >= -1 /\ s <= MaxTime
                          /\ k % DaysPerWeek \in p.days
<1> PICK b \in Nat \ {0} : b = MinutesPerDay
  BY Calendar
<1>1. ASSUME s \in Opens(p)
      PROVE  \E k \in Int : s = b * k /\ k >= -1 /\ s <= MaxTime /\ k % DaysPerWeek \in p.days
  <2>1. s \in Int /\ s >= -b /\ s <= MaxTime /\ s % b = 0 /\ (s \div b) % DaysPerWeek \in p.days
    BY <1>1, Calendar DEF Opens, Minute, Day
  <2> PICK k \in Int : k = s \div b
    BY <2>1, Division
  <2>2. s = b * k
    BY <2>1, Division
  <2>3. k >= -1
    <3> SUFFICES ASSUME k <= -2 PROVE FALSE
      OBVIOUS
    <3>1. b * k <= b * (-2)
      OBVIOUS
    <3> QED
      BY <3>1, <2>1, <2>2
  <2> QED
    BY <2>1, <2>2, <2>3
<1>2. ASSUME NEW k \in Int, s = b * k, k >= -1, s <= MaxTime, k % DaysPerWeek \in p.days
      PROVE  s \in Opens(p)
  <2>1. s \in Int /\ s >= -b
    <3>1. b * k >= b * (-1)
      BY <1>2
    <3> QED
      BY <1>2, <3>1
  <2>2. s = b * k + 0
    BY <1>2
  <2>3. s \div b = k /\ s % b = 0
    BY <2>2, Quotient
  <2> QED
    BY <1>2, <2>1, <2>3, Calendar DEF Opens, Minute, Day
<1> QED
  BY <1>1, <1>2

\* Which day a window that opens on day k covers: the time t of day d.
LEMMA Covers ==
  ASSUME NEW M \in Nat \ {0}, NEW k \in Int, NEW d \in Int, NEW m \in 0 .. M - 1,
         NEW from \in 0 .. M, NEW to \in 0 .. M
  PROVE  /\ from < to => (M * d + m \in M * k + from .. M * k + to - 1 <=> k = d /\ from <= m /\ m < to)
         /\ to <= from => (M * d + m \in M * k + from .. M * k + to + M - 1 <=>
                            (k = d /\ from <= m) \/ (k = d - 1 /\ m < to))
<1>1. CASE k = d
  BY <1>1
<1>2. CASE k = d - 1
  <2>1. M * k = M * d - M
    BY <1>2
  <2> QED
    BY <2>1, <1>2
<1>3. CASE k >= d + 1
  <2>1. M * k >= M * (d + 1)
    BY <1>3
  <2> QED
    BY <2>1, <1>3
<1>4. CASE k <= d - 2
  <2>1. M * k <= M * (d - 2)
    BY <1>4
  <2> QED
    BY <2>1, <1>4
<1> QED
  BY <1>1, <1>2, <1>3, <1>4

\* promoLiveAt is true exactly inside the windows.
LEMMA Windows ==
  ASSUME NEW p \in Promo, NEW t \in 0 .. MaxTime
  PROVE  PromoLiveAt(p, t) <=>
           /\ p.status = "PUBLISHED" /\ t \in p.starts .. p.ends - 1
           /\ \E s \in Opens(p) : t \in s + p.from .. s + Closes(p) - 1
<1> PICK M \in Nat \ {0} : M = MinutesPerDay
  BY Calendar
<1> PICK d \in Int : d = t \div M
  BY Division, Calendar
<1> PICK m \in 0 .. M - 1 : m = t % M
  BY Division, Calendar
<1> PICK from \in 0 .. M : from = p.from
  BY DEF Promo, Minutes
<1> PICK to \in 0 .. M : to = p.to
  BY DEF Promo, Minutes
<1>1. t = M * d + m /\ t \in Int /\ d >= 0
  <2>1. t \in Int /\ t >= 0
    BY Calendar
  <2>2. t = M * d + m
    BY <2>1, Division
  <2>3. d >= 0
    <3> SUFFICES ASSUME d <= -1 PROVE FALSE
      OBVIOUS
    <3>1. M * d <= M * (-1)
      OBVIOUS
    <3> QED
      BY <3>1, <2>1, <2>2
  <2> QED
    BY <2>1, <2>2, <2>3
<1>2. Day(t) = d % DaysPerWeek /\ (Day(t) + DaysPerWeek - 1) % DaysPerWeek = (d - 1) % DaysPerWeek
  BY Yesterday DEF Day
<1>3. Minute(t) = m
  BY DEF Minute
<1>4. p.starts \in Int /\ p.ends \in Int
  BY DEF Promo
<1> DEFINE Today == d % DaysPerWeek \in p.days
           Before == (d - 1) % DaysPerWeek \in p.days
           Inside == \E s \in Opens(p) : t \in s + p.from .. s + Closes(p) - 1
           InsideDay(k) == M * k \in Opens(p) /\ t \in M * k + p.from .. M * k + Closes(p) - 1
<1>5. Inside <=> \E k \in Int : InsideDay(k)
  BY Midnights
<1>6. M * d \in Opens(p) <=> Today
  <2>1. M * d <= MaxTime
    BY <1>1, Calendar
  <2>2. ASSUME NEW k \in Int, M * d = M * k PROVE k = d
    <3>1. CASE k >= d + 1
      <4>1. M * k >= M * (d + 1)
        BY <3>1
      <4> QED
        BY <4>1, <2>2
    <3>2. CASE k <= d - 1
      <4>1. M * k <= M * (d - 1)
        BY <3>2
      <4> QED
        BY <4>1, <2>2
    <3> QED
      BY <3>1, <3>2
  <2> QED
    BY <1>1, <2>1, <2>2, Midnights
<1>7. M * (d - 1) \in Opens(p) <=> Before
  <2>1. M * (d - 1) <= MaxTime /\ d - 1 >= -1
    BY <1>1, Calendar
  <2>2. ASSUME NEW k \in Int, M * (d - 1) = M * k PROVE k = d - 1
    <3>1. CASE k >= d
      <4>1. M * k >= M * d
        BY <3>1
      <4> QED
        BY <4>1, <2>2
    <3>2. CASE k <= d - 2
      <4>1. M * k <= M * (d - 2)
        BY <3>2
      <4> QED
        BY <4>1, <2>2
    <3> QED
      BY <3>1, <3>2
  <2> QED
    BY <2>1, <2>2, Midnights
<1>8. CASE from < to
  <2>1. Closes(p) = to
    BY <1>8 DEF Closes
  <2>2. \A k \in Int : InsideDay(k) <=> M * k \in Opens(p) /\ k = d /\ from <= m /\ m < to
    BY <1>1, <1>8, <2>1, Covers
  <2>3. Inside <=> Today /\ from <= m /\ m < to
    BY <1>5, <1>6, <2>2
  <2> QED
    BY <1>1, <1>2, <1>3, <1>4, <1>8, <2>3 DEF PromoLiveAt
<1>9. CASE to <= from
  <2>1. Closes(p) = to + M
    BY <1>9 DEF Closes
  <2>2. \A k \in Int : InsideDay(k) <=>
          M * k \in Opens(p) /\ ((k = d /\ from <= m) \/ (k = d - 1 /\ m < to))
    <3> TAKE k \in Int
    <3> PICK lo \in Int : lo = M * k + from
      OBVIOUS
    <3> PICK hi \in Int : hi = M * k + to + M - 1
      OBVIOUS
    <3>1. M * d + m \in M * k + from .. M * k + to + M - 1 <=>
            (k = d /\ from <= m) \/ (k = d - 1 /\ m < to)
      BY <1>9, Covers
    <3>2. (M * k + p.from) .. (M * k + Closes(p) - 1) = lo .. hi
      BY <2>1
    <3> QED
      BY <1>1, <3>1, <3>2
  <2>3. Inside => (Today /\ from <= m) \/ (Before /\ m < to)
    BY <1>5, <1>6, <1>7, <2>2
  <2>4. (Today /\ from <= m) \/ (Before /\ m < to) => Inside
    <3>1. ASSUME Today, from <= m PROVE InsideDay(d)
      BY <1>6, <2>2, <3>1
    <3>2. ASSUME Before, m < to PROVE InsideDay(d - 1)
      BY <1>7, <2>2, <3>2
    <3> QED
      BY <1>5, <3>1, <3>2
  <2> QED
    BY <1>1, <1>2, <1>3, <1>4, <1>9, <2>3, <2>4 DEF PromoLiveAt
<1> QED
  BY <1>8, <1>9

-----------------------------------------------------------------------------
(* The languages of the poster.                                              *)

\* A set of numbers that is not empty has a least one, and Min finds it.
LEMMA MinOf ==
  ASSUME NEW S \in SUBSET Nat, S # {}
  PROVE  Min(S) \in S /\ \A x \in S : Min(S) <= x
<1> DEFINE Before == OpToRel(<, Nat)
<1>1. \A y, z \in Nat : y < z => <<y, z>> \in Before
  BY DEF OpToRel
<1>2. IsWellFoundedOn(Before, Nat)
  BY NatLessThanWellFounded
<1> HIDE DEF Before
<1>3. PICK x \in S : \A y \in S : <<y, x>> \notin Before
  BY <1>2, WFMin
<1>4. \A y \in S : x <= y
  <2> TAKE y \in S
  <2>1. y \in Nat /\ x \in Nat /\ ~ (y < x)
    BY <1>1, <1>3
  <2> QED
    BY <2>1
<1> QED
  BY <1>3, <1>4 DEF Min

\* The first of some languages is one of them.
LEMMA FirstIn ==
  ASSUME NEW S \in SUBSET Locales, S # {}
  PROVE  First(S) \in S
<1> DEFINE I == {i \in DOMAIN AllLocales : AllLocales[i] \in S}
<1>1. I \subseteq Nat
  BY OrdersAssumption
<1>2. I # {}
  <2>1. PICK l \in S : TRUE
    OBVIOUS
  <2>2. PICK i \in DOMAIN AllLocales : AllLocales[i] = l
    BY DEF Locales, ToSet
  <2> QED
    BY <2>1, <2>2
<1> HIDE DEF I
<1>3. Min(I) \in I
  BY <1>1, <1>2, MinOf
<1> QED
  BY <1>3 DEF I, First

\* Some language is always offered, and the resting language is BATYEO's first.
LEMMA SomeOffered ==
  ASSUME NEW b \in Branding
  PROVE  Offered(b) \subseteq Locales /\ Offered(b) # {} /\ First(Offered(b)) \in Offered(b)
<1>1. AllLocales[1] \in Locales
  BY OrdersAssumption
<1>2. Offered(b) \subseteq Locales /\ Offered(b) # {}
  BY <1>1 DEF Offered, Branding
<1> QED
  BY <1>2, FirstIn

\* Whatever was chosen, the poster of a branding speaks a language it offers.
LEMMA PosterSpeaks ==
  ASSUME NEW p, p.display.branding \in Branding
  PROVE  KioskPoster(p).lang \in KioskPoster(p).buttons /\ KioskPoster(p).text.in = KioskPoster(p).lang
<1> PICK b \in Branding : b = p.display.branding
  OBVIOUS
<1> PICK l : l = UsePosterLocale(Offered(b), p.chosen)
  OBVIOUS
<1>1. l \in Offered(b)
  BY SomeOffered DEF UsePosterLocale
<1>2. CASE b.layout = "image"
  <2>1. KioskPoster(p) = ImagePoster(b, l, p)
    BY <1>2 DEF KioskPoster
  <2>2. l \in b.images \/ First(Offered(b)) = l
    <3>1. CASE b.locales \cap b.images = {}
      <4>1. Offered(b) = {AllLocales[1]}
        BY <1>2, <3>1 DEF Offered
      <4> QED
        BY <1>1, <4>1, SomeOffered
    <3>2. CASE b.locales \cap b.images # {}
      BY <1>1, <1>2, <3>2 DEF Offered
    <3> QED
      BY <3>1, <3>2
  <2> QED
    BY <1>1, <2>1, <2>2 DEF ImagePoster
<1>3. CASE b.layout = "arcade"
  BY <1>1, <1>3 DEF KioskPoster, ArcadePoster, ResolvePosterText
<1>4. CASE b.layout \notin {"image", "arcade"}
  BY <1>1, <1>4 DEF KioskPoster, ClassicPoster, ResolvePosterText
<1> QED
  BY <1>2, <1>3, <1>4

-----------------------------------------------------------------------------
(* The slides.                                                               *)

Durations == Nat \ {0}
Extra == [kind : {"promo", "media"}, time : Durations]
AnySlide == [kind : {"poster", "promo", "media"}, time : Durations]
Shape == [preview : BOOLEAN, stock : {"gone", "none", "some"},
          display : [branding : Branding \cup {None}, extras : Seq(Extra)],
          index : Nat, left : Nat, hold : 0 .. TouchHold, chosen : Locales \cup {None},
          reset : Nat, touches : Nat]

\* The slides of a page are at least one, each with a duration, and several as soon as there is
\* something besides the poster.
LEMMA SlidesAre ==
  ASSUME NEW p, p.display.extras \in Seq(Extra)
  PROVE  /\ Slides(p) \in Seq(AnySlide)
         /\ Len(Slides(p)) \in Nat \ {0} /\ (Len(Slides(p)) < 2 <=> p.display.extras = <<>>)
<1> PICK x \in Seq(Extra) : x = p.display.extras
  OBVIOUS
<1>1. Poster \in AnySlide
  BY TimesAssumption DEF AnySlide, Poster, Durations
<1>2. CASE x = <<>>
  <2>1. Slides(p) = <<Poster>>
    BY <1>2 DEF Slides
  <2> QED
    BY <1>1, <1>2, <2>1
<1>3. CASE x # <<>>
  <2>1. Len(x) \in Nat /\ Len(x) # 0
    BY <1>3
  <2> PICK n \in Nat : n = 2 * Len(x)
    BY <2>1
  <2>2. Slides(p) = [i \in 1 .. n |-> IF i % 2 = 1 THEN Poster ELSE x[i \div 2]]
    BY <1>3 DEF Slides
  <2>3. \A i \in 1 .. n : (IF i % 2 = 1 THEN Poster ELSE x[i \div 2]) \in AnySlide
    <3> TAKE i \in 1 .. n
    <3>1. CASE i % 2 = 1
      BY <1>1, <3>1
    <3>2. CASE i % 2 # 1
      <4>1. i \div 2 \in 1 .. Len(x)
        BY <3>2, <2>1
      <4>2. x[i \div 2] \in Extra
        BY <4>1
      <4>3. Extra \subseteq AnySlide
        BY DEF Extra, AnySlide
      <4> QED
        BY <3>2, <4>2, <4>3
    <3> QED
      BY <3>1, <3>2
  <2>4. Slides(p) \in [1 .. n -> AnySlide]
    BY <2>2, <2>3
  <2>5. Slides(p) \in Seq(AnySlide)
    BY <2>4, SeqDef
  <2>6. Len(Slides(p)) = n
    BY <2>4, <2>5, LenProperties
  <2> QED
    BY <1>3, <2>1, <2>5, <2>6
<1> QED
  BY <1>2, <1>3

\* The slide shown is one of them.
LEMMA SlideIs ==
  ASSUME NEW p, p.display.extras \in Seq(Extra), p.index \in Nat
  PROVE  Slide(p).time \in Durations
<1> PICK q \in Seq(AnySlide) : q = Slides(p)
  BY SlidesAre
<1> PICK n \in Nat \ {0} : n = Len(q)
  BY SlidesAre
<1> PICK k \in Int : k = p.index
  OBVIOUS
<1>1. k % n \in 0 .. n - 1
  BY Division
<1>2. (k % n) + 1 \in 1 .. n
  BY <1>1
<1>3. q[(k % n) + 1] \in AnySlide
  BY <1>2, LenProperties
<1> QED
  BY <1>3 DEF Slide, AnySlide

\* The greater of two numbers.
LEMMA MaxOfTwo ==
  ASSUME NEW a \in Nat, NEW b \in Nat
  PROVE  Max({a, b}) = IF a >= b THEN a ELSE b
<1>1. PICK m \in {a, b} : \A x \in {a, b} : m >= x
  OBVIOUS
<1>2. Max({a, b}) \in {a, b} /\ \A x \in {a, b} : Max({a, b}) >= x
  BY <1>1 DEF Max
<1> QED
  BY <1>2

\* The timer runs as soon as there are several slides.
LEMMA WaitIs ==
  ASSUME NEW p, p.display.extras \in Seq(Extra), p.index \in Nat, p.hold \in Nat
  PROVE  Wait(p) \in Nat /\ (Wait(p) = 0 <=> Len(Slides(p)) < 2)
<1>1. Slide(p).time \in Nat /\ Slide(p).time # 0
  BY SlideIs DEF Durations
<1>2. Max({Slide(p).time, p.hold}) \in Nat /\ Max({Slide(p).time, p.hold}) # 0
  BY <1>1, MaxOfTwo
<1>3. Len(Slides(p)) \in Nat
  BY SlidesAre
<1> QED
  BY <1>2, <1>3 DEF Wait

-----------------------------------------------------------------------------
(* The answer to display.                                                    *)

\* Every set of places has an order, by its least counterexample: an induction on the numbers of
\* places that cites no induction theorem.
Enumerates(s, S) == ToSet(s) = S /\ \A i, j \in DOMAIN s : i < j => s[i] < s[j]
HasOrder(S, n) == \E m \in 0 .. n : \E s \in [1 .. m -> S] : Enumerates(s, S)
Ordered(n) == \A S \in SUBSET (1 .. n) : HasOrder(S, n)

\* No place at all.
LEMMA OrderedFirst == Ordered(0)
<1> SUFFICES ASSUME NEW S \in SUBSET (1 .. 0)
             PROVE  HasOrder(S, 0)
  BY DEF Ordered
<1>1. S = {}
  OBVIOUS
<1> DEFINE s == [i \in 1 .. 0 |-> i]
<1>2. s \in [1 .. 0 -> S]
  BY <1>1
<1>3. Enumerates(s, S)
  BY <1>1 DEF Enumerates, ToSet
<1> HIDE DEF s
<1>4. 0 \in 0 .. 0
  OBVIOUS
<1> QED
  BY <1>2, <1>3, <1>4 DEF HasOrder

\* One place more comes last.
LEMMA OrderedNext ==
  ASSUME NEW n \in Nat, Ordered(n)
  PROVE  Ordered(n + 1)
<1> SUFFICES ASSUME NEW S \in SUBSET (1 .. n + 1)
             PROVE  HasOrder(S, n + 1)
  BY DEF Ordered
<1>0. S \ {n + 1} \subseteq 1 .. n
  OBVIOUS
<1> PICK R \in SUBSET (1 .. n) : R = S \ {n + 1}
  BY <1>0
<1> PICK m \in 0 .. n : \E r \in [1 .. m -> R] : Enumerates(r, R)
  BY DEF Ordered, HasOrder
<1> PICK r \in [1 .. m -> R] : Enumerates(r, R)
  OBVIOUS
<1>1. CASE n + 1 \notin S
  <2>1. R = S /\ m \in 0 .. n + 1
    BY <1>1
  <2> QED
    BY <2>1 DEF HasOrder
<1>2. CASE n + 1 \in S
  <2> DEFINE s == [i \in 1 .. m + 1 |-> IF i = m + 1 THEN n + 1 ELSE r[i]]
  <2>1. m \in Nat /\ m + 1 \in 0 .. n + 1 /\ S = R \cup {n + 1}
    BY <1>2
  <2>2. \A i \in 1 .. m : s[i] = r[i] /\ r[i] \in R
    BY <2>1
  <2>3. s[m + 1] = n + 1 /\ DOMAIN s = 1 .. m + 1 /\ DOMAIN r = 1 .. m
    BY <2>1
  <2> HIDE DEF s
  <2>4. s \in [1 .. m + 1 -> S]
    BY <2>1, <2>2 DEF s
  <2>5. ToSet(s) = S
    <3>1. ToSet(s) \subseteq S
      BY <2>3, <2>4 DEF ToSet
    <3>2. ASSUME NEW x \in S PROVE x \in ToSet(s)
      <4>1. CASE x = n + 1
        BY <2>1, <2>3, <4>1 DEF ToSet
      <4>2. CASE x \in R
        <5> PICK i \in DOMAIN r : r[i] = x
          BY <4>2 DEF Enumerates, ToSet
        <5>1. i \in 1 .. m /\ r[i] = x
          BY <2>3
        <5>2. i \in DOMAIN s /\ s[i] = x
          BY <2>1, <2>2, <2>3, <5>1
        <5> QED
          BY <5>2 DEF ToSet
      <4> QED
        BY <2>1, <4>1, <4>2
    <3> QED
      BY <3>1, <3>2
  <2>6. ASSUME NEW i \in DOMAIN s, NEW j \in DOMAIN s, i < j PROVE s[i] < s[j]
    <3>1. i \in 1 .. m
      BY <2>1, <2>3, <2>6
    <3>2. CASE j = m + 1
      <4>1. s[j] = n + 1 /\ s[i] \in 1 .. n
        BY <2>2, <2>3, <3>1, <3>2
      <4> QED
        BY <4>1
    <3>3. CASE j # m + 1
      <4>1. j \in 1 .. m
        BY <2>1, <2>3, <3>3
      <4> QED
        BY <2>2, <2>3, <2>6, <3>1, <4>1 DEF Enumerates
    <3> QED
      BY <3>2, <3>3
  <2>7. Enumerates(s, S)
    BY <2>5, <2>6 DEF Enumerates
  <2> QED
    BY <2>1, <2>4, <2>7 DEF HasOrder
<1> QED
  BY <1>1, <1>2

\* Any set of places has an order: else there would be a least length that has a set without.
LEMMA OrderedAll ==
  ASSUME NEW n \in Nat
  PROVE  Ordered(n)
<1> DEFINE Bad == {m \in Nat : ~Ordered(m)}
<1> SUFFICES ASSUME Bad # {} PROVE FALSE
  OBVIOUS
<1>1. Min(Bad) \in Bad /\ \A m \in Bad : Min(Bad) <= m
  <2>1. Bad \subseteq Nat
    OBVIOUS
  <2> HIDE DEF Bad
  <2> QED
    BY <2>1, MinOf
<1> PICK b \in Nat : b = Min(Bad)
  BY <1>1
<1>2. b # 0
  BY <1>1, OrderedFirst
<1>3. b - 1 \in Nat /\ b - 1 \notin Bad
  BY <1>1, <1>2
<1>4. Ordered(b - 1)
  BY <1>3
<1>5. Ordered((b - 1) + 1)
  BY <1>3, <1>4, OrderedNext
<1>6. (b - 1) + 1 = b
  OBVIOUS
<1> QED
  BY <1>1, <1>5, <1>6

\* The places of the promotions on the air, in their order.
LEMMA InOrderIs ==
  ASSUME NEW S \in SUBSET DOMAIN Promos
  PROVE  \E m \in Nat : InOrder(S) \in [1 .. m -> S]
<1> PICK n \in Nat : n = Len(Promos) /\ DOMAIN Promos = 1 .. n
  BY OrdersAssumption
<1>1. \E m \in 0 .. n : \E s \in [1 .. m -> S] : Enumerates(s, S)
  BY OrderedAll DEF Ordered, HasOrder
<1>2. \E s \in UNION {[1 .. m -> S] : m \in 0 .. n} : Enumerates(s, S)
  BY <1>1
<1>3. InOrder(S) \in UNION {[1 .. m -> S] : m \in 0 .. n}
  BY <1>2 DEF InOrder, Enumerates
<1> QED
  BY <1>3

-----------------------------------------------------------------------------
(* The invariant.                                                            *)

\* What the studio has written.
Studied ==
  /\ now \in 0 .. MaxTime
  /\ branding \in Branding /\ branding.locales # {}
  /\ DOMAIN promos \subseteq ToSet(Promos) /\ promos \in [DOMAIN promos -> Promo]
  /\ playlist \subseteq Clips
  /\ stock \in {"gone", "none", "some"}
\* The page: what it was told is of the right kind at any age, the timer of the slides runs as soon as
\* there are several, the timer of the language as soon as one is chosen.
Timed(p) == (p.left = 0 <=> Len(Slides(p)) < 2) /\ (p.chosen # None <=> p.reset # 0)
VenueInv == Studied /\ page \in Shape /\ Timed(page)

\* What a page answers to display is in order, whatever the database holds.
LEMMA DisplayIs ==
  ASSUME Studied
  PROVE  Display \in [branding : Branding \cup {None}, extras : Seq(Extra)]
<1> DEFINE Live(p) == stock # "gone" /\ p \in DOMAIN promos /\ PromoLiveAt(promos[p], now)
           S == {i \in DOMAIN Promos : Live(Promos[i])}
<1> PICK live : live = InOrder(S)
  OBVIOUS
<1> PICK m \in Nat : live \in [1 .. m -> S]
  BY InOrderIs
<1> DEFINE first == [i \in DOMAIN live |-> [kind |-> "promo", time |-> promos[Promos[live[i]]].time]]
<1>1. first \in Seq(Extra)
  <2>1. ASSUME NEW i \in 1 .. m
        PROVE  [kind |-> "promo", time |-> promos[Promos[live[i]]].time] \in Extra
    <3>1. live[i] \in S
      OBVIOUS
    <3>2. Promos[live[i]] \in DOMAIN promos
      BY <3>1
    <3>3. promos[Promos[live[i]]] \in Promo
      BY <3>2 DEF Studied
    <3> QED
      BY <3>3 DEF Promo, Extra, Durations
  <2>2. first \in [1 .. m -> Extra]
    BY <2>1
  <2> QED
    BY <2>2, SeqDef
<1>2. PICK c \in Nat : c = Cardinality(playlist)
  <2>1. IsFiniteSet(playlist)
    BY OrdersAssumption, FS_Subset DEF Studied
  <2> QED
    BY <2>1, FS_CardinalityType
<1> DEFINE second == [i \in 1 .. c |-> [kind |-> "media", time |-> ClipTime]]
<1>3. second \in Seq(Extra)
  <2>1. [kind |-> "media", time |-> ClipTime] \in Extra
    BY TimesAssumption DEF Extra, Durations
  <2>2. second \in [1 .. c -> Extra]
    BY <2>1
  <2> QED
    BY <2>2, SeqDef
<1>4. Display = [branding |-> IF stock = "gone" THEN None ELSE branding, extras |-> first \o second]
  BY <1>2 DEF Display
<1> HIDE DEF first, second
<1>5. first \o second \in Seq(Extra)
  BY <1>1, <1>3, ConcatProperties
<1> QED
  BY <1>4, <1>5 DEF Studied

\* The slides are made of the answer alone.
LEMMA SameSlides ==
  ASSUME NEW p, NEW q, p.display.extras = q.display.extras
  PROVE  Slides(p) = Slides(q)
BY DEF Slides

\* A page drawn anew keeps its timers.
LEMMA DrawnKeeps ==
  ASSUME NEW p \in Shape, NEW q \in Shape, q.chosen # None <=> q.reset # 0,
         Depends(p) = Depends(q) => (q.left = 0 <=> Len(Slides(q)) < 2)
  PROVE  Drawn(p, q) \in Shape /\ Timed(Drawn(p, q))
<1> PICK kept : kept = IF Mounted(p, q) THEN q ELSE [q EXCEPT !.chosen = None, !.reset = 0]
  OBVIOUS
<1>1. kept \in Shape /\ kept.display = q.display /\ kept.index = q.index /\ kept.hold = q.hold
      /\ kept.left = q.left
  BY DEF Shape
<1>2. kept.chosen # None <=> kept.reset # 0
  BY DEF Shape
<1>3. Slides(kept) = Slides(q)
  BY <1>1, SameSlides
<1>4. CASE Depends(p) = Depends(q)
  BY <1>1, <1>2, <1>3, <1>4 DEF Drawn, Timed
<1>5. CASE Depends(p) # Depends(q)
  <2> PICK w : w = Wait(kept)
    OBVIOUS
  <2>1. w \in Nat /\ (w = 0 <=> Len(Slides(kept)) < 2)
    <3>1. kept.display.extras \in Seq(Extra) /\ kept.index \in Nat /\ kept.hold \in Nat
      BY <1>1, TimesAssumption DEF Shape
    <3> QED
      BY <3>1, WaitIs
  <2> PICK d : d = [kept EXCEPT !.left = w]
    OBVIOUS
  <2>2. Drawn(p, q) = d
    BY <1>5 DEF Drawn
  <2>3. d \in Shape /\ d.display = kept.display /\ d.left = w /\ d.chosen = kept.chosen
        /\ d.reset = kept.reset
    BY <1>1, <2>1 DEF Shape
  <2>4. Slides(d) = Slides(kept)
    BY <2>3, SameSlides
  <2> QED
    BY <1>2, <2>1, <2>2, <2>3, <2>4 DEF Timed
<1> QED
  BY <1>4, <1>5

\* A number less its remainder is not negative: the place the slides go back to.
LEMMA RoundedDown ==
  ASSUME NEW i \in Nat, NEW n \in Nat \ {0}
  PROVE  i - (i % n) \in Nat
<1> PICK k \in Int : k = i \div n
  BY Division
<1> PICK m \in 0 .. n - 1 : m = i % n
  BY Division
<1>1. i = n * k + m
  BY Division
<1>2. k >= 0
  <2> SUFFICES ASSUME k <= -1 PROVE FALSE
    OBVIOUS
  <2>1. n * k <= n * (-1)
    OBVIOUS
  <2> QED
    BY <1>1, <2>1
<1>3. n * k \in Nat
  BY <1>2
<1> QED
  BY <1>1, <1>3

\* A page held by a touch too.
LEMMA HeldKeeps ==
  ASSUME NEW p \in Shape
  PROVE  /\ Held(p) \in Shape /\ (Held(p).left = 0 <=> Len(Slides(Held(p))) < 2)
         /\ Held(p).chosen = p.chosen /\ Held(p).reset = p.reset /\ Held(p).touches = p.touches
         /\ Slides(Held(p)) = Slides(p)
<1> PICK n \in Nat \ {0} : n = Len(Slides(p))
  BY SlidesAre DEF Shape
<1> PICK i \in Int : i = p.index
  BY DEF Shape
<1>1. i \in Nat
  BY DEF Shape
<1> PICK x \in Nat : x = i - (i % n)
  BY <1>1, RoundedDown
<1> PICK q : q = [p EXCEPT !.index = x, !.hold = TouchHold]
  OBVIOUS
<1>2. q = [p EXCEPT !.index = @ - (@ % Len(Slides(p))), !.hold = TouchHold]
  OBVIOUS
<1> PICK hold \in 0 .. TouchHold : hold = TouchHold
  BY TimesAssumption
<1>3. /\ q \in Shape /\ q.display = p.display /\ q.chosen = p.chosen /\ q.reset = p.reset
      /\ q.touches = p.touches
  <2>1. q = [p EXCEPT !.index = x, !.hold = hold]
    OBVIOUS
  <2> QED
    BY ONLY p \in Shape, x \in Nat, hold \in 0 .. TouchHold, <2>1 DEF Shape
<1> PICK w : w = Wait(q)
  OBVIOUS
<1>4. w \in Nat /\ (w = 0 <=> Len(Slides(q)) < 2)
  <2>1. q.display.extras \in Seq(Extra) /\ q.index \in Nat /\ q.hold \in Nat
    BY <1>3, TimesAssumption DEF Shape
  <2> QED
    BY <2>1, WaitIs
<1> PICK h : h = [q EXCEPT !.left = w]
  OBVIOUS
<1>5. /\ h \in Shape /\ h.left = w /\ h.display = q.display /\ h.chosen = q.chosen
      /\ h.reset = q.reset /\ h.touches = q.touches
  BY ONLY <1>3, <1>4, h = [q EXCEPT !.left = w] DEF Shape
<1>6. Held(p) = h
  BY <1>2 DEF Held
<1>7. Slides(h) = Slides(q) /\ Slides(q) = Slides(p)
  BY <1>3, <1>5, SameSlides
<1> QED
  BY <1>3, <1>4, <1>5, <1>6, <1>7

\* The invariant holds when a page opens.
LEMMA InitVenue == Init => VenueInv
<1> SUFFICES ASSUME Init PROVE VenueInv
  OBVIOUS
<1>1. DefaultBranding \in Branding /\ DefaultBranding.locales # {}
  BY OrdersAssumption DEF DefaultBranding, Branding, Layouts
<1>2. Studied
  <2>1. promos \in [DOMAIN promos -> Promo] /\ DOMAIN promos = {}
    BY DEF Init
  <2> QED
    BY <1>1, <2>1, Calendar DEF Init, Studied
<1>3. page \in Shape
  BY <1>1, TimesAssumption DEF Init, Shape
<1>4. Slides(page) = <<Poster>>
  BY DEF Init, Slides
<1>5. page.left = 0 /\ page.chosen = None /\ page.reset = 0
  BY DEF Init
<1>6. Len(<<Poster>>) = 1
  OBVIOUS
<1> QED
  BY <1>2, <1>3, <1>4, <1>5, <1>6 DEF VenueInv, Timed

\* The studio writes what has the right kind.
LEMMA StudioKeeps ==
  ASSUME Studied, Studio
  PROVE  Studied' /\ page' = page
<1>1. ASSUME SetVenueBranding PROVE Studied' /\ page' = page
  <2> PICK f \in BrandingEditor : CanSetBranding(f) /\ branding' = Dressed(f)
    BY <1>1 DEF SetVenueBranding
  <2>1. f \in Branding /\ f.locales # {}
    BY FormsAssumption DEF BrandingEditor
  <2>2. Dressed(f) \in Branding /\ Dressed(f).locales # {}
    <3>1. CASE f.layout = "image"
      <4>1. First(f.locales) \in f.locales /\ First(f.locales) \in f.images
        BY <2>1, <3>1, FirstIn DEF CanSetBranding, Branding
      <4> QED
        BY <2>1, <3>1, <4>1 DEF Dressed, Branding
    <3>2. CASE f.layout # "image"
      BY <2>1, <3>2 DEF Dressed, Branding
    <3> QED
      BY <3>1, <3>2
  <2> QED
    BY <1>1, <2>2 DEF SetVenueBranding, Studied
<1>2. ASSUME SavePromo PROVE Studied' /\ page' = page
  <2> PICK f \in PromoEditor, p \in ToSet(Promos) :
        LET status == IF p \in DOMAIN promos THEN promos[p].status ELSE "DRAFT"
        IN  promos' = [q \in DOMAIN promos \cup {p} |->
                         IF q = p THEN [f EXCEPT !.status = status] ELSE promos[q]]
    BY <1>2 DEF SavePromo
  <2> PICK status : status = IF p \in DOMAIN promos THEN promos[p].status ELSE "DRAFT"
    OBVIOUS
  <2>1. f \in Promo
    BY FormsAssumption DEF PromoEditor
  <2>2. status \in {"DRAFT", "PUBLISHED", "ARCHIVED"}
    BY DEF Studied, Promo
  <2>3. [f EXCEPT !.status = status] \in Promo
    BY <2>1, <2>2 DEF Promo
  <2>4. promos' = [q \in DOMAIN promos \cup {p} |->
                     IF q = p THEN [f EXCEPT !.status = status] ELSE promos[q]]
    OBVIOUS
  <2>5. promos' \in [DOMAIN promos \cup {p} -> Promo]
    BY <2>3, <2>4 DEF Studied
  <2>6. DOMAIN promos' = DOMAIN promos \cup {p}
    BY <2>4
  <2> QED
    BY <1>2, <2>5, <2>6 DEF SavePromo, Studied
<1>3. ASSUME SetPromoStatus PROVE Studied' /\ page' = page
  <2> PICK p \in DOMAIN promos, status \in {"PUBLISHED", "ARCHIVED"} :
        promos' = [promos EXCEPT ![p].status = status]
    BY <1>3 DEF SetPromoStatus
  <2>1. [promos[p] EXCEPT !.status = status] \in Promo
    BY DEF Studied, Promo
  <2>2. promos' \in [DOMAIN promos -> Promo] /\ DOMAIN promos' = DOMAIN promos
    BY <2>1 DEF Studied
  <2> QED
    BY <1>3, <2>2 DEF SetPromoStatus, Studied
<1>4. ASSUME SetMediaStatus PROVE Studied' /\ page' = page
  BY <1>4 DEF SetMediaStatus, Studied
<1>5. ASSUME StockChanges PROVE Studied' /\ page' = page
  BY <1>5 DEF StockChanges, Studied
<1> QED
  BY <1>1, <1>2, <1>3, <1>4, <1>5 DEF Studio

\* A new answer or a new preview leaves the chosen language and its timer as they were.
LEMMA FetchedKeeps ==
  ASSUME VenueInv, NEW q \in Shape, q.chosen = page.chosen, q.reset = page.reset,
         Depends(page) = Depends(q) => (q.left = 0 <=> Len(Slides(q)) < 2)
  PROVE  Drawn(page, q) \in Shape /\ Timed(Drawn(page, q))
<1> PICK p \in Shape : p = page
  BY DEF VenueInv
<1>1. q.chosen # None <=> q.reset # 0
  BY DEF VenueInv, Timed
<1>2. Depends(p) = Depends(q) => (q.left = 0 <=> Len(Slides(q)) < 2)
  OBVIOUS
<1>3. Drawn(p, q) \in Shape /\ Timed(Drawn(p, q))
  BY <1>1, <1>2, DrawnKeeps
<1> QED
  BY <1>3

\* The page too, whatever it is told.
LEMMA ScreenKeeps ==
  ASSUME VenueInv, FetchDisplay \/ FetchPublic \/ KioskPreview
  PROVE  VenueInv'
<1>1. ASSUME FetchDisplay PROVE VenueInv'
  <2> PICK d \in [branding : Branding \cup {None}, extras : Seq(Extra)] : d = Display
    BY DisplayIs DEF VenueInv
  <2> PICK q : q = [page EXCEPT !.display = d]
    OBVIOUS
  <2>1. q \in Shape /\ q.left = page.left /\ q.chosen = page.chosen /\ q.reset = page.reset
    BY DEF VenueInv, Shape
  <2>2. ASSUME Depends(page) = Depends(q) PROVE q.left = 0 <=> Len(Slides(q)) < 2
    <3>1. Len(Slides(page)) = Len(Slides(q))
      BY <2>2 DEF Depends
    <3> QED
      BY <2>1, <3>1 DEF VenueInv, Timed
  <2>3. Drawn(page, q) \in Shape /\ Timed(Drawn(page, q))
    BY <2>1, <2>2, FetchedKeeps
  <2>4. page' = Drawn(page, q)
    BY <1>1 DEF FetchDisplay
  <2>5. Timed(page')
    BY <2>3, <2>4
  <2>6. Studied'
    BY <1>1 DEF VenueInv, FetchDisplay, Studied
  <2> QED
    BY <2>3, <2>4, <2>5, <2>6 DEF VenueInv, Timed
<1>2. ASSUME FetchPublic PROVE VenueInv'
  <2> PICK q : q = [page EXCEPT !.stock = stock]
    OBVIOUS
  <2>1. q \in Shape /\ q.left = page.left /\ q.chosen = page.chosen /\ q.reset = page.reset
        /\ q.display = page.display
    BY DEF VenueInv, Studied, Shape
  <2>2. Slides(q) = Slides(page)
    BY <2>1, SameSlides
  <2>3. Drawn(page, q) \in Shape /\ Timed(Drawn(page, q))
    <3>1. Depends(page) = Depends(q) => (q.left = 0 <=> Len(Slides(q)) < 2)
      BY <2>1, <2>2 DEF VenueInv, Timed
    <3> QED
      BY <2>1, <3>1, FetchedKeeps
  <2>4. page' = Drawn(page, q)
    BY <1>2 DEF FetchPublic
  <2>5. Timed(page')
    BY <2>3, <2>4
  <2>6. Studied'
    BY <1>2 DEF VenueInv, FetchPublic, Studied
  <2> QED
    BY <2>3, <2>4, <2>5, <2>6 DEF VenueInv, Timed
<1>3. ASSUME KioskPreview PROVE VenueInv'
  <2> PICK f \in BrandingEditor : page' = Drawn(page, [page EXCEPT !.display.branding = f])
    BY <1>3 DEF KioskPreview
  <2> PICK q : q = [page EXCEPT !.display.branding = f]
    OBVIOUS
  <2>1. f \in Branding
    BY FormsAssumption DEF BrandingEditor
  <2>2. q \in Shape /\ q.left = page.left /\ q.chosen = page.chosen /\ q.reset = page.reset
        /\ q.display.extras = page.display.extras
    <3>1. [page.display EXCEPT !.branding = f] \in [branding : Branding \cup {None}, extras : Seq(Extra)]
      BY <2>1 DEF VenueInv, Shape
    <3>2. q = [page EXCEPT !.display = [page.display EXCEPT !.branding = f]]
      OBVIOUS
    <3> QED
      BY <3>1, <3>2 DEF VenueInv, Shape
  <2>3. Slides(q) = Slides(page)
    BY <2>2, SameSlides
  <2>4. Drawn(page, q) \in Shape /\ Timed(Drawn(page, q))
    <3>1. Depends(page) = Depends(q) => (q.left = 0 <=> Len(Slides(q)) < 2)
      BY <2>2, <2>3 DEF VenueInv, Timed
    <3> QED
      BY <2>2, <3>1, FetchedKeeps
  <2>5. page' = Drawn(page, q)
    OBVIOUS
  <2>6. Timed(page')
    BY <2>4, <2>5
  <2>7. Studied'
    BY <1>3 DEF VenueInv, KioskPreview, Studied
  <2> QED
    BY <2>4, <2>5, <2>6, <2>7 DEF VenueInv, Timed
<1> QED
  BY <1>1, <1>2, <1>3

\* Touches keep it: a language is chosen with its timer.
LEMMA TouchKeeps ==
  ASSUME VenueInv, TouchExtra \/ ChooseLocale
  PROVE  VenueInv'
<1> PICK p \in Shape : p = page
  BY DEF VenueInv
<1> PICK h \in Shape : h = Held(page)
  BY HeldKeeps
<1>1. /\ h.left = 0 <=> Len(Slides(h)) < 2
      /\ h.chosen = page.chosen /\ h.reset = page.reset /\ h.touches = page.touches
  BY HeldKeeps
<1>2. page.chosen # None <=> page.reset # 0
  BY DEF VenueInv, Timed
<1> PICK touches \in Nat : touches = h.touches + 1
  BY DEF Shape
<1>3. ASSUME TouchExtra PROVE VenueInv'
  <2> PICK q : q = [h EXCEPT !.touches = touches]
    OBVIOUS
  <2>1. /\ q \in Shape /\ q.left = h.left /\ q.chosen = h.chosen /\ q.reset = h.reset
        /\ q.display = h.display
    BY ONLY h \in Shape, touches \in Nat, q = [h EXCEPT !.touches = touches] DEF Shape
  <2>2. Slides(q) = Slides(h)
    BY <2>1, SameSlides
  <2>3. Timed(q)
    BY <1>1, <1>2, <2>1, <2>2 DEF Timed
  <2>4. page' = q
    BY <1>3 DEF TouchExtra
  <2>5. Timed(page')
    BY <2>3, <2>4
  <2>6. Studied'
    BY <1>3 DEF VenueInv, TouchExtra, Studied
  <2> QED
    BY <2>1, <2>4, <2>5, <2>6 DEF VenueInv, Timed
<1>4. ASSUME ChooseLocale PROVE VenueInv'
  <2> PICK locales : locales = Offered(page.display.branding)
    OBVIOUS
  <2> PICK l \in locales :
        LET c == IF l = First(locales) THEN None ELSE l
        IN  page' = [Held(page) EXCEPT !.chosen = c, !.touches = @ + 1,
                       !.reset = IF c = None THEN 0 ELSE IF c = page.chosen THEN @ ELSE LocaleReset]
    BY <1>4 DEF ChooseLocale
  <2> PICK c : c = IF l = First(locales) THEN None ELSE l
    OBVIOUS
  <2> PICK reset : reset = IF c = None THEN 0 ELSE IF c = page.chosen THEN h.reset ELSE LocaleReset
    OBVIOUS
  <2>1. page.display.branding \in Branding
    BY <1>4 DEF ChooseLocale, Staged, VenueInv, Shape
  <2>2. l \in Locales /\ l # None
    BY <2>1, SomeOffered, OrdersAssumption
  <2>3. c \in Locales \cup {None}
    BY <2>2
  <2>4. reset \in Nat /\ (c # None <=> reset # 0)
    BY <1>1, <1>2, TimesAssumption DEF Shape
  <2> PICK q : q = [h EXCEPT !.chosen = c, !.touches = touches, !.reset = reset]
    OBVIOUS
  <2>5. /\ q \in Shape /\ q.left = h.left /\ q.chosen = c /\ q.reset = reset
        /\ q.display = h.display
    BY ONLY h \in Shape, touches \in Nat, <2>3, <2>4,
            q = [h EXCEPT !.chosen = c, !.touches = touches, !.reset = reset]
       DEF Shape
  <2>6. Slides(q) = Slides(h)
    BY <2>5, SameSlides
  <2>7. Timed(q)
    BY <1>1, <2>4, <2>5, <2>6 DEF Timed
  <2>8. page' = q
    <3>1. page' = [h EXCEPT !.chosen = c, !.touches = @ + 1, !.reset = IF c = None THEN 0 ELSE
                     IF c = page.chosen THEN @ ELSE LocaleReset]
      OBVIOUS
    <3> QED
      BY <3>1
  <2>9. Timed(page')
    BY <2>7, <2>8
  <2>10. Studied'
    BY <1>4 DEF VenueInv, ChooseLocale, Studied
  <2> QED
    BY <2>5, <2>8, <2>9, <2>10 DEF VenueInv, Timed
<1> QED
  BY <1>3, <1>4

\* One less, never below nothing.
LEMMA LessIs ==
  ASSUME NEW n \in Nat
  PROVE  Less(n) = IF n = 0 THEN 0 ELSE n - 1
<1>1. CASE n = 0
  <2>1. PICK m \in {n - 1, 0} : \A x \in {n - 1, 0} : m >= x
    BY <1>1
  <2>2. Max({n - 1, 0}) \in {n - 1, 0} /\ \A x \in {n - 1, 0} : Max({n - 1, 0}) >= x
    BY <2>1 DEF Max
  <2> QED
    BY <1>1, <2>2 DEF Less
<1>2. CASE n # 0
  BY <1>2, MaxOfTwo DEF Less
<1> QED
  BY <1>1, <1>2

\* The next slide is another one when there are several.
LEMMA NextIndex ==
  ASSUME NEW i \in Nat, NEW n \in Nat, n >= 2
  PROVE  (i + 1) % n \in Nat /\ (i + 1) % n # i
<1> PICK a \in Int : a = i + 1
  OBVIOUS
<1> PICK k \in Int : k = a \div n
  BY Division
<1> PICK m \in 0 .. n - 1 : m = a % n
  BY Division
<1>1. a = n * k + m
  BY Division
<1>2. SUFFICES ASSUME m = i PROVE FALSE
  OBVIOUS
<1>3. n * k = 1
  BY <1>1, <1>2
<1>4. CASE k <= 0
  <2>1. n * k <= n * 0
    BY <1>4
  <2> QED
    BY <1>3, <2>1
<1>5. CASE k >= 1
  <2>1. n * k >= n * 1
    BY <1>5
  <2> QED
    BY <1>3, <2>1
<1> QED
  BY <1>4, <1>5

\* A step of time keeps it.
LEMMA TickKeeps ==
  ASSUME VenueInv, Tick
  PROVE  VenueInv'
<1> PICK p \in Shape : p = page
  BY DEF VenueInv
<1>1. Timed(p)
  BY DEF VenueInv
<1>2. Studied'
  <2>1. Min({now + 1, MaxTime}) \in 0 .. MaxTime
    <3>1. {now + 1, MaxTime} \in SUBSET Nat
      BY Calendar DEF VenueInv, Studied
    <3>2. Min({now + 1, MaxTime}) \in {now + 1, MaxTime} /\ Min({now + 1, MaxTime}) <= MaxTime
      BY <3>1, MinOf
    <3> QED
      BY <3>1, <3>2, Calendar
  <2> QED
    BY <2>1 DEF VenueInv, Tick, Studied
<1> PICK hold \in 0 .. TouchHold : hold = Less(p.hold)
  BY LessIs, TimesAssumption DEF Shape
<1> PICK left \in Nat : left = Less(p.left)
  BY LessIs DEF Shape
<1> PICK reset \in Nat : reset = Less(p.reset)
  BY LessIs DEF Shape
<1> PICK chosen \in Locales \cup {None} : chosen = IF p.reset = 1 THEN None ELSE p.chosen
  BY DEF Shape
<1>3. chosen # None <=> reset # 0
  BY <1>1, LessIs DEF Timed, Shape
<1> PICK r : r = [p EXCEPT !.hold = hold, !.left = left, !.reset = reset, !.chosen = chosen]
  OBVIOUS
<1>4. /\ r \in Shape /\ r.left = left /\ r.chosen = chosen /\ r.reset = reset
      /\ r.display = p.display /\ r.index = p.index
  BY ONLY p \in Shape, hold \in 0 .. TouchHold, left \in Nat, reset \in Nat,
          chosen \in Locales \cup {None},
          r = [p EXCEPT !.hold = hold, !.left = left, !.reset = reset, !.chosen = chosen]
     DEF Shape
<1>5. Slides(r) = Slides(p)
  BY <1>4, SameSlides
<1>6. r = [page EXCEPT !.hold = Less(@), !.left = Less(@), !.reset = Less(@),
             !.chosen = IF page.reset = 1 THEN None ELSE @]
  OBVIOUS
<1>7. page' = IF p.left = 1 THEN Drawn(p, [r EXCEPT !.index = (@ + 1) % Len(Slides(p))]) ELSE r
  BY <1>6 DEF Tick
<1>8. page' \in Shape /\ Timed(page')
  <2>1. CASE p.left = 1
    <3> PICK n \in Nat : n = Len(Slides(p)) /\ n >= 2
      BY <1>1, <2>1, SlidesAre DEF Timed, Shape
    <3> PICK i \in Nat : i = (p.index + 1) % n /\ i # p.index
      BY NextIndex DEF Shape
    <3> PICK q : q = [r EXCEPT !.index = i]
      OBVIOUS
    <3>1. q \in Shape /\ q.index = i /\ q.chosen = r.chosen /\ q.reset = r.reset
      BY ONLY <1>4, i \in Nat, q = [r EXCEPT !.index = i] DEF Shape
    <3>2. Depends(p) # Depends(q)
      BY <3>1 DEF Depends
    <3>3. Drawn(p, q) \in Shape /\ Timed(Drawn(p, q))
      <4>1. q.chosen # None <=> q.reset # 0
        BY <1>3, <1>4, <3>1
      <4>2. Depends(p) = Depends(q) => (q.left = 0 <=> Len(Slides(q)) < 2)
        BY <3>2
      <4> QED
        BY <3>1, <4>1, <4>2, DrawnKeeps
    <3>4. q = [r EXCEPT !.index = (@ + 1) % Len(Slides(p))]
      BY <1>4
    <3>5. page' = Drawn(p, q)
      BY <1>7, <2>1, <3>4
    <3> QED
      BY <3>3, <3>5
  <2>2. CASE p.left # 1
    <3>1. left = 0 <=> p.left = 0
      BY <2>2, LessIs DEF Shape
    <3>2. Timed(r)
      BY <1>1, <1>3, <1>4, <1>5, <3>1 DEF Timed
    <3> QED
      BY <1>4, <1>7, <2>2, <3>2
  <2> QED
    BY <2>1, <2>2
<1> QED
  BY <1>2, <1>8 DEF VenueInv, Timed

\* No step of the venue disturbs the invariant.
LEMMA NextVenue == VenueInv /\ [Next]_vars => VenueInv'
<1> SUFFICES ASSUME VenueInv, [Next]_vars PROVE VenueInv'
  OBVIOUS
<1>1. ASSUME Studio PROVE VenueInv'
  <2>1. Studied' /\ page' = page
    BY <1>1, StudioKeeps DEF VenueInv
  <2>2. Timed(page')
    BY <2>1 DEF VenueInv
  <2> QED
    BY <2>1, <2>2 DEF VenueInv, Timed
<1>2. CASE UNCHANGED vars
  BY <1>2 DEF vars, VenueInv, Studied, Timed
<1> QED
  BY <1>1, <1>2, ScreenKeeps, TouchKeeps, TickKeeps DEF Next, Screen

\* What the studio and the page hold is always of its kind, and the page's timers run when they must.
THEOREM VenueInvariant == Spec => []VenueInv
<1> QED
  BY InitVenue, NextVenue, PTL DEF Spec

\* A promotion is on the air exactly during the windows that open on its days, also across midnight
\* and across the week's end, and between its two dates (promoLiveAt, parisClock).
THEOREM OnSchedule == Spec => []PromoOnSchedule
<1>1. VenueInv => PromoOnSchedule
  <2> SUFFICES ASSUME VenueInv PROVE PromoOnSchedule
    OBVIOUS
  <2>1. TypeOK
    BY DEF VenueInv, Studied, Timed, Shape, TypeOK
  <2>2. \A i \in DOMAIN promos : promos[i] \in Promo
    BY DEF VenueInv, Studied
  <2>3. now \in 0 .. MaxTime
    BY DEF VenueInv, Studied
  <2> QED
    BY <2>1, <2>2, <2>3, Windows DEF PromoOnSchedule
<1> QED
  BY <1>1, VenueInvariant, PTL

\* The poster speaks the language its buttons show as chosen, one it offers, in words and in
\* pictures, whatever is withdrawn after a customer chose (setVenueBranding, usePosterLocale).
THEOREM SpeaksOnOffer == Spec => []LanguageOnOffer
<1>1. VenueInv => LanguageOnOffer
  <2> SUFFICES ASSUME VenueInv, Staged(page) PROVE LanguageOnOffer
    BY DEF LanguageOnOffer
  <2>1. page.display.branding \in Branding
    BY DEF VenueInv, Shape, Staged
  <2> QED
    BY <2>1, PosterSpeaks DEF LanguageOnOffer
<1> QED
  BY <1>1, VenueInvariant, PTL
=============================================================================
