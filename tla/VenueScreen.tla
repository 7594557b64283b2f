----------------------------- MODULE VenueScreen -----------------------------
(***************************************************************************)
(* What the screen of a station shows between two rentals.  BATYEO dresses *)
(* a venue in its colours, languages and pictures and schedules its        *)
(* promotions by Paris days and hours; a page in the venue asks for all of *)
(* it from time to time and turns poster, promotion, poster, clip, while   *)
(* passers-by touch it.  Time is in steps, for calendar and timers alike.  *)
(***************************************************************************)
EXTENDS Integers, Sequences, SequencesExt, FiniteSetsExt

CONSTANTS
  None,
  AllLocales,     \* the languages in the order of the buttons, French first
  BrandingForms,  \* brandings the studio may send
  PromoForms,     \* promotions the editor may send
  Promos, Clips,  \* promotions of the venue in the order of creation, its media
  ClipTime, PosterTime, TouchHold, LocaleReset,  \* durations on screen
  DaysPerWeek, MinutesPerDay,  \* the calendar: 7 and 1440 in the code
  MaxTime,        \* bound of the calendar, which then stands still
  MaxWrites, MaxTouches  \* bounds of the edits and of the touches

Locales == ToSet(AllLocales)
Days == 0 .. DaysPerWeek - 1
Minutes == 0 .. MinutesPerDay
Layouts == {"classic", "arcade", "image"}
Branding == [layout : Layouts, locales : SUBSET Locales, copy : SUBSET Locales, images : SUBSET Locales]
Promo == [days : SUBSET Days, from : Minutes, to : Minutes, starts : Int, ends : Int,
          time : Nat \ {0}, status : {"DRAFT", "PUBLISHED", "ARCHIVED"}]

ASSUME OrdersAssumption ==
  /\ AllLocales \in Seq(Locales) /\ AllLocales # <<>> /\ None \notin Locales
  /\ Promos \in Seq(ToSet(Promos)) /\ IsFiniteSet(Clips)
ASSUME FormsAssumption == BrandingForms \subseteq Branding /\ PromoForms \subseteq Promo
ASSUME TimesAssumption ==
  /\ {PosterTime, ClipTime, TouchHold, LocaleReset, DaysPerWeek, MinutesPerDay} \subseteq Nat \ {0}
  /\ MaxTime \in Nat /\ MaxWrites \in Nat /\ MaxTouches \in Nat

VARIABLES
  now,       \* Paris time, in minutes since a Sunday
  branding,  \* of the venue
  promos,    \* the promotions written so far: a function on some of Promos
  playlist,  \* the clips on the air
  stock,     \* what the station can do: "gone" (archived), "none" or "some" to rent
  writes,    \* edits so far
  page       \* the page of the screen, or of the designs (preview)
vars == <<now, branding, promos, playlist, stock, writes, page>>

-----------------------------------------------------------------------------
(* What the studio writes. *)

\* The first language of a set, in the order of the buttons.
First(set) == AllLocales[Min({i \in DOMAIN AllLocales : AllLocales[i] \in set})]
\* setVenueBranding: with pictures, only the languages that have theirs are offered.
CanSetBranding(f) ==
  f.locales # {} /\ (f.layout = "image" => First(f.locales) \in f.images)
Dressed(f) ==
  [f EXCEPT !.locales = IF f.layout = "image" THEN f.locales \cap f.images ELSE f.locales]

DefaultBranding == [layout |-> "classic", locales |-> Locales, copy |-> {}, images |-> {}]

\* checkPromo.
CanSavePromo(f) == f.days # {} /\ f.from # f.to /\ f.starts < f.ends

Day(t) == (t \div MinutesPerDay) % DaysPerWeek
Minute(t) == t % MinutesPerDay
\* Mutant: the hours after midnight count for the day they fall on.
PromoLiveAtToday(p, t) ==
  /\ p.status = "PUBLISHED" /\ p.starts <= t /\ t < p.ends
  /\ Day(t) \in p.days
  /\ IF p.from < p.to THEN p.from <= Minute(t) /\ Minute(t) < p.to
     ELSE p.from <= Minute(t) \/ Minute(t) < p.to
\* promoLiveAt: the part after midnight belongs to the day the window opened on.
PromoLiveAt(p, t) ==
  /\ p.status = "PUBLISHED" /\ p.starts <= t /\ t < p.ends
  /\ IF p.from < p.to
     THEN Day(t) \in p.days /\ p.from <= Minute(t) /\ Minute(t) < p.to
     ELSE \/ Day(t) \in p.days /\ p.from <= Minute(t)
          \/ (Day(t) + DaysPerWeek - 1) % DaysPerWeek \in p.days /\ Minute(t) < p.to

\* A set of places in the list of promotions, in their order.
InOrder(S) ==
  CHOOSE s \in UNION {[1 .. n -> S] : n \in 0 .. Len(Promos)} :
    ToSet(s) = S /\ \A i, j \in DOMAIN s : i < j => s[i] < s[j]
\* posterFor and the playlist of the station: the answer to display.
Display ==
  LET Live(p) == stock # "gone" /\ p \in DOMAIN promos /\ PromoLiveAt(promos[p], now)
      live == InOrder({i \in DOMAIN Promos : Live(Promos[i])})
  IN  [branding |-> IF stock = "gone" THEN None ELSE branding,
       extras |-> [i \in DOMAIN live |-> [kind |-> "promo", time |-> promos[Promos[live[i]]].time]]
                  \o [i \in 1 .. Cardinality(playlist) |-> [kind |-> "media", time |-> ClipTime]]]

Edit == writes < MaxWrites /\ writes' = writes + 1
BrandingEditor == {f \in BrandingForms : f.locales # {}}
SetVenueBranding ==
  /\ Edit
  /\ \E f \in BrandingEditor : CanSetBranding(f) /\ branding' = Dressed(f)
  /\ UNCHANGED <<now, promos, playlist, stock, page>>
PromoEditor == {f \in PromoForms : f.days # {} /\ f.from # f.to}
SavePromo ==
  /\ Edit
  /\ \E f \in PromoEditor, p \in ToSet(Promos) :
       /\ CanSavePromo(f)
       /\ LET status == IF p \in DOMAIN promos THEN promos[p].status ELSE "DRAFT"
          IN  promos' = [q \in DOMAIN promos \cup {p} |->
                           IF q = p THEN [f EXCEPT !.status = status] ELSE promos[q]]
  /\ UNCHANGED <<now, branding, playlist, stock, page>>
SetPromoStatus ==
  /\ Edit
  /\ \E p \in DOMAIN promos : \E status \in {"PUBLISHED", "ARCHIVED"} \ {promos[p].status} :
       promos' = [promos EXCEPT ![p].status = status]
  /\ UNCHANGED <<now, branding, playlist, stock, page>>
SetMediaStatus ==
  /\ Edit
  /\ \E c \in Clips : playlist' = IF c \in playlist THEN playlist \ {c} ELSE playlist \cup {c}
  /\ UNCHANGED <<now, branding, promos, stock, page>>
\* Rentals, returns, losses of connection and archiving, as the public list of stations tells them.
StockChanges ==
  /\ Edit
  /\ stock' \in {"gone", "none", "some"} \ {stock}
  /\ UNCHANGED <<now, branding, promos, playlist, page>>

-----------------------------------------------------------------------------
(* What the page makes of it. *)

Poster == [kind |-> "poster", time |-> PosterTime]
\* Mutant: nothing but promotions and clips once there are some.
SlidesOfExtras(p) == IF p.display.extras = <<>> THEN <<Poster>> ELSE p.display.extras
Slides(p) ==
  IF p.display.extras = <<>> THEN <<Poster>>
  ELSE [i \in 1 .. 2 * Len(p.display.extras) |->
          IF i % 2 = 1 THEN Poster ELSE p.display.extras[i \div 2]]
Slide(p) == Slides(p)[(p.index % Len(Slides(p))) + 1]
\* The stage is empty until both answers are there, and while the station is not in the list.
Staged(p) == p.stock \in {"none", "some"} /\ p.display.branding # None
CanRent(p) == p.stock = "some"

\* Mutant: a language chosen before the branding changed is kept.
UsePosterLocaleChosen(locales, chosen) == IF chosen # None THEN chosen ELSE First(locales)
\* usePosterLocale: the chosen language while it is offered, else the first.
UsePosterLocale(locales, chosen) == IF chosen \in locales THEN chosen ELSE First(locales)
Offered(b) ==
  LET set == IF b.layout = "image" THEN b.locales \cap b.images ELSE b.locales
  IN  IF set = {} THEN {AllLocales[1]} ELSE set
\* resolvePosterText: the venue's own words, else BATYEO's in the same language.
ResolvePosterText(b, l) == [in |-> l, own |-> l \in b.copy]

\* What each poster draws: its buttons, its language, its words or its picture, its code.
ClassicPoster(b, l, p) ==
  [buttons |-> Offered(b), lang |-> l, text |-> ResolvePosterText(b, l), qr |-> CanRent(p)]
ArcadePoster(b, l, p) ==
  [buttons |-> Offered(b), lang |-> l, text |-> ResolvePosterText(b, l), qr |-> CanRent(p)]
ImagePoster(b, l, p) ==
  LET picture == IF l \in b.images THEN l ELSE First(Offered(b))
  IN  [buttons |-> Offered(b), lang |-> l, text |-> [in |-> picture, own |-> TRUE], qr |-> CanRent(p)]
KioskPoster(p) ==
  LET b == p.display.branding
      l == UsePosterLocale(Offered(b), p.chosen)
  IN  CASE b.layout = "image"  -> ImagePoster(b, l, p)
        [] b.layout = "arcade" -> ArcadePoster(b, l, p)
        [] OTHER               -> ClassicPoster(b, l, p)
\* A promotion is in French and keeps the code in its corner; a clip has none.
KioskPromo(p) == [lang |-> AllLocales[1], qr |-> CanRent(p)]
ShowsQr(p) ==
  /\ Staged(p)
  /\ \/ Slide(p).kind = "poster" /\ KioskPoster(p).qr
     \/ Slide(p).kind = "promo" /\ KioskPromo(p).qr

\* The timer of the slide, started again whenever what it depends on changes.
Wait(p) == IF Len(Slides(p)) < 2 THEN 0 ELSE Max({Slide(p).time, p.hold})
Depends(p) == <<p.index, Len(Slides(p)), Slide(p).time>>
\* The chosen language belongs to the poster drawn, and goes with it.
Mounted(p, q) ==
  /\ Staged(p) /\ Staged(q) /\ Slide(p).kind = "poster" /\ Slide(q).kind = "poster"
  /\ p.display.branding.layout = q.display.branding.layout
Drawn(p, q) ==
  LET kept == IF Mounted(p, q) THEN q ELSE [q EXCEPT !.chosen = None, !.reset = 0]
  IN  IF Depends(p) = Depends(q) THEN kept ELSE [kept EXCEPT !.left = Wait(kept)]

\* useApi: what the timers of the two answers bring.
FetchDisplay ==
  /\ ~page.preview
  /\ page' = Drawn(page, [page EXCEPT !.display = Display])
  /\ UNCHANGED <<now, branding, promos, playlist, stock, writes>>
FetchPublic ==
  /\ ~page.preview
  /\ page' = Drawn(page, [page EXCEPT !.stock = stock])
  /\ UNCHANGED <<now, branding, promos, playlist, stock, writes>>
\* The page of the designs: it draws a form as it is, before any rule of the server.
KioskPreview ==
  /\ page.preview /\ Edit
  /\ \E f \in BrandingEditor : page' = Drawn(page, [page EXCEPT !.display.branding = f])
  /\ UNCHANGED <<now, branding, promos, playlist, stock>>

Held(p) ==
  LET q == [p EXCEPT !.index = @ - (@ % Len(Slides(p))), !.hold = TouchHold]
  IN  [q EXCEPT !.left = Wait(q)]
Touched == page.touches < MaxTouches
\* A touch on a promotion or a clip brings the poster back for a while.
TouchExtra ==
  /\ Touched /\ Slide(page).kind # "poster"
  /\ page' = [Held(page) EXCEPT !.touches = @ + 1]
  /\ UNCHANGED <<now, branding, promos, playlist, stock, writes>>
\* choose: a language button, which only show when there are several.
ChooseLocale ==
  /\ Touched /\ Staged(page) /\ Slide(page).kind = "poster"
  /\ LET locales == Offered(page.display.branding)
     IN  /\ Cardinality(locales) > 1
         /\ \E l \in locales :
              LET c == IF l = First(locales) THEN None ELSE l
              IN  page' = [Held(page) EXCEPT !.chosen = c, !.touches = @ + 1,
                             !.reset = IF c = None THEN 0 ELSE IF c = page.chosen THEN @ ELSE LocaleReset]
  /\ UNCHANGED <<now, branding, promos, playlist, stock, writes>>

Less(n) == Max({n - 1, 0})
\* A step of time: the language goes back to French, the slide turns.
Tick ==
  /\ now' = Min({now + 1, MaxTime})
  /\ LET rest == [page EXCEPT !.hold = Less(@), !.left = Less(@), !.reset = Less(@),
                     !.chosen = IF page.reset = 1 THEN None ELSE @]
     IN  page' = IF page.left = 1
                 THEN Drawn(page, [rest EXCEPT !.index = (@ + 1) % Len(Slides(page))])
                 ELSE rest
  /\ UNCHANGED <<branding, promos, playlist, stock, writes>>

-----------------------------------------------------------------------------

Init ==
  /\ now = 0 /\ writes = 0
  /\ branding = DefaultBranding
  /\ promos = <<>> /\ playlist = {} /\ stock = "some"
  /\ \E preview \in BOOLEAN :
       page = [preview |-> preview, stock |-> IF preview THEN "some" ELSE "gone",
               display |-> [branding |-> IF preview THEN DefaultBranding ELSE None, extras |-> <<>>],
               index |-> 0, left |-> 0, hold |-> 0, chosen |-> None, reset |-> 0, touches |-> 0]

Studio == SetVenueBranding \/ SavePromo \/ SetPromoStatus \/ SetMediaStatus \/ StockChanges
Screen == FetchDisplay \/ FetchPublic \/ KioskPreview \/ Tick
Next == (~page.preview /\ Studio) \/ Screen \/ TouchExtra \/ ChooseLocale
Spec == Init /\ [][Next]_vars
\* Time passes and the page's timers bring answers now and then.
FairSpec == Spec /\ WF_vars(Tick) /\ WF_vars(FetchDisplay) /\ WF_vars(FetchPublic)

-----------------------------------------------------------------------------
(* Properties *)

TypeOK ==
  /\ branding \in Branding /\ branding.locales # {}
  /\ DOMAIN promos \subseteq ToSet(Promos) /\ \A p \in DOMAIN promos : promos[p] \in Promo
  /\ page.index \in Nat /\ page.left \in Nat /\ page.hold \in 0 .. TouchHold
  /\ page.left = 0 <=> Len(Slides(page)) < 2
  /\ page.chosen # None <=> page.reset # 0

\* A promotion is on the air exactly during the windows that open on its days, also across midnight
\* and across the week's end, and between its two dates (promoLiveAt, parisClock).
Opens(p) == {t \in -MinutesPerDay .. MaxTime : Minute(t) = 0 /\ Day(t) \in p.days}
Closes(p) == IF p.from < p.to THEN p.to ELSE p.to + MinutesPerDay
PromoOnSchedule ==
  /\ TypeOK
  /\ \A i \in DOMAIN promos : LET p == promos[i] IN
       PromoLiveAt(p, now) <=>
         /\ p.status = "PUBLISHED" /\ now \in p.starts .. p.ends - 1
         /\ \E t \in Opens(p) : now \in t + p.from .. t + Closes(p) - 1

\* The poster speaks the language its buttons show as chosen, one it offers, in words and in
\* pictures, whatever is withdrawn after a customer chose ("a button leading to the French image
\* would be a broken promise": setVenueBranding, usePosterLocale, ImagePoster).
LanguageOnOffer ==
  Staged(page) =>
    LET drawn == KioskPoster(page) IN drawn.lang \in drawn.buttons /\ drawn.text.in = drawn.lang

\* A station that has batteries to rent always comes back to showing its code, whatever
\* promotions and clips are added or end while slides turn ("so the QR is never away for long").
QrComesBack == <>[](stock = "some" /\ ~page.preview) => []<>ShowsQr(page)

\* Diagnostic: the poster stays for a minute under the hands of whoever touched it.
TouchHolds == page.hold > 0 => Slide(page).kind = "poster"
=============================================================================
