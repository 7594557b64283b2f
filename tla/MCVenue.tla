------------------------------ MODULE MCVenue ------------------------------
EXTENDS VenueScreen, TLC
CONSTANTS fr, en, h1, k1
TwoLanguages == <<fr, en>>
OnePromo == <<h1>>
\* French only, both languages in words, both or one in pictures.
SomeBrandings ==
  {[layout |-> "arcade", locales |-> {fr}, copy |-> {fr}, images |-> {}],
   [layout |-> "image", locales |-> {fr, en}, copy |-> {}, images |-> {fr, en}],
   [layout |-> "image", locales |-> {fr, en}, copy |-> {en}, images |-> {fr}],
   [layout |-> "image", locales |-> {en}, copy |-> {}, images |-> {fr}]}
\* A window within a day, one across midnight and one across the week's end too, the last with dates.
Window(days, from, to, starts, ends, time) ==
  [days |-> days, from |-> from, to |-> to, starts |-> starts, ends |-> ends, time |-> time, status |-> "DRAFT"]
SomePromos ==
  {Window({0}, 1, 2, -100, 100, 2), Window({1}, 2, 1, -100, 100, 1),
   Window({0, 1}, 1, 3, 2, 5, 1), Window({0}, 2, 0, 0, 100, 1)}
=============================================================================
