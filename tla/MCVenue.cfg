SPECIFICATION FairSpec
CONSTANTS
  None = None
  fr = fr
  en = en
  h1 = h1
  k1 = k1
  AllLocales <- TwoLanguages
  BrandingForms <- SomeBrandings
  PromoForms <- SomePromos
  Promos <- OnePromo
  Clips = {k1}
  ClipTime = 1
  PosterTime = 1
  TouchHold = 2
  LocaleReset = 2
  DaysPerWeek = 2
  MinutesPerDay = 3
  MaxTime = 6
  MaxWrites = 3
  MaxTouches = 1
INVARIANTS
  PromoOnSchedule
  LanguageOnOffer
PROPERTIES
  QrComesBack
