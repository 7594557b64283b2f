---------------------------- MODULE ScreensProofs ----------------------------
(***************************************************************************)
(* What holds of the stations' screens for any number of stations, venues, *)
(* runtimes, tokens and stamps: one runtime at a time, a version that      *)
(* covers every write, a screen that never goes back, and card readers     *)
(* whose Location only an answer of Stripe that comes late can falsify.    *)
(***************************************************************************)
EXTENDS StationScreens, TLAPS, FiniteSetTheorems, SequenceTheorems, WellFoundedInduction

\* A bounded set of numbers has a greatest one, and Max finds it.
LEMMA MaxOf ==
  ASSUME NEW b \in Nat, NEW S \in SUBSET (0 .. b), S # {}
  PROVE  Max(S) \in S /\ \A x \in S : x <= Max(S)
<1> DEFINE T == {b - x : x \in S}
<1>1. T \subseteq Nat
  OBVIOUS
<1>2. T # {}
  <2>1. PICK x \in S : TRUE
    OBVIOUS
  <2>2. b - x \in T
    BY <2>1
  <2> QED
    BY <2>2
<1> DEFINE Less == OpToRel(<, Nat)
<1>3. \A y, z \in Nat : y < z => <<y, z>> \in Less
  BY DEF OpToRel
<1>4. IsWellFoundedOn(Less, Nat)
  BY NatLessThanWellFounded
<1> HIDE DEF Less, T
<1>5. PICK t \in T : \A y \in T : <<y, t>> \notin Less
  BY <1>1, <1>2, <1>4, WFMin
<1>6. \A y \in T : t <= y
  <2> TAKE y \in T
  <2>1. y \in Nat /\ t \in Nat
    BY <1>1
  <2>2. ~ (y < t)
    BY <1>3, <1>5, <2>1
  <2> QED
    BY <2>1, <2>2
<1> USE DEF T
<1>7. PICK x \in S : t = b - x
  OBVIOUS
<1>8. \A y \in S : x >= y
  <2> TAKE y \in S
  <2>1. b - y \in T
    OBVIOUS
  <2> QED
    BY <1>6, <1>7, <2>1
<1>9. \A y \in S : Max(S) >= y /\ Max(S) \in S
  BY <1>8 DEF Max
<1> QED
  BY <1>9



-----------------------------------------------------------------------------
(* The inductive invariant.                                                  *)

\* The rows and the devices have their types; every stamp is in the past.
Rows ==
  /\ venues \in [Venues -> [name : Names, address : Addresses]]
  /\ stations \in [Stations -> [venue : Venues, location : Addresses \cup {None}, at : Stamp]]
  /\ making \in [Stations -> Addresses \cup {None}]
  /\ displays \in [Stations -> [text : Texts \cup {None}, pack : Texts \cup {None}, at : Stamp]]
  /\ library \in [DOMAIN library -> [status : {"DRAFT", "PUBLISHED", "ARCHIVED"}, at : Stamp]]
  /\ DOMAIN library \subseteq Media
  /\ now \in Stamp /\ now >= 2
  /\ \A s \in Stations : stations[s].at < now /\ displays[s].at < now
  /\ \A m \in DOMAIN library : library[m].at < now
Enrolled ==
  /\ tokens \in [DOMAIN tokens -> [station : Stations, usable : BOOLEAN]]
  /\ creds \in [DOMAIN creds -> [station : Stations, version : Nat, revoked : BOOLEAN]]
  /\ DOMAIN tokens \subseteq TokenIds /\ DOMAIN creds \subseteq Runtimes
\* Two runtimes at work are never those of one station.
OneAtWork == \A q, r \in DOMAIN creds : Live(q) /\ Live(r) /\ creds[q].station = creds[r].station => q = r

\* What a runtime holds, wherever it holds it: nothing before it is enrolled; afterwards nothing
\* newer than its station, and what has the version of the station covers what was written of it.
Holds(r, config) ==
  \/ config = devices[r].config /\ config # None
  \/ config = devices[r].cache /\ config # None
  \/ \E i \in DOMAIN devices[r].arriving : config = devices[r].arriving[i]
  \/ \E i \in DOMAIN devices[r].queue : config = devices[r].queue[i]
Fits(s, config) ==
  /\ config.version <= VersionOf(s)
  /\ config.version = VersionOf(s) => Covers(s, config.settings)
Known ==
  \A r \in Followed : \A config \in Config :
    Holds(r, config) => r \in DOMAIN creds /\ Fits(creds[r].station, config)

\* A runtime shows what it has stored, except between a write and its end, when it is about to
\* show something newer.
Ordered(r) ==
  /\ ~devices[r].writing => devices[r].cache = devices[r].config
  /\ devices[r].writing =>
       /\ devices[r].queue # <<>> /\ devices[r].cache = Head(devices[r].queue)
       /\ Newer(r, devices[r].cache)
Devices == devices \in [Followed -> Device] /\ \A r \in Followed : Ordered(r)

ScreensInv == Rows /\ Enrolled /\ OneAtWork /\ Known /\ Devices

-----------------------------------------------------------------------------
(* Versions.                                                                 *)

Stamps(s) == {displays[s].at, stations[s].at, 1} \cup {library[m].at : m \in DOMAIN library}

\* The version of a station is one of its stamps, and the latest.
LEMMA VersionIsLatest ==
  ASSUME Rows, NEW s \in Stations
  PROVE  /\ VersionOf(s) \in Stamps(s) /\ \A x \in Stamps(s) : x <= VersionOf(s)
         /\ VersionOf(s) \in Nat /\ VersionOf(s) >= 1 /\ VersionOf(s) < now
<1>1. Stamps(s) \subseteq 0 .. now /\ Stamps(s) # {} /\ now \in Nat
  BY ScreensAssumption DEF Rows, Stamps, Stamp
<1>2. \A x \in Stamps(s) : x < now
  BY DEF Rows, Stamps, Stamp
<1>3. VersionOf(s) = Max(Stamps(s))
  BY DEF VersionOf, Stamps
<1>4. VersionOf(s) \in Stamps(s) /\ \A x \in Stamps(s) : x <= VersionOf(s)
  BY <1>1, <1>3, MaxOf
<1>5. 1 \in Stamps(s)
  BY DEF Stamps
<1> QED
  BY <1>1, <1>2, <1>4, <1>5

\* A display is stamped with the clock.
LEMMA DisplayStampIsNow ==
  ASSUME Rows, NEW s \in Stations
  PROVE  DisplayStamp(s) = now
<1>1. {now, displays[s].at + 1} \subseteq 0 .. now /\ now \in Nat
  BY ScreensAssumption DEF Rows, Stamp
<1> DEFINE S == {now, displays[s].at + 1}
<1>2. Max(S) \in S /\ \A x \in S : x <= Max(S)
  BY <1>1, MaxOf
<1>3. Max(S) \in 0 .. now /\ now <= Max(S)
  BY <1>1, <1>2
<1>4. DisplayStamp(s) = Max(S)
  BY DEF DisplayStamp
<1> QED
  BY <1>1, <1>3, <1>4

\* What a station is served is a configuration.
LEMMA ServedIsConfig ==
  ASSUME Rows, NEW s \in Stations
  PROVE  DisplayConfigFor(s) \in Config
<1>1. VersionOf(s) \in Nat
  BY VersionIsLatest
<1>2. SettingsOf(s) \in Settings
  BY DEF Rows, SettingsOf, Settings, PlaylistAt
<1> QED
  BY <1>1, <1>2 DEF DisplayConfigFor, Config


-----------------------------------------------------------------------------
(* What the back office may do to the stations.                              *)

\* A station whose rows change gets a later version, and the clock never goes back.
Forward(s) ==
  \/ VersionOf(s)' > VersionOf(s)
  \/ UNCHANGED <<displays[s], stations[s].location, library, VersionOf(s)>>
Progress == now' >= now /\ \A s \in Stations : Forward(s)

LEMMA StampMovesForward ==
  ASSUME Rows, Rows', NEW s \in Stations, now \in Stamps(s)'
  PROVE  Forward(s)
<1>1. Stamps(s)' \subseteq 0 .. now' /\ now' \in Nat
  BY ScreensAssumption DEF Rows, Stamps, Stamp
<1>2. VersionOf(s)' = Max(Stamps(s)')
  BY DEF VersionOf, Stamps
<1>3. VersionOf(s)' \in Stamps(s)' /\ \A x \in Stamps(s)' : x <= VersionOf(s)'
  BY <1>1, <1>2, MaxOf
<1>4. now <= VersionOf(s)'
  BY <1>3
<1>5. VersionOf(s) < now /\ VersionOf(s) \in Nat /\ VersionOf(s)' \in Nat /\ now \in Nat
  BY <1>1, <1>3, VersionIsLatest, ScreensAssumption DEF Rows, Stamp
<1> QED
  BY <1>4, <1>5 DEF Forward

LEMMA SameRowsSameVersion ==
  ASSUME NEW s \in Stations, displays'[s] = displays[s], stations'[s] = stations[s], library' = library
  PROVE  Forward(s)
  BY DEF Forward, VersionOf

\* Whatever happened to the rows, what the devices hold still fits if the versions moved forward.
LEMMA ProgressKeepsKnown ==
  ASSUME Rows, Rows', Enrolled, Known, Progress, UNCHANGED <<creds, devices>>
  PROVE  Known'
<1> SUFFICES ASSUME NEW r \in Followed, NEW config \in Config, Holds(r, config)'
             PROVE  r \in DOMAIN creds' /\ Fits(creds[r].station, config)'
  BY DEF Known
<1>1. Holds(r, config)
  BY DEF Holds
<1>2. r \in DOMAIN creds /\ Fits(creds[r].station, config)
  BY <1>1 DEF Known
<1> DEFINE s == creds[r].station
<1>3. s \in Stations
  BY <1>2 DEF Enrolled
<1>4. Forward(s)
  BY <1>3 DEF Progress
<1>5. VersionOf(s) \in Nat /\ config.version \in Nat
  BY <1>3, VersionIsLatest DEF Config
<1>6. VersionOf(s)' \in Nat
  <2>1. Stamps(s)' \subseteq 0 .. now' /\ Stamps(s)' # {} /\ now' \in Nat
    BY <1>3, ScreensAssumption DEF Rows, Stamps, Stamp
  <2>2. VersionOf(s)' = Max(Stamps(s)')
    BY DEF VersionOf, Stamps
  <2>3. Max(Stamps(s)') \in Stamps(s)'
    BY <2>1, MaxOf
  <2> QED
    BY <2>1, <2>2, <2>3
<1>7. ASSUME VersionOf(s)' = VersionOf(s), Covers(s, config.settings) PROVE Covers(s, config.settings)'
  <2>1. UNCHANGED <<displays[s], stations[s].location, library, VersionOf(s)>>
    BY <1>4, <1>5, <1>7 DEF Forward
  <2>2. PICK t \in VersionOf(s) .. now : config.settings.playlist = PlaylistAt(s, t)
    BY <1>7 DEF Covers
  <2>3. t \in VersionOf(s)' .. now' /\ now' \in Nat
    BY <1>5, <2>1, ScreensAssumption DEF Progress, Rows, Stamp
  <2>4. config.settings.playlist = PlaylistAt(s, t)'
    BY <2>1, <2>2 DEF PlaylistAt, InWindow
  <2> QED
    BY <1>7, <2>1, <2>3, <2>4 DEF Covers
<1>8. Fits(s, config)'
  BY <1>2, <1>4, <1>5, <1>6, <1>7 DEF Fits, Forward
<1> QED
  BY <1>2, <1>8

LEMMA ClockMoves ==
  ASSUME Rows, Stamped
  PROVE  now' = now + 1 /\ now' \in Stamp /\ now \in Stamp /\ now \in Nat
         /\ \A x \in Stamp : x \in Nat /\ (x < now => x < now')
  BY ScreensAssumption DEF Rows, Stamped, Stamp

LEMMA SaveDisplayConfigStep ==
  ASSUME Rows, NEW s \in Stations, NEW text \in Texts, SaveDisplayConfig(s, text)
  PROVE  Rows' /\ Progress
<1>1. DisplayStamp(s) = now
  BY DisplayStampIsNow
<1>2. Rows'
  BY <1>1, ScreensAssumption DEF Rows, SaveDisplayConfig, Stamped, Untouched, Elsewhere, Stamp
<1>3. now \in Stamps(s)'
  BY <1>1 DEF Rows, SaveDisplayConfig, Stamps
<1>4. ASSUME NEW t \in Stations PROVE Forward(t)
  <2>1. CASE t = s
    BY <1>2, <1>3, <2>1, StampMovesForward
  <2>2. CASE t # s
    BY <2>2, SameRowsSameVersion DEF Rows, SaveDisplayConfig
  <2> QED
    BY <2>1, <2>2
<1>5. now' >= now
  BY ClockMoves DEF SaveDisplayConfig
<1> QED
  BY <1>5, <1>2, <1>4 DEF Progress

LEMMA PublishTranslationsStep ==
  ASSUME Rows, NEW targets \in SUBSET Stations, NEW pack \in Texts, PublishTranslations(targets, pack)
  PROVE  Rows' /\ Progress
<1>1. \A s \in Stations : DisplayStamp(s) = now
  BY DisplayStampIsNow
<1>2. Rows'
  <2>1. now' = now + 1 /\ now' \in Stamp /\ now \in Stamp /\ now \in Nat
         /\ \A x \in Stamp : x \in Nat /\ (x < now => x < now')
    BY ClockMoves DEF PublishTranslations
  <2>2. displays' = [s \in Stations |->
          IF s \in targets THEN [displays[s] EXCEPT !.pack = pack, !.at = now] ELSE displays[s]]
    BY <1>1 DEF PublishTranslations
  <2>3. ASSUME NEW s \in Stations
        PROVE  displays'[s] \in [text : Texts \cup {None}, pack : Texts \cup {None}, at : Stamp] /\ displays'[s].at < now'
    <3>1. displays[s] \in [text : Texts \cup {None}, pack : Texts \cup {None}, at : Stamp] /\ displays[s].at \in Stamp /\ displays[s].at < now'
      BY <2>1 DEF Rows
    <3>2. CASE s \in targets
      <4>1. displays'[s] = [displays[s] EXCEPT !.pack = pack, !.at = now]
        BY <2>2, <3>2
      <4>2. displays'[s] \in [text : Texts \cup {None}, pack : Texts \cup {None}, at : Stamp]
        BY <2>1, <3>1, <4>1
      <4>3. displays'[s].at = now
        BY <3>1, <4>1
      <4> QED
        BY <2>1, <4>2, <4>3
    <3>3. CASE s \notin targets
      <4>1. displays'[s] = displays[s]
        BY <2>2, <3>3
      <4> QED
        BY <3>1, <4>1, Zenon
    <3> QED
      BY <3>2, <3>3
  <2>4. displays' \in [Stations -> [text : Texts \cup {None}, pack : Texts \cup {None}, at : Stamp]]
    BY <2>2, <2>3
  <2>5. UNCHANGED <<venues, stations, library, making>>
    BY DEF PublishTranslations, Untouched
  <2> QED
    BY <2>1, <2>3, <2>4, <2>5 DEF Rows, Stamp
<1>3. \A s \in targets : now \in Stamps(s)'
  BY <1>1 DEF Rows, PublishTranslations, Stamps
<1>4. ASSUME NEW t \in Stations PROVE Forward(t)
  <2>1. CASE t \in targets
    BY <1>2, <1>3, <2>1, StampMovesForward
  <2>2. CASE t \notin targets
    BY <2>2, SameRowsSameVersion DEF Rows, PublishTranslations
  <2> QED
    BY <2>1, <2>2
<1>5. now' >= now
  <2>1. Stamped
    BY DEF PublishTranslations
  <2>2. now' = now + 1 /\ now \in Nat
    BY <2>1, ClockMoves
  <2> QED
    BY <2>2
<1> QED
  BY <1>5, <1>2, <1>4 DEF Progress

LEMMA SetStripeTerminalLocationStep ==
  ASSUME Rows, NEW s \in Stations, NEW location \in Addresses \cup {None},
         SetStripeTerminalLocation(s, location), making' \in [Stations -> Addresses \cup {None}]
  PROVE  Rows' /\ Progress
<1>1. Rows'
  <2>1. now' = now + 1 /\ now' \in Stamp /\ now \in Stamp /\ now \in Nat
         /\ \A x \in Stamp : x \in Nat /\ (x < now => x < now')
    BY ClockMoves DEF SetStripeTerminalLocation
  <2>2. stations' \in [Stations -> [venue : Venues, location : Addresses \cup {None}, at : Stamp]]
    BY <2>1 DEF Rows, SetStripeTerminalLocation
  <2>3. \A t \in Stations : stations'[t].at < now'
    BY <2>1 DEF Rows, SetStripeTerminalLocation
  <2>4. UNCHANGED <<venues, displays, library>>
    BY DEF SetStripeTerminalLocation
  <2> QED
    BY <2>1, <2>2, <2>3, <2>4 DEF Rows
<1>2. now \in Stamps(s)'
  BY DEF Rows, SetStripeTerminalLocation, Stamps
<1>3. ASSUME NEW t \in Stations PROVE Forward(t)
  <2>1. CASE t = s
    BY <1>1, <1>2, <2>1, StampMovesForward
  <2>2. CASE t # s
    BY <2>2, SameRowsSameVersion DEF Rows, SetStripeTerminalLocation
  <2> QED
    BY <2>1, <2>2
<1>4. now' >= now
  BY ClockMoves DEF SetStripeTerminalLocation
<1> QED
  BY <1>4, <1>1, <1>3 DEF Progress

LEMMA RelocateStationStep ==
  ASSUME Rows, NEW s \in Stations, NEW v \in Venues, RelocateStation(s, v)
  PROVE  Rows' /\ Progress
<1>1. Rows'
  BY ScreensAssumption DEF Rows, RelocateStation, Stamped, Untouched, Elsewhere, Stamp
<1>2. now \in Stamps(s)'
  BY DEF Rows, RelocateStation, Stamps
<1>3. ASSUME NEW t \in Stations PROVE Forward(t)
  <2>1. CASE t = s
    BY <1>1, <1>2, <2>1, StampMovesForward
  <2>2. CASE t # s
    BY <2>2, SameRowsSameVersion DEF Rows, RelocateStation
  <2> QED
    BY <2>1, <2>2
<1>4. now' >= now
  BY ClockMoves DEF RelocateStation
<1> QED
  BY <1>4, <1>1, <1>3 DEF Progress

LEMMA UpdateVenueStep ==
  ASSUME Rows, NEW v \in Venues, NEW name \in Names, NEW address \in Addresses, UpdateVenue(v, name, address)
  PROVE  Rows' /\ Progress
<1> DEFINE Moved(s) == address # venues[v].address /\ stations[s].venue = v /\ stations[s].location # None
<1>1. Rows'
  <2>1. now' = now + 1 /\ now' \in Stamp /\ now \in Stamp /\ now \in Nat
         /\ \A x \in Stamp : x \in Nat /\ (x < now => x < now')
    BY ClockMoves DEF UpdateVenue
  <2>2. venues' \in [Venues -> [name : Names, address : Addresses]]
    BY DEF Rows, UpdateVenue
  <2>3. stations' = [s \in Stations |->
          IF Moved(s) THEN [stations[s] EXCEPT !.location = None, !.at = now] ELSE stations[s]]
    BY DEF UpdateVenue
  <2>4. ASSUME NEW s \in Stations
        PROVE  stations'[s] \in [venue : Venues, location : Addresses \cup {None}, at : Stamp] /\ stations'[s].at < now'
    <3>1. stations[s] \in [venue : Venues, location : Addresses \cup {None}, at : Stamp] /\ stations[s].at \in Stamp /\ stations[s].at < now'
      BY <2>1 DEF Rows
    <3> HIDE DEF Moved
    <3>2. CASE Moved(s)
      <4>1. stations'[s] = [stations[s] EXCEPT !.location = None, !.at = now]
        BY <2>3, <3>2
      <4>2. stations'[s] \in [venue : Venues, location : Addresses \cup {None}, at : Stamp]
        BY <2>1, <3>1, <4>1
      <4>3. stations'[s].at = now
        BY <3>1, <4>1
      <4> QED
        BY <2>1, <4>2, <4>3
    <3>3. CASE ~Moved(s)
      <4>1. stations'[s] = stations[s]
        BY <2>3, <3>3
      <4> QED
        BY <3>1, <4>1, Zenon
    <3> QED
      BY <3>2, <3>3
  <2>5. stations' \in [Stations -> [venue : Venues, location : Addresses \cup {None}, at : Stamp]]
    BY <2>3, <2>4
  <2>6. UNCHANGED <<displays, library, making>>
    BY DEF UpdateVenue, Untouched
  <2> QED
    BY <2>1, <2>2, <2>4, <2>5, <2>6 DEF Rows, Stamp
<1>2. ASSUME NEW t \in Stations PROVE Forward(t)
  <2>1. CASE Moved(t)
    <3>1. now \in Stamps(t)'
      BY <2>1 DEF Rows, UpdateVenue, Stamps
    <3> QED
      BY <1>1, <3>1, StampMovesForward
  <2>2. CASE ~Moved(t)
    BY <2>2, SameRowsSameVersion DEF Rows, UpdateVenue
  <2> QED
    BY <2>1, <2>2
<1>3. now' >= now
  <2>1. Stamped
    BY DEF UpdateVenue
  <2>2. now' = now + 1 /\ now \in Nat
    BY <2>1, ClockMoves
  <2> QED
    BY <2>2
<1> QED
  BY <1>3, <1>1, <1>2 DEF Progress

\* The library is part of every station's version.
LEMMA LibraryStep ==
  ASSUME Rows, NEW m \in Media,
         CreateMedia(m) \/ \E status \in {"PUBLISHED", "ARCHIVED"} : SetMediaStatus(m, status)
  PROVE  Rows' /\ Progress
<1>1. Rows'
  <2>1. CASE CreateMedia(m)
    BY <2>1, ScreensAssumption DEF Rows, CreateMedia, Stamped, Untouched, Elsewhere, Stamp
  <2>2. ASSUME NEW status \in {"PUBLISHED", "ARCHIVED"}, SetMediaStatus(m, status) PROVE Rows'
    BY <2>2, ScreensAssumption DEF Rows, SetMediaStatus, Stamped, Untouched, Elsewhere, Stamp
  <2> QED
    BY <2>1, <2>2
<1>2. m \in DOMAIN library' /\ library'[m].at = now
  BY DEF Rows, CreateMedia, SetMediaStatus
<1>3. \A s \in Stations : now \in Stamps(s)'
  BY <1>2 DEF Stamps
<1>4. now' >= now
  BY ClockMoves DEF CreateMedia, SetMediaStatus
<1> QED
  BY <1>4, <1>1, <1>3, StampMovesForward DEF Progress


-----------------------------------------------------------------------------
(* Enrolment, and the runtimes.                                              *)

\* What covers a station still does when none of its rows, nor the clock, changes.
LEMMA FitsStays ==
  ASSUME UNCHANGED <<displays, stations, library, now>>, NEW s, NEW config, Fits(s, config)
  PROVE  Fits(s, config)'
<1>1. VersionOf(s)' = VersionOf(s)
  BY DEF VersionOf
<1>2. \A t : PlaylistAt(s, t)' = PlaylistAt(s, t)
  BY DEF PlaylistAt, InWindow
<1>3. Covers(s, config.settings) => Covers(s, config.settings)'
  BY <1>1, <1>2 DEF Covers
<1> QED
  BY <1>1, <1>3 DEF Fits

\* A step that only hands out secrets changes nothing of what is held.
LEMMA SecretsKeepDevices ==
  ASSUME Known, Devices, UNCHANGED <<server, now>>,
         \A q \in DOMAIN creds : q \in DOMAIN creds' /\ creds'[q].station = creds[q].station,
         NEW r, NEW secret \in Nat, NEW received \in BOOLEAN, devices' = Handed(r, secret, received)
  PROVE  Known' /\ Devices'
<1>1. devices' \in [Followed -> Device]
  BY DEF Devices, Device, Handed
<1>2. ASSUME NEW q \in Followed
      PROVE  /\ devices'[q].config = devices[q].config /\ devices'[q].cache = devices[q].cache
             /\ devices'[q].arriving = devices[q].arriving /\ devices'[q].queue = devices[q].queue
             /\ devices'[q].writing = devices[q].writing
  BY DEF Devices, Device, Handed
<1>3. ASSUME NEW q \in Followed PROVE Ordered(q)'
  BY <1>2 DEF Devices, Ordered, Newer, VersionShown
<1>4. \A q \in Followed : \A config \in Config : Holds(q, config)' => Holds(q, config)
  BY <1>2 DEF Holds
<1>5. Known'
  <2> SUFFICES ASSUME NEW q \in Followed, NEW config \in Config, Holds(q, config)'
               PROVE  q \in DOMAIN creds' /\ Fits(creds[q].station, config)'
    BY DEF Known
  <2>1. q \in DOMAIN creds /\ Fits(creds[q].station, config)
    BY <1>4 DEF Known
  <2>2. creds'[q].station = creds[q].station /\ q \in DOMAIN creds'
    BY <2>1
  <2>3. Fits(creds[q].station, config)'
    BY <2>1, <2>2, FitsStays DEF server
  <2> QED
    BY <2>2, <2>3
<1> QED
  BY <1>1, <1>3, <1>5 DEF Devices

\* A step of one runtime, which may get what its station is served.
LEMMA RuntimeKeepsKnown ==
  ASSUME Rows, Enrolled, Known, Devices, Keep, NEW r \in Followed, NEW d \in Device,
         devices' = [devices EXCEPT ![r] = d], Ordered(r)',
         \A config \in Config :
           Holds(r, config)' => \/ Holds(r, config)
                                \/ r \in DOMAIN creds /\ config = DisplayConfigFor(creds[r].station)
  PROVE  Known' /\ Devices'
<1>1. devices' \in [Followed -> Device] /\ \A q \in Followed : q # r => devices'[q] = devices[q]
  BY DEF Devices
<1>2. \A q \in Followed : q # r => Ordered(q)'
  BY <1>1 DEF Devices, Ordered, Newer, VersionShown
<1>3. ASSUME NEW q \in Followed, NEW config \in Config, Holds(q, config)'
      PROVE  q \in DOMAIN creds /\ Fits(creds[q].station, config)
  <2>1. CASE Holds(q, config)
    BY <2>1 DEF Known
  <2>2. CASE ~ Holds(q, config)
    <3>1. q = r
      BY <1>1, <1>3, <2>2 DEF Holds
    <3>2. r \in DOMAIN creds /\ config = DisplayConfigFor(creds[r].station)
      BY <1>3, <2>2, <3>1
    <3>3. creds[r].station \in Stations
      BY <3>2 DEF Enrolled
    <3> DEFINE s == creds[r].station
    <3>4. VersionOf(s) \in Nat /\ now \in VersionOf(s) .. now
      BY <3>3, VersionIsLatest, ScreensAssumption DEF Rows, Stamp
    <3>5. config.version = VersionOf(s) /\ config.settings = SettingsOf(s)
      BY <3>2 DEF DisplayConfigFor
    <3>6. Covers(s, config.settings)
      BY <3>4, <3>5 DEF Covers, SettingsOf
    <3> QED
      BY <3>1, <3>2, <3>4, <3>5, <3>6 DEF Fits
  <2> QED
    BY <2>1, <2>2
<1>4. \A s : \A config : Fits(s, config) => Fits(s, config)'
  BY FitsStays DEF Keep, server
<1>5. Known'
  BY <1>3, <1>4 DEF Known, Keep
<1> QED
  BY <1>1, <1>2, <1>5 DEF Devices

\* RemoveAt and Tail leave elements of the sequence.
LEMMA RemoveAtElements ==
  ASSUME NEW S, NEW q \in Seq(S), NEW i \in DOMAIN q
  PROVE  /\ RemoveAt(q, i) \in Seq(S)
         /\ \A j \in DOMAIN RemoveAt(q, i) : \E k \in DOMAIN q : RemoveAt(q, i)[j] = q[k]
<1> DEFINE left == SubSeq(q, 1, i - 1)
           right == SubSeq(q, i + 1, Len(q))
<1>1. i \in 1 .. Len(q) /\ Len(q) \in Nat /\ DOMAIN q = 1 .. Len(q)
  OBVIOUS
<1>2. left \in Seq(S) /\ Len(left) = i - 1 /\ \A j \in 1 .. i - 1 : left[j] = q[j]
  BY <1>1
<1>3. right \in Seq(S) /\ Len(right) = Len(q) - i /\ \A j \in 1 .. Len(q) - i : right[j] = q[i + j]
  BY <1>1
<1>4. RemoveAt(q, i) = left \o right
  BY DEF RemoveAt
<1> HIDE DEF left, right
<1>5. left \o right \in Seq(S) /\ Len(left \o right) = Len(left) + Len(right)
  BY <1>2, <1>3, ConcatProperties
<1>6. ASSUME NEW j \in 1 .. Len(left) + Len(right)
      PROVE  \E k \in DOMAIN q : (left \o right)[j] = q[k]
  <2>1. CASE j <= Len(left)
    <3>1. (left \o right)[j] = left[j]
      BY <1>2, <1>3, <2>1
    <3>2. j \in 1 .. i - 1 /\ j \in DOMAIN q
      BY <1>1, <1>2, <2>1
    <3> QED
      BY <1>2, <3>1, <3>2
  <2>2. CASE j > Len(left)
    <3>1. (left \o right)[j] = right[j - Len(left)]
      BY <1>2, <1>3, <2>2
    <3>2. j - Len(left) \in 1 .. Len(q) - i /\ i + (j - Len(left)) \in DOMAIN q
      BY <1>1, <1>2, <1>3, <2>2
    <3> QED
      BY <1>3, <3>1, <3>2
  <2> QED
    BY <1>2, <2>1, <2>2
<1>7. DOMAIN (left \o right) = 1 .. Len(left) + Len(right)
  BY <1>5
<1> QED
  BY <1>4, <1>5, <1>6, <1>7


\* Each step of a runtime keeps what it holds known and in order.
LEMMA RuntimeStep ==
  ASSUME Rows, Enrolled, Known, Devices, NEW r \in Followed, Runtime(r)
  PROVE  Keep /\ Known' /\ Devices'
<1> DEFINE me == devices[r]
<1>1. /\ me \in Device /\ Ordered(r) /\ devices \in [Followed -> Device]
      /\ me.arriving \in Seq(Config) /\ me.queue \in Seq(Config) /\ me.writing \in BOOLEAN
      /\ me.config \in Config \cup {None} /\ me.cache \in Config \cup {None} /\ me.secret \in Nat
  BY DEF Devices, Device
<1> DEFINE Goal == Keep /\ Known' /\ Devices'
<1>2. CASE Fetch(r)
  <2> DEFINE new == DisplayConfigFor(creds[r].station)
             d == [me EXCEPT !.arriving = Append(@, new)]
  <2>1. r \in DOMAIN creds /\ creds[r].station \in Stations
    BY <1>2 DEF Fetch, Accepted, Live, Enrolled
  <2>2. new \in Config
    BY <2>1, ServedIsConfig
  <2> HIDE DEF new
  <2>3. d \in Device
    <3>1. Append(me.arriving, new) \in Seq(Config)
      BY <1>1, <2>2
    <3> QED
      BY <1>1, <3>1 DEF Device
  <2>4. Keep /\ devices' = [devices EXCEPT ![r] = d]
    BY <1>1, <1>2 DEF Fetch, new
  <2>5. devices'[r] = d
    BY <1>1, <2>4
  <2>6. Ordered(r)'
    BY <1>1, <2>5 DEF Ordered, Newer, VersionShown, Device
  <2>7. \A config \in Config : Holds(r, config)' => Holds(r, config) \/ config = new
    BY <1>1, <2>2, <2>5 DEF Holds, Device
  <2> QED
    BY <2>1, <2>3, <2>4, <2>6, <2>7, RuntimeKeepsKnown DEF new
<1>3. ASSUME NEW i \in DOMAIN me.arriving, Receive(r, i) PROVE Goal
  <2> DEFINE rest == RemoveAt(me.arriving, i)
             d == [me EXCEPT !.arriving = rest, !.queue = Append(@, me.arriving[i])]
  <2>1. rest \in Seq(Config) /\ \A j \in DOMAIN rest : \E k \in DOMAIN me.arriving : rest[j] = me.arriving[k]
    BY <1>1, RemoveAtElements
  <2>2. Keep /\ devices' = [devices EXCEPT ![r] = d]
    <3>1. devices' = [devices EXCEPT ![r] = d]
      BY <1>3 DEF Receive
    <3> QED
      BY <1>3, <3>1 DEF Receive
  <2> HIDE DEF rest
  <2>3. me.arriving[i] \in Config
    BY <1>1
  <2>4. d \in Device
    <3>1. Append(me.queue, me.arriving[i]) \in Seq(Config)
      BY <1>1, <2>3
    <3> QED
      BY <1>1, <2>1, <3>1 DEF Device
  <2>5. devices'[r] = d
    BY <1>1, <2>2
  <2>6. Ordered(r)'
    BY <1>1, <2>3, <2>5 DEF Ordered, Newer, VersionShown, Device
  <2>7. \A config \in Config : Holds(r, config)' => Holds(r, config)
    BY <1>1, <2>1, <2>3, <2>5 DEF Holds, Device
  <2> QED
    BY <2>2, <2>4, <2>6, <2>7, RuntimeKeepsKnown
<1>4. ASSUME NEW i \in DOMAIN me.arriving, Lose(r, i) PROVE Goal
  <2> DEFINE rest == RemoveAt(me.arriving, i)
             d == [me EXCEPT !.arriving = rest]
  <2>1. rest \in Seq(Config) /\ \A j \in DOMAIN rest : \E k \in DOMAIN me.arriving : rest[j] = me.arriving[k]
    BY <1>1, RemoveAtElements
  <2>2. Keep /\ devices' = [devices EXCEPT ![r] = d]
    BY <1>1, <1>4 DEF Lose
  <2> HIDE DEF rest
  <2>3. d \in Device
    BY <1>1, <2>1 DEF Device
  <2>4. devices'[r] = d
    BY <1>1, <2>2
  <2>5. Ordered(r)'
    BY <1>1, <2>4 DEF Ordered, Newer, VersionShown, Device
  <2>6. \A config \in Config : Holds(r, config)' => Holds(r, config)
    BY <1>1, <2>1, <2>4 DEF Holds, Device
  <2> QED
    BY <2>2, <2>3, <2>5, <2>6, RuntimeKeepsKnown
<1>5. CASE Ignore(r) \/ WriteFails(r)
  <2> DEFINE d == [me EXCEPT !.queue = Tail(@)]
  <2>1. Keep /\ devices' = [devices EXCEPT ![r] = d] /\ me.queue # <<>> /\ ~me.writing
    BY <1>1, <1>5 DEF Ignore, WriteFails
  <2>2. Tail(me.queue) \in Seq(Config) /\ \A j \in DOMAIN Tail(me.queue) : Tail(me.queue)[j] = me.queue[j + 1] /\ j + 1 \in DOMAIN me.queue
    BY <1>1, <2>1
  <2>3. d \in Device
    BY <1>1, <2>2 DEF Device
  <2>4. devices'[r] = d
    BY <1>1, <2>1
  <2>5. Ordered(r)'
    BY <1>1, <2>1, <2>4 DEF Ordered, Newer, VersionShown, Device
  <2>6. \A config \in Config : Holds(r, config)' => Holds(r, config)
    BY <1>1, <2>2, <2>4 DEF Holds, Device
  <2> QED
    BY <2>1, <2>3, <2>5, <2>6, RuntimeKeepsKnown
<1>6. CASE Write(r)
  <2> DEFINE d == [me EXCEPT !.cache = Head(me.queue), !.writing = TRUE]
  <2>1. Keep /\ devices' = [devices EXCEPT ![r] = d] /\ me.queue # <<>> /\ Newer(r, Head(me.queue))
    BY <1>1, <1>6 DEF Write
  <2>2. Head(me.queue) \in Config /\ 1 \in DOMAIN me.queue /\ Head(me.queue) = me.queue[1]
    BY <1>1, <2>1
  <2>3. d \in Device
    BY <1>1, <2>2 DEF Device
  <2>4. devices'[r] = d
    BY <1>1, <2>1
  <2>5. Ordered(r)'
    BY <1>1, <2>1, <2>4 DEF Ordered, Newer, VersionShown, Device
  <2>6. \A config \in Config : Holds(r, config)' => Holds(r, config)
    BY <1>1, <2>2, <2>4 DEF Holds, Device
  <2> QED
    BY <2>1, <2>3, <2>5, <2>6, RuntimeKeepsKnown
<1>7. CASE Written(r)
  <2> DEFINE d == [me EXCEPT !.config = Head(me.queue), !.queue = Tail(@), !.writing = FALSE]
  <2>1. Keep /\ devices' = [devices EXCEPT ![r] = d] /\ me.writing
    <3>1. devices' = [devices EXCEPT ![r] = d]
      BY <1>7 DEF Written
    <3> QED
      BY <1>7, <3>1 DEF Written
  <2>2. me.queue # <<>> /\ me.cache = Head(me.queue)
    BY <1>1, <2>1 DEF Ordered
  <2>3. Head(me.queue) \in Config /\ 1 \in DOMAIN me.queue /\ Head(me.queue) = me.queue[1]
    BY <1>1, <2>2
  <2>4. Tail(me.queue) \in Seq(Config) /\ \A j \in DOMAIN Tail(me.queue) : Tail(me.queue)[j] = me.queue[j + 1] /\ j + 1 \in DOMAIN me.queue
    BY <1>1, <2>2
  <2>5. d \in Device
    BY <1>1, <2>3, <2>4 DEF Device
  <2>6. devices'[r] = d
    BY <1>1, <2>1
  <2>7. Ordered(r)'
    BY <1>1, <2>2, <2>6 DEF Ordered, Newer, VersionShown, Device
  <2>8. \A config \in Config : Holds(r, config)' => Holds(r, config)
    BY <1>1, <2>3, <2>4, <2>6 DEF Holds, Device
  <2> QED
    BY <2>1, <2>5, <2>7, <2>8, RuntimeKeepsKnown
<1>8. CASE Restart(r)
  <2> DEFINE d == [me EXCEPT !.config = me.cache, !.arriving = <<>>, !.queue = <<>>, !.writing = FALSE]
  <2>1. Keep /\ devices' = [devices EXCEPT ![r] = d]
    BY <1>1, <1>8 DEF Restart
  <2>2. d \in Device
    <3>1. <<>> \in Seq(Config)
      OBVIOUS
    <3> QED
      BY <1>1, <3>1 DEF Device
  <2>3. devices'[r] = d
    BY <1>1, <2>1
  <2>4. Ordered(r)'
    BY <1>1, <2>3 DEF Ordered, Device
  <2>5. \A config \in Config : Holds(r, config)' => Holds(r, config)
    BY <1>1, <2>3 DEF Holds, Device
  <2> QED
    BY <2>1, <2>2, <2>4, <2>5, RuntimeKeepsKnown
<1> QED
  BY <1>2, <1>3, <1>4, <1>5, <1>6, <1>7, <1>8 DEF Runtime, Arrive


-----------------------------------------------------------------------------
(* The invariant of the specification.                                       *)

LEMMA InitHolds == Init => ScreensInv
<1> SUFFICES ASSUME Init PROVE ScreensInv
  OBVIOUS
<1>1. Rows
  <2>1. 0 \in Stamp /\ 1 \in Stamp /\ 2 \in Stamp
    BY ScreensAssumption DEF Stamp
  <2>2. library \in [DOMAIN library -> [status : {"DRAFT", "PUBLISHED", "ARCHIVED"}, at : Stamp]] /\ DOMAIN library = OnAirAtFirst
    BY <2>1 DEF Init
  <2>3. \A m \in DOMAIN library : library[m].at < now
    BY DEF Init
  <2> QED
    BY <2>1, <2>2, <2>3, ScreensAssumption DEF Init, Rows
<1>2. Enrolled /\ OneAtWork
  BY DEF Init, Enrolled, OneAtWork
<1>3. NewDevice \in Device
  <2>1. <<>> \in Seq(Config)
    OBVIOUS
  <2> QED
    BY <2>1 DEF NewDevice, Device, NoCredential
<1>4. \A r \in Followed : devices[r] = NewDevice
  BY DEF Init
<1>5. Devices
  BY <1>3, <1>4 DEF Init, Devices, Ordered, NewDevice
<1>6. Known
  BY <1>4 DEF Known, Holds, NewDevice
<1> QED
  BY <1>1, <1>2, <1>5, <1>6 DEF ScreensInv

\* Steps that write the rows of the stations and nothing else.
LEMMA RowsStep ==
  ASSUME ScreensInv, Rows', Progress, Elsewhere
  PROVE  ScreensInv'
<1>1. Known'
  BY ProgressKeepsKnown DEF ScreensInv, Elsewhere
<1>2. Enrolled' /\ OneAtWork'
  BY DEF ScreensInv, Elsewhere, Enrolled, OneAtWork, Live
<1>3. Devices'
  BY DEF ScreensInv, Elsewhere, Devices, Ordered, Newer, VersionShown
<1> QED
  BY <1>1, <1>2, <1>3 DEF ScreensInv

\* Steps that leave those rows alone.
LEMMA ServerKept ==
  ASSUME Rows, UNCHANGED <<server, now>>
  PROVE  Rows'
  BY DEF Rows, server

\* The console: every form.
LEMMA ConsoleStep ==
  ASSUME ScreensInv, StationDisplayForm \/ TranslationsEditor \/ StripeTerminalLocations \/ MediaCreateAction \/ MediaLibrary
  PROVE  ScreensInv'
<1> USE DEF ScreensInv
<1>1. CASE StationDisplayForm
  <2>1. PICK s \in Stations, text \in Texts : SaveDisplayConfig(s, text)
    BY <1>1 DEF StationDisplayForm
  <2>2. Rows' /\ Progress /\ Elsewhere
    BY <2>1, SaveDisplayConfigStep DEF SaveDisplayConfig, Untouched
  <2> QED
    BY <2>2, RowsStep
<1>2. CASE TranslationsEditor
  <2>1. PICK targets \in {Stations} \cup {{s} : s \in Stations}, pack \in Texts : PublishTranslations(targets, pack)
    BY <1>2 DEF TranslationsEditor
  <2>2. targets \in SUBSET Stations
    OBVIOUS
  <2>3. Rows' /\ Progress /\ Elsewhere
    BY <2>1, <2>2, PublishTranslationsStep DEF PublishTranslations, Untouched
  <2> QED
    BY <2>3, RowsStep
<1>3. CASE StripeTerminalLocations
  <2>1. PICK s \in Stations : StripeLocationCell(s) \/ StripeLocationAction(s)
    BY <1>3 DEF StripeTerminalLocations
  <2>2. making \in [Stations -> Addresses \cup {None}]
    BY DEF Rows
  <2>3. ASSUME NEW location, ChooseStripeLocation(s, location) PROVE ScreensInv'
    <3>1. location \in Addresses \cup {None}
      BY <2>3 DEF ChooseStripeLocation, AddressOf, Rows
    <3>2. Rows' /\ Progress /\ Elsewhere
      BY <2>2, <2>3, <3>1, SetStripeTerminalLocationStep DEF ChooseStripeLocation, SetStripeTerminalLocation
    <3> QED
      BY <3>2, RowsStep
  <2>4. CASE AskStripeLocation(s) \/ StripeLocationFails(s)
    <3>1. making' \in [Stations -> Addresses \cup {None}]
      BY <2>2, <2>4 DEF AskStripeLocation, StripeLocationFails, TerminalLocationFor, Rows
    <3>2. UNCHANGED <<venues, stations, displays, library, now>> /\ Elsewhere
      BY <2>4 DEF AskStripeLocation, StripeLocationFails
    <3>3. Rows'
      BY <3>1, <3>2 DEF Rows
    <3>4. Progress
      BY <3>2, SameRowsSameVersion, ScreensAssumption DEF Progress, Rows, Stamp
    <3> QED
      BY <3>2, <3>3, <3>4, RowsStep
  <2>5. CASE StripeLocationMade(s)
    <3>1. making[s] \in Addresses \cup {None} /\ making' \in [Stations -> Addresses \cup {None}]
      BY <2>2, <2>5 DEF StripeLocationMade
    <3>2. Rows' /\ Progress /\ Elsewhere
      BY <2>5, <3>1, SetStripeTerminalLocationStep DEF StripeLocationMade, SetStripeTerminalLocation
    <3> QED
      BY <3>2, RowsStep
  <2> QED
    BY <2>1, <2>3, <2>4, <2>5 DEF StripeLocationCell, StripeLocationAction
<1>4. CASE MediaCreateAction \/ MediaLibrary
  <2>1. PICK m \in Media : CreateMedia(m) \/ \E status \in {"PUBLISHED", "ARCHIVED"} : SetMediaStatus(m, status)
    BY <1>4 DEF MediaCreateAction, MediaLibrary, Rows
  <2>2. Rows' /\ Progress /\ Elsewhere
    BY <2>1, LibraryStep DEF CreateMedia, SetMediaStatus, Untouched
  <2> QED
    BY <2>2, RowsStep
<1> QED
  BY <1>1, <1>2, <1>3, <1>4

LEMMA VenueStep ==
  ASSUME ScreensInv, NEW v \in Venues, Venue(v)
  PROVE  ScreensInv'
<1> USE DEF ScreensInv
<1>1. ASSUME NEW s \in Stations, RelocateStation(s, v) PROVE ScreensInv'
  <2>1. Rows' /\ Progress /\ Elsewhere
    BY <1>1, RelocateStationStep DEF RelocateStation, Untouched
  <2> QED
    BY <2>1, RowsStep
<1>2. ASSUME NEW name \in Names, NEW address \in Addresses, UpdateVenue(v, name, address) PROVE ScreensInv'
  <2>1. Rows' /\ Progress /\ Elsewhere
    BY <1>2, UpdateVenueStep DEF UpdateVenue, Untouched
  <2> QED
    BY <2>1, RowsStep
<1> QED
  BY <1>1, <1>2 DEF Venue

\* The clock alone: windows open and close, no version moves.
LEMMA TickStep ==
  ASSUME ScreensInv, Tick
  PROVE  ScreensInv'
<1>1. now' = now + 1 /\ now' \in Stamp /\ now \in Nat /\ \A x \in Stamp : x \in Nat /\ (x < now => x < now')
  BY ClockMoves DEF Tick, ScreensInv
<1>2. UNCHANGED <<venues, stations, displays, library, making>> /\ Elsewhere
  BY DEF Tick, server
<1>3. Rows'
  BY <1>1, <1>2 DEF ScreensInv, Rows
<1>4. Progress
  BY <1>1, <1>2, SameRowsSameVersion DEF Progress
<1> QED
  BY <1>2, <1>3, <1>4, RowsStep

\* Tokens and credentials.
LEMMA TokenStep ==
  ASSUME ScreensInv, NEW t \in TokenIds, TokenExpires(t) \/ \E s \in Stations : IssueToken(t, s)
  PROVE  ScreensInv'
<1> USE DEF ScreensInv
<1>1. UNCHANGED <<server, creds, devices, now>>
  BY DEF TokenExpires, IssueToken
<1>2. tokens' \in [DOMAIN tokens' -> [station : Stations, usable : BOOLEAN]] /\ DOMAIN tokens' \subseteq TokenIds
  <2>1. CASE TokenExpires(t)
    BY <2>1 DEF TokenExpires, Enrolled
  <2>2. ASSUME NEW s \in Stations, IssueToken(t, s)
        PROVE  tokens' \in [DOMAIN tokens' -> [station : Stations, usable : BOOLEAN]] /\ DOMAIN tokens' \subseteq TokenIds
    <3>1. tokens' = [k \in DOMAIN tokens \cup {t} |-> IF k = t THEN [station |-> s, usable |-> TRUE] ELSE tokens[k]]
      BY <2>2 DEF IssueToken
    <3>2. \A k \in DOMAIN tokens : tokens[k] \in [station : Stations, usable : BOOLEAN]
      BY DEF Enrolled
    <3>3. [station |-> s, usable |-> TRUE] \in [station : Stations, usable : BOOLEAN]
      OBVIOUS
    <3> QED
      BY <3>1, <3>2, <3>3 DEF Enrolled
  <2> QED
    BY <2>1, <2>2
<1>3. Enrolled' /\ OneAtWork'
  BY <1>1, <1>2 DEF Enrolled, OneAtWork, Live
<1>4. Rows'
  BY <1>1, ServerKept
<1>5. devices' = Handed(None, 0, FALSE)
  BY <1>1 DEF Handed
<1>6. Known' /\ Devices'
  BY <1>1, <1>5, SecretsKeepDevices
<1> QED
  BY <1>3, <1>4, <1>6

LEMMA EnrollStep ==
  ASSUME ScreensInv, NEW t \in TokenIds, NEW r \in Runtimes, NEW received \in BOOLEAN, Enroll(t, r, received)
  PROVE  ScreensInv'
<1> USE DEF ScreensInv
<1>1. t \in DOMAIN tokens /\ r \notin DOMAIN creds /\ LiveAt(tokens[t].station) = {} /\ tokens[t].station \in Stations
  BY DEF Enroll, CanEnroll, Enrolled
<1>2. UNCHANGED <<server, now>>
  BY DEF Enroll
<1>3. /\ DOMAIN creds' = DOMAIN creds \cup {r} /\ creds'[r] = [station |-> tokens[t].station, version |-> 1, revoked |-> FALSE]
      /\ \A q \in DOMAIN creds : creds'[q] = creds[q]
      /\ creds' = [k \in DOMAIN creds' |-> creds'[k]]
  BY <1>1 DEF Enroll
<1>4. creds' \in [DOMAIN creds' -> [station : Stations, version : Nat, revoked : BOOLEAN]] /\ DOMAIN creds' \subseteq Runtimes
  <2>1. ASSUME NEW q \in DOMAIN creds' PROVE creds'[q] \in [station : Stations, version : Nat, revoked : BOOLEAN]
    <3>1. CASE q = r
      <4>1. [station |-> tokens[t].station, version |-> 1, revoked |-> FALSE] \in [station : Stations, version : Nat, revoked : BOOLEAN]
        BY <1>1
      <4> QED
        BY <1>3, <3>1, <4>1
    <3>2. CASE q # r
      BY <1>3, <3>2 DEF Enrolled
    <3> QED
      BY <3>1, <3>2
  <2> QED
    BY <1>3, <2>1 DEF Enrolled
<1>5. tokens' \in [DOMAIN tokens' -> [station : Stations, usable : BOOLEAN]] /\ DOMAIN tokens' \subseteq TokenIds
  BY <1>1 DEF Enroll, Enrolled
<1>6. Enrolled'
  BY <1>4, <1>5 DEF Enrolled
<1>7. OneAtWork'
  <2> SUFFICES ASSUME NEW p \in DOMAIN creds', NEW q \in DOMAIN creds',
                      Live(p)', Live(q)', creds'[p].station = creds'[q].station
               PROVE  p = q
    BY DEF OneAtWork
  <2>1. \A k \in DOMAIN creds : Live(k)' => Live(k) /\ creds[k].station # tokens[t].station
    BY <1>1, <1>3 DEF Live, LiveAt
  <2>2. CASE p \in DOMAIN creds /\ q \in DOMAIN creds
    BY <1>3, <2>1, <2>2 DEF OneAtWork, Live
  <2>3. CASE p \notin DOMAIN creds \/ q \notin DOMAIN creds
    BY <1>3, <2>1, <2>3
  <2> QED
    BY <2>2, <2>3
<1>8. Known' /\ Devices'
  BY <1>2, <1>3, SecretsKeepDevices DEF Enroll
<1> QED
  BY <1>2, <1>6, <1>7, <1>8, ServerKept


LEMMA RotateStep ==
  ASSUME ScreensInv, NEW r \in Runtimes, NEW expected, NEW received \in BOOLEAN, Rotate(r, expected, received)
  PROVE  ScreensInv'
<1> USE DEF ScreensInv
<1>1. r \in DOMAIN creds /\ expected = creds[r].version /\ expected \in Nat
  BY DEF Rotate, Live, Enrolled
<1>2. creds' = [creds EXCEPT ![r].version = creds[r].version + 1] /\ UNCHANGED <<server, tokens, now>>
  BY DEF Rotate
<1>3. \A q \in DOMAIN creds : creds'[q].station = creds[q].station /\ creds'[q].revoked = creds[q].revoked
  BY <1>2 DEF Enrolled
<1>4. Enrolled'
  BY <1>1, <1>2 DEF Enrolled
<1>5. OneAtWork'
  BY <1>2, <1>3 DEF OneAtWork, Live
<1>6. Known' /\ Devices'
  <2>1. devices' = Handed(r, expected + 1, received) /\ expected + 1 \in Nat
    BY <1>1 DEF Rotate
  <2> QED
    BY <1>2, <1>3, <2>1, SecretsKeepDevices
<1> QED
  BY <1>2, <1>4, <1>5, <1>6, ServerKept

LEMMA RevokeStep ==
  ASSUME ScreensInv, NEW r \in Runtimes, Revoke(r)
  PROVE  ScreensInv'
<1> USE DEF ScreensInv
<1>1. r \in DOMAIN creds /\ creds' = [creds EXCEPT ![r].revoked = TRUE] /\ UNCHANGED <<server, tokens, devices, now>>
  BY DEF Revoke, Live
<1>2. \A q \in DOMAIN creds : creds'[q].station = creds[q].station /\ (~creds'[q].revoked => ~creds[q].revoked)
  BY <1>1 DEF Enrolled
<1>3. Enrolled'
  BY <1>1 DEF Enrolled
<1>4. OneAtWork'
  BY <1>1, <1>2 DEF OneAtWork, Live
<1>5. Known' /\ Devices'
  <2>1. devices' = Handed(None, 0, FALSE)
    BY <1>1 DEF Handed
  <2> QED
    BY <1>1, <1>2, <2>1, SecretsKeepDevices
<1> QED
  BY <1>1, <1>3, <1>4, <1>5, ServerKept

\* A step of one of the runtimes.
LEMMA RuntimesStep ==
  ASSUME ScreensInv, NEW r \in Followed, Runtime(r)
  PROVE  ScreensInv'
<1>1. Keep /\ Known' /\ Devices'
  BY RuntimeStep DEF ScreensInv
<1>2. Rows'
  BY <1>1, ServerKept DEF ScreensInv, Keep
<1>3. Enrolled' /\ OneAtWork'
  BY <1>1 DEF ScreensInv, Keep, Enrolled, OneAtWork, Live
<1> QED
  BY <1>1, <1>2, <1>3 DEF ScreensInv

LEMMA NextHolds == ScreensInv /\ [Next]_vars => ScreensInv'
<1> SUFFICES ASSUME ScreensInv, [Next]_vars PROVE ScreensInv'
  OBVIOUS
<1>1. CASE DisplayConsole
  <2>1. CASE RuntimeFleet
    <3>1. PICK s \in Stations : RuntimePairingAction(s)
      BY <2>1 DEF RuntimeFleet
    <3>2. DOMAIN creds \subseteq Runtimes
      BY DEF ScreensInv, Enrolled
    <3> QED
      BY <3>1, <3>2, TokenStep, RotateStep, RevokeStep DEF RuntimePairingAction
  <2>2. CASE ~RuntimeFleet
    BY <1>1, <2>2, ConsoleStep DEF DisplayConsole
  <2> QED
    BY <2>1, <2>2
<1>2. ASSUME NEW v \in Venues, Venue(v) PROVE ScreensInv'
  BY <1>2, VenueStep
<1>6. CASE Tick
  BY <1>6, TickStep
<1>3. ASSUME NEW t \in TokenIds, Pairing(t) PROVE ScreensInv'
  BY <1>3, TokenStep, EnrollStep DEF Pairing
<1>4. ASSUME NEW r \in Followed, Runtime(r) PROVE ScreensInv'
  BY <1>4, RuntimesStep
<1>5. CASE UNCHANGED vars
  <2>1. Elsewhere /\ UNCHANGED <<venues, stations, displays, library, making, now>>
    BY <1>5 DEF vars, Elsewhere
  <2>2. Rows'
    BY <2>1, ServerKept DEF ScreensInv, server
  <2>3. Progress
    BY <2>1, SameRowsSameVersion, ScreensAssumption DEF Progress, ScreensInv, Rows, Stamp
  <2> QED
    BY <2>1, <2>2, <2>3, RowsStep
<1> QED
  BY <1>1, <1>2, <1>3, <1>4, <1>5, <1>6 DEF Next

\* The invariant holds in every state: the rows, the enrolments, the versions and the devices are
\* consistent whatever the console, the runtimes and the network do.
THEOREM ScreensInvariant == Spec => []ScreensInv
  BY InitHolds, NextHolds, PTL DEF Spec


-----------------------------------------------------------------------------
(* What follows from it.                                                     *)

\* A station never has two runtimes at work (runtime/enroll), and all rows have their types.
THEOREM OneRuntime == Spec => []OneRuntimePerStation
<1>1. ScreensInv => TypeOK
  BY DEF ScreensInv, Rows, Enrolled, Devices, Ordered, TypeOK
<1>2. ASSUME ScreensInv, NEW s \in Stations PROVE Cardinality(LiveAt(s)) <= 1
  <2>1. \A q, r \in LiveAt(s) : q = r
    BY <1>2 DEF ScreensInv, OneAtWork, LiveAt
  <2>2. CASE LiveAt(s) = {}
    BY <2>2, FS_EmptySet
  <2>3. CASE LiveAt(s) # {}
    <3>1. PICK q \in LiveAt(s) : LiveAt(s) = {q}
      BY <2>1, <2>3
    <3> QED
      BY <3>1, FS_Singleton
  <2> QED
    BY <2>2, <2>3
<1>3. ScreensInv => OneRuntimePerStation
  BY <1>1, <1>2 DEF OneRuntimePerStation
<1> QED
  BY <1>3, ScreensInvariant, PTL

\* A screen that holds the version of its station shows every text, pack and Location written so far,
\* and a playlist the present library gave since: ignoring an answer that is not newer hides no
\* write but the name of a venue (displayConfigFor, applyRuntimeConfig).
THEOREM VersionCovers == Spec => []VersionCoversWrites
<1>1. ScreensInv => VersionCoversWrites
  <2> SUFFICES ASSUME ScreensInv, NEW r \in DOMAIN creds \cap Followed, Holding(r)
               PROVE  Covers(creds[r].station, devices[r].config.settings)
    BY DEF VersionCoversWrites
  <2>1. devices[r].config \in Config /\ Holds(r, devices[r].config)
    BY DEF ScreensInv, Devices, Device, Holds, Holding
  <2> QED
    BY <2>1 DEF ScreensInv, Known, Fits, Holding
<1> QED
  BY <1>1, ScreensInvariant, PTL

\* What a screen shows never gets older, through answers out of order, failed writes and restarts
\* in the middle of one (StationRuntimeController).
THEOREM NeverBack == Spec => ScreenNeverGoesBack
<1>1. ASSUME ScreensInv, [Next]_vars, NEW r \in Followed
      PROVE  VersionShown(r)' >= VersionShown(r)
  <2>1. /\ devices \in [Followed -> Device] /\ Ordered(r)
        /\ devices[r].config \in Config \cup {None} /\ devices[r].cache \in Config \cup {None} /\ devices[r].writing \in BOOLEAN
    BY <1>1 DEF ScreensInv, Devices, Device
  <2>2. VersionShown(r) \in Nat
    BY <2>1 DEF VersionShown, Config
  <2>3. devices[r].writing => devices[r].cache # None
    <3> SUFFICES ASSUME devices[r].writing PROVE devices[r].cache \in Config
      BY NoneAssumption
    <3>1. devices[r].queue \in Seq(Config) /\ devices[r].queue # <<>> /\ devices[r].cache = Head(devices[r].queue)
      BY <1>1, <2>1 DEF ScreensInv, Devices, Device, Ordered
    <3> QED
      BY <3>1
  <2> DEFINE Same == devices'[r].config = devices[r].config
  <2>4. CASE Same
    BY <2>2, <2>4 DEF VersionShown
  <2>5. CASE Written(r)
    <3>1. devices'[r].config = devices[r].cache /\ Newer(r, devices[r].cache)
      BY <2>1, <2>5 DEF Written, Ordered, Device
    <3>2. devices[r].cache # None
      BY <2>5, <2>3 DEF Written
    <3> QED
      BY <2>1, <2>2, <3>1, <3>2 DEF Newer, VersionShown, Config
  <2>6. CASE Restart(r)
    <3>1. devices'[r].config = devices[r].cache
      BY <2>1, <2>6 DEF Restart, Device
    <3> QED
      BY <2>1, <2>2, <2>3, <3>1 DEF Ordered, Newer, VersionShown, Config
  <2>7. ASSUME NEW q \in Followed, Runtime(q) PROVE q # r => Same
    BY <2>1, <2>7 DEF Runtime, Fetch, Arrive, Receive, Lose, Ignore, Write, WriteFails, Written, Restart
  <2>8. Runtime(r) => Written(r) \/ Restart(r) \/ Same
    BY <2>1 DEF Runtime, Fetch, Arrive, Receive, Lose, Ignore, Write, WriteFails, Device
  <2>9. ASSUME NEW q, NEW version, NEW received \in BOOLEAN, devices' = Handed(q, version, received)
        PROVE  Same
    BY <2>1, <2>9 DEF Handed, Device
  <2>10. ASSUME DisplayConsole PROVE Same
    <3>1. CASE RuntimeFleet
      <4>1. PICK s \in Stations : RuntimePairingAction(s)
        BY <3>1 DEF RuntimeFleet
      <4>2. ASSUME NEW q, NEW seen, NEW copied \in BOOLEAN, Rotate(q, seen, copied) PROVE Same
        BY <2>9, <4>2 DEF Rotate
      <4>3. ASSUME NEW q, Revoke(q) PROVE Same
        BY <4>3 DEF Revoke
      <4>4. ASSUME NEW t, NEW p, IssueToken(t, p) PROVE Same
        BY <4>4 DEF IssueToken
      <4> QED
        BY <4>1, <4>2, <4>3, <4>4 DEF RuntimePairingAction
    <3>2. CASE ~RuntimeFleet
      BY <2>10, <3>2 DEF DisplayConsole, StationDisplayForm, TranslationsEditor, StripeTerminalLocations,
           MediaCreateAction, MediaLibrary, StripeLocationCell, StripeLocationAction, SaveDisplayConfig,
           PublishTranslations, ChooseStripeLocation, AskStripeLocation, StripeLocationMade,
           StripeLocationFails, SetStripeTerminalLocation, CreateMedia, SetMediaStatus, Untouched, Elsewhere
    <3> QED
      BY <3>1, <3>2
  <2>11. ASSUME NEW v \in Venues, Venue(v) PROVE devices' = devices
    BY <2>11 DEF Venue, RelocateStation, UpdateVenue, Untouched, Elsewhere
  <2>12. ASSUME NEW t \in TokenIds, Pairing(t) PROVE Same
    BY <2>9, <2>12 DEF Pairing, TokenExpires, Enroll
  <2>13. ASSUME UNCHANGED vars \/ Tick PROVE Same
    BY <2>13 DEF vars, Tick, Elsewhere
  <2>14. Same \/ Written(r) \/ Restart(r)
    <3> HIDE DEF Same
    <3>1. \A q \in Followed : Runtime(q) => Same \/ Written(r) \/ Restart(r)
      BY <2>7, <2>8 DEF Same
    <3>2. \A v \in Venues : Venue(v) => Same
      BY <2>11 DEF Same
    <3>3. \A t \in TokenIds : Pairing(t) => Same
      BY <2>12
    <3>4. CASE Next
      BY <2>10, <2>13, <3>1, <3>2, <3>3, <3>4 DEF Next
    <3> QED
      BY <1>1, <2>13, <3>4
  <2> QED
    BY <2>4, <2>5, <2>6, <2>14
<1>2. ScreensInv /\ [Next]_vars => [\A r \in Followed : VersionShown(r)' >= VersionShown(r)]_vars
  BY <1>1
<1> QED
  BY <1>2, ScreensInvariant, PTL DEF Spec, ScreenNeverGoesBack


-----------------------------------------------------------------------------
(* Locations.                                                                *)

\* Only an answer of Stripe to a request that read the address before the station, or its venue,
\* moved can leave a card reader with a Location of another address (stripe-location/create;
\* relocateStation and updateVenue clear what they make wrong).
THEOREM LateLocations == Spec => OnlyLateLocations
<1>1. ASSUME ScreensInv, [Next]_vars, NEW s \in Stations
      PROVE  LocatedRight(s) /\ ~LocatedRight(s)' =>
               making[s] \notin {AddressOf(s), None} /\ stations'[s].location = making[s]
  <2> SUFFICES ASSUME LocatedRight(s) PROVE LocatedRight(s)' \/ (StripeLocationMade(s) /\ making[s] \notin {AddressOf(s), None})
    <3>1. StripeLocationMade(s) => stations'[s].location = making[s]
      BY <1>1 DEF StripeLocationMade, SetStripeTerminalLocation, ScreensInv, Rows
    <3> QED
      BY <3>1
  <2>1. /\ venues \in [Venues -> [name : Names, address : Addresses]]
        /\ stations \in [Stations -> [venue : Venues, location : Addresses \cup {None}, at : Stamp]]
        /\ stations[s].location \in {AddressOf(s), None}
    BY <1>1 DEF ScreensInv, Rows, LocatedRight
  <2> DEFINE Right == LocatedRight(s)'
  <2>2. ASSUME UNCHANGED <<venues, stations>> PROVE Right
    BY <2>1, <2>2 DEF LocatedRight, AddressOf
  <2>3. ASSUME NEW t \in Stations, NEW location, SetStripeTerminalLocation(t, location)
        PROVE  Right \/ (t = s /\ location \notin {AddressOf(s), None})
    <3>1. venues' = venues /\ stations'[s].venue = stations[s].venue
      BY <2>1, <2>3 DEF SetStripeTerminalLocation
    <3>2. AddressOf(s)' = AddressOf(s)
      BY <3>1 DEF AddressOf
    <3>3. t # s => stations'[s].location = stations[s].location
      BY <2>1, <2>3 DEF SetStripeTerminalLocation
    <3>4. t = s => stations'[s].location = location
      BY <2>1, <2>3 DEF SetStripeTerminalLocation
    <3>5. Right <=> stations'[s].location \in {AddressOf(s), None}
      BY <3>2 DEF LocatedRight
    <3> HIDE DEF Right
    <3>6. CASE t = s
      BY <3>4, <3>5, <3>6
    <3>7. CASE t # s
      BY <2>1, <3>3, <3>5, <3>7
    <3> QED
      BY <3>6, <3>7
  <2>4. ASSUME NEW t \in Stations, StripeLocationCell(t) \/ StripeLocationAction(t)
        PROVE  Right \/ (StripeLocationMade(s) /\ making[s] \notin {AddressOf(s), None})
    <3>1. ASSUME NEW location, ChooseStripeLocation(t, location) PROVE Right
      BY <2>3, <3>1 DEF ChooseStripeLocation
    <3>2. CASE StripeLocationMade(t)
      BY <2>3, <3>2 DEF StripeLocationMade
    <3>3. CASE AskStripeLocation(t) \/ StripeLocationFails(t)
      BY <2>2, <3>3 DEF AskStripeLocation, StripeLocationFails
    <3> QED
      BY <2>4, <3>1, <3>2, <3>3 DEF StripeLocationCell, StripeLocationAction
  <2>5. ASSUME NEW t \in Stations, NEW v \in Venues, RelocateStation(t, v) PROVE Right
    <3>1. venues' = venues
      BY <2>5 DEF RelocateStation
    <3>2. CASE t = s
      BY <2>1, <2>5, <3>2 DEF RelocateStation, LocatedRight
    <3>3. CASE t # s
      <4>1. stations'[s] = stations[s]
        BY <2>1, <2>5, <3>3 DEF RelocateStation
      <4> QED
        BY <2>1, <3>1, <4>1 DEF LocatedRight, AddressOf
    <3> QED
      BY <3>2, <3>3
  <2>6. ASSUME NEW v \in Venues, NEW name \in Names, NEW address \in Addresses, UpdateVenue(v, name, address)
        PROVE  Right
    <3>1. venues' = [venues EXCEPT ![v] = [name |-> name, address |-> address]]
      BY <2>6 DEF UpdateVenue
    <3>2. stations'[s].venue = stations[s].venue
      BY <2>1, <2>6 DEF UpdateVenue
    <3>3. CASE stations[s].venue = v
      <4>1. AddressOf(s)' = address /\ AddressOf(s) = venues[v].address
        BY <2>1, <3>1, <3>2, <3>3 DEF AddressOf
      <4>2. stations'[s].location = None \/ (address = venues[v].address /\ stations'[s].location = stations[s].location)
        BY <2>1, <2>6, <3>3 DEF UpdateVenue
      <4> QED
        BY <2>1, <4>1, <4>2 DEF LocatedRight
    <3>4. CASE stations[s].venue # v
      <4>1. stations'[s] = stations[s] /\ AddressOf(s)' = AddressOf(s)
        BY <2>1, <2>6, <3>1, <3>2, <3>4 DEF UpdateVenue, AddressOf
      <4> QED
        BY <2>1, <4>1 DEF LocatedRight
    <3> QED
      BY <3>3, <3>4
  <2>7. CASE DisplayConsole
    <3>1. CASE StripeTerminalLocations
      BY <2>4, <3>1 DEF StripeTerminalLocations
    <3>2. CASE RuntimeFleet
      BY <2>2, <3>2 DEF RuntimeFleet, RuntimePairingAction, IssueToken, Rotate, Revoke, server
    <3>3. CASE StationDisplayForm \/ TranslationsEditor \/ MediaCreateAction \/ MediaLibrary
      BY <2>2, <3>3 DEF StationDisplayForm, TranslationsEditor, MediaCreateAction, MediaLibrary,
           SaveDisplayConfig, PublishTranslations, CreateMedia, SetMediaStatus
    <3> QED
      BY <2>7, <3>1, <3>2, <3>3 DEF DisplayConsole
  <2>8. ASSUME NEW v \in Venues, Venue(v) PROVE Right
    BY <2>5, <2>6, <2>8 DEF Venue
  <2>9. ASSUME NEW t \in TokenIds, Pairing(t) PROVE Right
    BY <2>2, <2>9 DEF Pairing, TokenExpires, Enroll, server
  <2>10. ASSUME NEW r \in Followed, Runtime(r) PROVE Right
    BY <2>2, <2>10 DEF Runtime, Fetch, Arrive, Receive, Lose, Ignore, Write, WriteFails, Written, Restart, Keep, server
  <2>11. CASE Tick \/ UNCHANGED vars
    BY <2>2, <2>11 DEF Tick, vars, server
  <2> QED
    BY <1>1, <2>7, <2>8, <2>9, <2>10, <2>11 DEF Next
<1>2. ScreensInv /\ [Next]_vars =>
        [\A s \in Stations : LocatedRight(s) /\ ~LocatedRight(s)' =>
           making[s] \notin {AddressOf(s), None} /\ stations'[s].location = making[s]]_vars
  BY <1>1
<1> QED
  BY <1>2, ScreensInvariant, PTL DEF Spec, OnlyLateLocations

=============================================================================
