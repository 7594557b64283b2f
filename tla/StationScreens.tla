--------------------------- MODULE StationScreens ---------------------------
(***************************************************************************)
(* What the back office shows on a cabinet's own screen, and how it gets   *)
(* there: the runtime of the cabinet is enrolled with a one-time token,    *)
(* polls its configuration with a credential that can be rotated and       *)
(* revoked, and keeps the newest configuration it has received through     *)
(* late answers, failed writes, and restarts (StationRuntimeController).   *)
(*                                                                         *)
(* Versions are timestamps.  Two writes of the back office never share a   *)
(* millisecond here: every stamped write moves the clock.  Time also       *)
(* passes by itself, and with it the windows of the media open and close.  *)
(***************************************************************************)
EXTENDS Integers, FiniteSets, Sequences, SequencesExt, FiniteSetsExt

CONSTANTS
  None,
  Stations, Venues,
  Runtimes,   \* runtime identifiers, one per enrolment
  Followed,   \* those of them whose device is part of the model; of the others, only the credential
  TokenIds,   \* one-time pairing tokens
  Names,      \* names a venue may have
  Addresses,  \* addresses a venue may have; a Stripe Terminal Location is known by the one it names
  AddressAtFirst, NameAtFirst, VenueAtFirst, \* where each venue, and each station, is to begin with
  Entries,    \* what the back office may write of a venue: <<venue, name, address>>
  Texts,      \* contents of the display texts and of the translation packs; None is what the program ships with
  Media,      \* items of the media library
  OnAirAtFirst, \* the items already published
  TargetsOf,  \* the stations each item is for; none means all
  WindowOf,   \* when each item is shown: from startsAt (None: at once) until endsAt (None: for ever)
  MaxTime,    \* bound of the clock, so of the stamped writes and of the time between them
  MaxVersion, \* bound of the rotations of each credential
  MaxFlight   \* configurations on their way to one runtime at once

ASSUME ScreensAssumption ==
  /\ AddressAtFirst \in [Venues -> Addresses] /\ NameAtFirst \in [Venues -> Names]
  /\ VenueAtFirst \in [Stations -> Venues]
  /\ OnAirAtFirst \subseteq Media /\ TargetsOf \in [Media -> SUBSET Stations]
  /\ WindowOf \in [Media -> [from : Nat \cup {None}, until : Nat \cup {None}]]
  /\ Entries \subseteq Venues \X Names \X Addresses
  /\ MaxTime \in Nat \ {0} /\ MaxVersion \in [Runtimes -> Nat] /\ MaxFlight \in Nat
  /\ None \notin Runtimes \cup Addresses \cup Texts /\ Followed \subseteq Runtimes

VARIABLES
  venues,    \* the name and the address of each venue
  stations,  \* where each station stands, and the Location of its card reader
  displays,  \* the display configuration of each station
  library,   \* the media library
  making,    \* the address of the Location being made at Stripe for each station, None if none is
  tokens,    \* the tokens issued so far
  creds,     \* the runtimes registered so far
  devices,   \* what each followed runtime holds
  now
server == <<venues, stations, displays, library, making>>
vars == <<venues, stations, displays, library, making, tokens, creds, devices, now>>

Stamp == 0 .. MaxTime + 1
Settings ==
  [name : Names, text : Texts \cup {None}, pack : Texts \cup {None}, location : Addresses \cup {None},
   playlist : SUBSET Media]
Config == [version : Nat, settings : Settings]
ASSUME NoneAssumption == None \notin Config

NoCredential == 0
\* secret: the version of the credential it holds; config: what it shows; cache: what it has
\* stored; arriving: answers on their way; queue: those accepted for writing, in order.
Device == [secret : Nat, config : Config \cup {None}, cache : Config \cup {None},
           arriving : Seq(Config), queue : Seq(Config), writing : BOOLEAN]
NewDevice == [secret |-> NoCredential, config |-> None, cache |-> None,
              arriving |-> <<>>, queue |-> <<>>, writing |-> FALSE]

Init ==
  /\ venues = [v \in Venues |-> [name |-> NameAtFirst[v], address |-> AddressAtFirst[v]]]
  /\ stations = [s \in Stations |-> [venue |-> VenueAtFirst[s], location |-> None, at |-> 0]]
  /\ displays = [s \in Stations |-> [text |-> None, pack |-> None, at |-> 0]]
  /\ library = [m \in OnAirAtFirst |-> [status |-> "PUBLISHED", at |-> 1]]
  /\ making = [s \in Stations |-> None]
  /\ tokens = [t \in {} |-> None]
  /\ creds = [r \in {} |-> None]
  /\ devices = [r \in Followed |-> NewDevice]
  /\ now = 2  \* any time after version 1, which a station without any setting is served

-----------------------------------------------------------------------------
(* What a station is served. *)

AddressOf(s) == venues[stations[s].venue].address
InWindow(m, t) ==
  /\ WindowOf[m].from = None \/ WindowOf[m].from <= t
  /\ WindowOf[m].until = None \/ t < WindowOf[m].until
\* activePlaylist: published, in its window, for this station.
PlaylistAt(s, t) ==
  {m \in DOMAIN library : library[m].status = "PUBLISHED" /\ InWindow(m, t)
                            /\ (TargetsOf[m] = {} \/ s \in TargetsOf[m])}
SettingsOf(s) ==
  [name |-> venues[stations[s].venue].name, text |-> displays[s].text, pack |-> displays[s].pack,
   location |-> stations[s].location, playlist |-> PlaylistAt(s, now)]

\* Mutant: the version forgets the card reader.
VersionWithoutLocation(s) ==
  Max({displays[s].at, 1} \cup {library[m].at : m \in DOMAIN library})
VersionOf(s) ==
  Max({displays[s].at, stations[s].at, 1} \cup {library[m].at : m \in DOMAIN library})
DisplayConfigFor(s) == [version |-> VersionOf(s), settings |-> SettingsOf(s)]

\* One stamped write of the back office.
Stamped == now < MaxTime /\ now' = now + 1
Elsewhere == UNCHANGED <<tokens, creds, devices>>
Untouched == Elsewhere /\ UNCHANGED making
DisplayStamp(s) == Max({now, displays[s].at + 1})

SaveDisplayConfig(s, text) ==
  /\ Stamped
  /\ displays' = [displays EXCEPT ![s].text = text, ![s].at = DisplayStamp(s)]
  /\ UNCHANGED <<venues, stations, library>> /\ Untouched

PublishTranslations(targets, pack) ==
  /\ Stamped
  /\ displays' = [s \in Stations |->
       IF s \in targets THEN [displays[s] EXCEPT !.pack = pack, !.at = DisplayStamp(s)] ELSE displays[s]]
  /\ UNCHANGED <<venues, stations, library>> /\ Untouched

\* setStripeTerminalLocation: whatever Location, at the time of the write.
SetStripeTerminalLocation(s, location) ==
  /\ Stamped
  /\ stations' = [stations EXCEPT ![s].location = location, ![s].at = now]
  /\ UNCHANGED <<venues, displays, library>> /\ Elsewhere
\* station/stripe-location: typed or picked.  The operator is taken to choose one of the right address.
ChooseStripeLocation(s, location) ==
  /\ location \in {AddressOf(s), None}
  /\ SetStripeTerminalLocation(s, location) /\ UNCHANGED making

\* createTerminalLocation: a new Location names the address it is made from.
TerminalLocationFor(venue) == venues[venue].address
\* station/stripe-location/create: the address is read, Stripe makes the Location, and only then
\* is it written.  The request may also fail, or die, in between.
AskStripeLocation(s) ==
  /\ making[s] = None /\ now < MaxTime
  /\ making' = [making EXCEPT ![s] = TerminalLocationFor(stations[s].venue)]
  /\ UNCHANGED <<venues, stations, displays, library, now>> /\ Elsewhere
StripeLocationMade(s) ==
  /\ making[s] # None /\ making' = [making EXCEPT ![s] = None]
  /\ SetStripeTerminalLocation(s, making[s])
StripeLocationFails(s) ==
  /\ making[s] # None /\ making' = [making EXCEPT ![s] = None]
  /\ UNCHANGED <<venues, stations, displays, library, now>> /\ Elsewhere

\* Mutant: the card reader keeps the Location of the venue it leaves.
RelocateStationCarrying(s, v) ==
  /\ Stamped /\ v # stations[s].venue
  /\ stations' = [stations EXCEPT ![s] = [@ EXCEPT !.venue = v, !.at = now]]
  /\ UNCHANGED <<venues, displays, library>> /\ Untouched
\* Refused while a rental of the station is open; rentals are not part of this module.
RelocateStation(s, v) ==
  /\ Stamped /\ v # stations[s].venue
  /\ stations' = [stations EXCEPT ![s] = [venue |-> v, location |-> None, at |-> now]]
  /\ UNCHANGED <<venues, displays, library>> /\ Untouched

\* Another name stamps nothing; another address stamps the stations that lose their Location.
UpdateVenue(v, name, address) ==
  /\ Stamped
  /\ venues' = [venues EXCEPT ![v] = [name |-> name, address |-> address]]
  /\ stations' = [s \in Stations |->
       IF address # venues[v].address /\ stations[s].venue = v /\ stations[s].location # None
         THEN [stations[s] EXCEPT !.location = None, !.at = now]
         ELSE stations[s]]
  /\ UNCHANGED <<displays, library>> /\ Untouched

CreateMedia(m) ==
  /\ Stamped /\ m \notin DOMAIN library
  /\ library' = [k \in DOMAIN library \cup {m} |->
       IF k = m THEN [status |-> "DRAFT", at |-> now] ELSE library[k]]
  /\ UNCHANGED <<venues, stations, displays>> /\ Untouched
SetMediaStatus(m, status) ==
  /\ Stamped /\ m \in DOMAIN library
  /\ library' = [library EXCEPT ![m] = [status |-> status, at |-> now]]
  /\ UNCHANGED <<venues, stations, displays>> /\ Untouched

\* Time passes, and windows open and close, without any write.
Tick == Stamped /\ UNCHANGED server /\ Elsewhere

-----------------------------------------------------------------------------
(* Enrolment, rotation, revocation. *)

Live(r) == r \in DOMAIN creds /\ ~creds[r].revoked
LiveAt(s) == {r \in DOMAIN creds : Live(r) /\ creds[r].station = s}

IssueToken(t, s) ==
  /\ t \notin DOMAIN tokens
  /\ tokens' = [k \in DOMAIN tokens \cup {t} |-> IF k = t THEN [station |-> s, usable |-> TRUE] ELSE tokens[k]]
  /\ UNCHANGED <<server, creds, devices, now>>
TokenExpires(t) ==
  /\ t \in DOMAIN tokens /\ tokens[t].usable
  /\ tokens' = [tokens EXCEPT ![t].usable = FALSE]
  /\ UNCHANGED <<server, creds, devices, now>>

\* The answer carries the new secret, and may be lost.
Handed(r, version, received) ==
  IF r \in Followed /\ received THEN [devices EXCEPT ![r].secret = version] ELSE devices

\* Mutant: the station may already have a runtime.
CanEnrollTwice(t, r) ==
  /\ t \in DOMAIN tokens /\ tokens[t].usable
  /\ r \notin DOMAIN creds
CanEnroll(t, r) ==
  /\ t \in DOMAIN tokens /\ tokens[t].usable
  /\ r \notin DOMAIN creds
  /\ LiveAt(tokens[t].station) = {}
Enroll(t, r, received) ==
  /\ CanEnroll(t, r)
  /\ tokens' = [tokens EXCEPT ![t].usable = FALSE]
  /\ creds' = [k \in DOMAIN creds \cup {r} |->
       IF k = r THEN [station |-> tokens[t].station, version |-> 1, revoked |-> FALSE] ELSE creds[k]]
  /\ devices' = Handed(r, 1, received)
  /\ UNCHANGED <<server, now>>

\* The operator names the version it has seen, so of two rotations at once one is refused.
Rotate(r, expected, received) ==
  /\ Live(r) /\ creds[r].version = expected /\ expected < MaxVersion[r]
  /\ creds' = [creds EXCEPT ![r].version = @ + 1]
  /\ devices' = Handed(r, expected + 1, received)
  /\ UNCHANGED <<server, tokens, now>>

Revoke(r) ==
  /\ Live(r)
  /\ creds' = [creds EXCEPT ![r].revoked = TRUE]
  /\ UNCHANGED <<server, tokens, devices, now>>

-----------------------------------------------------------------------------
(* The runtime. *)

Accepted(r) == Live(r) /\ devices[r].secret = creds[r].version
Keep == UNCHANGED <<server, tokens, creds, now>>

\* runtime/config: the credential and the configuration are those of one reading.
Fetch(r) ==
  /\ Accepted(r)
  /\ Len(devices[r].arriving) + Len(devices[r].queue) < MaxFlight
  /\ devices' = [devices EXCEPT ![r].arriving = Append(@, DisplayConfigFor(creds[r].station))]
  /\ Keep

\* Answers arrive in any order, or not at all, or damaged (checksumConfig, validateRuntimeConfig).
Receive(r, i) ==
  /\ devices' = [devices EXCEPT ![r] = [devices[r] EXCEPT !.arriving = RemoveAt(@, i),
                                                       !.queue = Append(@, devices[r].arriving[i])]]
  /\ Keep
Lose(r, i) ==
  /\ devices' = [devices EXCEPT ![r].arriving = RemoveAt(@, i)]
  /\ Keep

\* Every version is at least 1, so the first configuration is newer than none.
VersionShown(r) == IF devices[r].config = None THEN 0 ELSE devices[r].config.version
\* Mutant: the configuration of an answer is taken whatever its version.
NewerAlways(r, config) == TRUE
\* Mutant: an answer must be newer by more than one step.
NewerByMore(r, config) == config.version > VersionShown(r) + 1
Newer(r, config) == config.version > VersionShown(r)

\* queueConfig: one write at a time; applyRuntimeConfig decides when the turn comes.
Ignore(r) ==
  /\ devices[r].queue # <<>> /\ ~devices[r].writing /\ ~Newer(r, Head(devices[r].queue))
  /\ devices' = [devices EXCEPT ![r].queue = Tail(@)]
  /\ Keep
Write(r) ==
  /\ devices[r].queue # <<>> /\ ~devices[r].writing /\ Newer(r, Head(devices[r].queue))
  /\ devices' = [devices EXCEPT ![r] = [@ EXCEPT !.cache = Head(devices[r].queue), !.writing = TRUE]]
  /\ Keep
\* A failed storage operation does not poison the queue.
WriteFails(r) ==
  /\ devices[r].queue # <<>> /\ ~devices[r].writing /\ Newer(r, Head(devices[r].queue))
  /\ devices' = [devices EXCEPT ![r].queue = Tail(@)]
  /\ Keep
Written(r) ==
  /\ devices[r].writing
  /\ devices' = [devices EXCEPT ![r] = [devices[r] EXCEPT !.config = Head(devices[r].queue),
                                                       !.queue = Tail(@), !.writing = FALSE]]
  /\ Keep

\* Mutant: the queue goes, the mark of a write in progress stays.
RestartStillWriting(r) ==
  /\ devices' = [devices EXCEPT ![r] = [@ EXCEPT !.config = devices[r].cache, !.arriving = <<>>, !.queue = <<>>]]
  /\ Keep
\* A restart at any point: the constructor starts again from what is stored.
Restart(r) ==
  /\ devices' = [devices EXCEPT ![r] = [@ EXCEPT !.config = devices[r].cache, !.arriving = <<>>,
                                              !.queue = <<>>, !.writing = FALSE]]
  /\ Keep

-----------------------------------------------------------------------------
(* The forms of the portal.  Each is filled in from the dashboard of now;   *)
(* only a pairing dialog may have been left open for any time.             *)

MediaCreateAction == \E m \in Media : CreateMedia(m)
\* Its two buttons: publish what is not published, archive what is not archived.
MediaLibrary ==
  \E m \in DOMAIN library, status \in {"PUBLISHED", "ARCHIVED"} :
    status # library[m].status /\ SetMediaStatus(m, status)

\* An identifier typed by hand, offered once it differs from the stored one.
StripeLocationCell(s) ==
  \E location \in {AddressOf(s), None} \ {stations[s].location} : ChooseStripeLocation(s, location)
\* The Locations of the Stripe account, except the one assigned, or a new one for this address.
StripeLocationAction(s) ==
  \/ stations[s].location # AddressOf(s) /\ ChooseStripeLocation(s, AddressOf(s))
  \/ AskStripeLocation(s) \/ StripeLocationMade(s) \/ StripeLocationFails(s)
StripeTerminalLocations == \E s \in Stations : StripeLocationCell(s) \/ StripeLocationAction(s)

\* All the texts of one station, from a draft loaded when it was picked and typed over since.
StationDisplayForm == \E s \in Stations, text \in Texts : SaveDisplayConfig(s, text)
\* One pack, to the station picked or to all of them; never one without any text.
TranslationsEditor ==
  \E targets \in {Stations} \cup {{s} : s \in Stations}, pack \in Texts : PublishTranslations(targets, pack)

\* The dialog shows no credential, or one of the station as it once was: each was true when the
\* page was read.  Whether the secret of a rotation is copied to the device is the operator's.
RuntimePairingAction(s) ==
  \/ \E t \in TokenIds : IssueToken(t, s)
  \/ \E r \in {q \in DOMAIN creds : creds[q].station = s} :
       \/ \E seen \in 1 .. creds[r].version, copied \in BOOLEAN : Rotate(r, seen, copied)
       \/ Revoke(r)
\* Which station a dialog is for: a row per station.
RuntimeFleet == \E s \in Stations : RuntimePairingAction(s)

DisplayConsole ==
  \/ StationDisplayForm \/ TranslationsEditor \/ StripeTerminalLocations
  \/ MediaCreateAction \/ MediaLibrary \/ RuntimeFleet
Venue(v) ==
  \/ \E s \in Stations : RelocateStation(s, v)
  \/ \E name \in Names, address \in Addresses : <<v, name, address>> \in Entries /\ UpdateVenue(v, name, address)
Pairing(t) == TokenExpires(t) \/ \E r \in Runtimes, received \in BOOLEAN : Enroll(t, r, received)

Arrive(r) == \E i \in DOMAIN devices[r].arriving : Receive(r, i)
Runtime(r) ==
  \/ Fetch(r) \/ Arrive(r) \/ Ignore(r) \/ Write(r) \/ WriteFails(r) \/ Written(r) \/ Restart(r)
  \/ \E i \in DOMAIN devices[r].arriving : Lose(r, i)

Next ==
  \/ DisplayConsole \/ Tick \/ \E v \in Venues : Venue(v)
  \/ \E t \in TokenIds : Pairing(t)
  \/ \E r \in Followed : Runtime(r)
Spec == Init /\ [][Next]_vars

\* The runtime polls for ever, its answers keep arriving sometimes and its storage works
\* sometimes, whatever else fails.  Nothing is assumed of the back office.
Fairness ==
  \A r \in Followed :
    WF_vars(Fetch(r)) /\ SF_vars(Arrive(r)) /\ WF_vars(Ignore(r)) /\ SF_vars(Write(r)) /\ SF_vars(Written(r))
FairSpec == Spec /\ Fairness

-----------------------------------------------------------------------------
(* Properties *)

TypeOK ==
  /\ venues \in [Venues -> [name : Names, address : Addresses]]
  /\ stations \in [Stations -> [venue : Venues, location : Addresses \cup {None}, at : Stamp]]
  /\ making \in [Stations -> Addresses \cup {None}]
  /\ displays \in [Stations -> [text : Texts \cup {None}, pack : Texts \cup {None}, at : Stamp]]
  /\ library \in [DOMAIN library -> [status : {"DRAFT", "PUBLISHED", "ARCHIVED"}, at : Stamp]]
  /\ tokens \in [DOMAIN tokens -> [station : Stations, usable : BOOLEAN]]
  /\ creds \in [DOMAIN creds -> [station : Stations, version : Nat, revoked : BOOLEAN]]
  /\ devices \in [Followed -> Device]
  /\ \A r \in Followed : devices[r].writing => devices[r].queue # <<>>
  /\ DOMAIN library \subseteq Media /\ DOMAIN tokens \subseteq TokenIds /\ DOMAIN creds \subseteq Runtimes
  /\ now \in Stamp

\* The rows keep their types, and a station never has two runtimes at work, whatever tokens are
\* open for it and however enrolment, rotation and revocation overlap (runtime/enroll).
OneRuntimePerStation == TypeOK /\ \A s \in Stations : Cardinality(LiveAt(s)) <= 1

\* The version covers every write: a screen that holds the version of its station holds the texts,
\* the translations and the Location of now, and a playlist the present library gave at some moment
\* since; so ignoring an answer that is not newer hides no write of the back office except the name
\* of a venue (displayConfigFor, applyRuntimeConfig).
Covers(s, settings) ==
  /\ settings.text = displays[s].text /\ settings.pack = displays[s].pack
  /\ settings.location = stations[s].location
  /\ \E t \in VersionOf(s) .. now : settings.playlist = PlaylistAt(s, t)
Holding(r) == devices[r].config # None /\ devices[r].config.version = VersionOf(creds[r].station)
VersionCoversWrites ==
  \A r \in DOMAIN creds \cap Followed : Holding(r) => Covers(creds[r].station, devices[r].config.settings)

\* The version covers all that is served (displayConfigFor: "the most recent change timestamp across
\* those inputs", among them the playlist "in its scheduling window").
VersionTellsSettings ==
  \A r \in DOMAIN creds \cap Followed :
    Holding(r) => devices[r].config.settings = SettingsOf(creds[r].station)

\* A move of a station or of its venue never leaves a Location of the former address on a card
\* reader (relocateStation, updateVenue): only the answer of Stripe to a request that had read the
\* address before the move can bring one.
LocatedRight(s) == stations[s].location \in {AddressOf(s), None}
OnlyLateLocations ==
  [][\A s \in Stations :
       LocatedRight(s) /\ ~LocatedRight(s)' =>
         making[s] \notin {AddressOf(s), None} /\ stations'[s].location = making[s]]_vars

\* A card reader never keeps a Location that names another address (updateVenue: not "un lecteur de
\* carte rattache en silence a l'ancienne").
LocationNamesItsAddress == \A s \in Stations : LocatedRight(s)

\* What a screen shows never gets older: not through answers out of order, a write that fails,
\* or a restart in the middle of one.
ScreenNeverGoesBack == [][\A r \in Followed : VersionShown(r)' >= VersionShown(r)]_vars

\* A runtime whose credential stays good ends up holding the last version, with everything the back
\* office has written, although answers are lost, writes fail and the screen restarts.
Current(r) == Holding(r) /\ Covers(creds[r].station, devices[r].config.settings)
ScreenCatchesUp == \A r \in Followed : <>[]Accepted(r) => <>[]Current(r)
=============================================================================
