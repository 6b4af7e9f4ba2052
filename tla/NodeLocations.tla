----------------------------- MODULE NodeLocations -----------------------------
(* Where nodes are: what the server finds out about the address a session   *)
(* came from, in a local database or from a service that may limit it, what *)
(* an administrator enters instead, and what the live state shows of both   *)
(* while sessions come and go, the database is renewed and the server is    *)
(* started again.                                                           *)
(* A text is its kind: absent, blank, fine, padded or bad (too long, or     *)
(* with control characters).  Coordinates are counted in half microdegrees. *)
(* A removed node is NodeSessions' matter.                                  *)
EXTENDS Integers, FiniteSets

CONSTANTS
  Site,               \* enrolled nodes
  Connection,         \* handlers of agents' sockets
  Saver,              \* handlers of administrators' requests
  Refresher,          \* spawn_geoip_database_preparer
  Address,            \* addresses agents come from
  Lan,                \* an address of a local network
  Admin,              \* what an administrator enters, instead of an address
  NoPlace,            \* no location
  Refused,            \* a location that is not taken
  NoDatabase,         \* no database, or one that cannot be opened
  Edge,               \* the largest latitude and longitude
  WhoisEntries,       \* IPWHOIS_CACHE_MAX_ENTRIES
  WhoisTtl,           \* IPWHOIS_CACHE_TTL_SECS, in days of the model
  RetryAfter,         \* what the service asks to wait, at most
  FreshDays,          \* geoip.update_interval_days
  LastDay,            \* bound: days
  MaxConnects,        \* bound: handshakes
  MaxEntered,         \* bound: overrides saved
  MaxReboots          \* bound: restarts of the server

ASSUME LocationsAssumption ==
  /\ Lan \in Address /\ Admin \notin Address /\ Refresher \notin Connection
  /\ Edge \in Nat \ {0, 1} /\ Edge % 2 = 0 /\ WhoisEntries \in Nat \ {0}
  /\ WhoisTtl \in Nat /\ RetryAfter \in Nat /\ FreshDays \in Nat
  /\ LastDay \in Nat /\ MaxConnects \in Nat /\ MaxEntered \in Nat /\ MaxReboots \in Nat

VARIABLES
  day,                \* the time
  provider,           \* the provider configured and its edition; custom is also a database not updated by itself
  database,           \* the database file and the day it was written
  reader,             \* the database loaded
  whois,              \* the service's client: its cache, and until when not to ask
  looks,              \* lookups under way
  override,           \* the overrides of the registry
  live,               \* the entries of the live state
  snapshot,           \* the snapshot file
  conn,               \* handshakes and sessions
  saving,             \* overrides saved and not yet shown
  refresh,            \* the daily task
  crossed,            \* nodes whose override was saved across another save or a handshake
  spent               \* how often bounded things happened

locationVars ==
  <<day, provider, database, reader, whois, looks, override, live, snapshot, conn, saving, refresh, crossed, spent>>

----------------------------------------------------------------------------
(* Locations.                                                               *)

NoText == "absent"
Nowhere == Edge + 2

\* A text without what surrounds it.
SanitizeText(text) ==
  CASE text \in {NoText, "blank"} -> NoText [] text \in {"fine", "padded"} -> "fine" [] OTHER -> "bad"

\* Both coordinates, in range, or neither.
InRange(v) == -Edge <= v /\ v <= Edge
ValidCoordinates(lat, lon) == (lat = Nowhere /\ lon = Nowhere) \/ (InRange(lat) /\ InRange(lon))

\* What was entered as a location, none if it is empty, or refused.
SanitizeLocation(of, country, city, lat, lon) ==
  LET c == SanitizeText(country)
      t == SanitizeText(city)
  IN  IF "bad" \in {c, t} THEN Refused
      ELSE IF c = NoText /\ t = NoText /\ lat = Nowhere /\ lon = Nowhere THEN NoPlace
      ELSE IF c = NoText \/ ~ValidCoordinates(lat, lon) THEN Refused
      ELSE [of |-> of, country |-> c, city |-> t, lat |-> lat, lon |-> lon]

\* A location read from a file must be one that was sanitized.
ValidLocation(place) ==
  place = NoPlace \/ SanitizeLocation(place.of, place.country, place.city, place.lat, place.lon) = place

\* A coordinate to microdegrees, half a one away from zero, and back.
ToMicrodegrees(v) == IF v = Nowhere THEN Nowhere ELSE IF v >= 0 THEN (v + 1) \div 2 ELSE -((1 - v) \div 2)
ToCoordinate(v) == IF v = Nowhere THEN Nowhere ELSE 2 * v

\* A location as the registry keeps it, and as it gives it back.
Stored(place) ==
  IF place = NoPlace THEN NoPlace
  ELSE [place EXCEPT !.lat = ToMicrodegrees(@), !.lon = ToMicrodegrees(@)]
ReadBack(kept) ==
  IF kept = NoPlace THEN NoPlace
  ELSE [kept EXCEPT !.lat = ToCoordinate(@), !.lon = ToCoordinate(@)]

\* What administrators may enter: the locations among it that are taken.
Texts == {NoText, "blank", "fine", "padded", "bad"}
Entered ==
  {SanitizeLocation(Admin, country, "blank", lat, lon) :
     country \in Texts, lat, lon \in {Nowhere, Edge - 1, Edge + 1}}

----------------------------------------------------------------------------
(* Lookups.                                                                 *)

LanPlace == [of |-> Lan, country |-> "fine", city |-> NoText, lat |-> Nowhere, lon |-> Nowhere]

Taken(place) == IF place = Refused THEN NoPlace ELSE place

\* A record of the database: its country if it has one; in a city edition its city and coordinates.
CountryPlaces(ip) == {Taken(SanitizeLocation(ip, iso, NoText, Nowhere, Nowhere)) : iso \in {NoText, "fine"}}
CityPlaces(ip) ==
  {Taken(SanitizeLocation(ip, "fine", city, lat, lon)) : city \in {NoText, "fine"}, lat, lon \in {Nowhere, 0}}

\* An answer of the service: coordinates out of range are dropped; the country's code or else its name, and
\* the city or else the region, make one text each.
AnswerPlaces(ip) ==
  LET coordinates == {<<lat, lon>> \in {Nowhere, 0, Edge + 1} \X {Nowhere, 0} : TRUE}
      kept(c) == IF InRange(c[1]) /\ InRange(c[2]) THEN c ELSE <<Nowhere, Nowhere>>
  IN  {Taken(SanitizeLocation(ip, country, "fine", kept(c)[1], kept(c)[2])) :
         country \in {NoText, "padded", "bad"}, c \in coordinates}

Local == provider \in {"country", "city", "custom"}
Cached(ip) == ip \in DOMAIN whois.cache /\ whois.cache[ip].until > day
RateLimited == whois.retry > day

Found(x, place) == looks' = [looks EXCEPT ![x].stage = "found", ![x].place = place]

\* The lookup of an address, up to a request to the service.
Lookup(x) ==
  /\ looks[x].stage = "lookup"
  /\ LET ip == looks[x].ip IN
       \/ provider = "off" /\ Found(x, NoPlace) /\ UNCHANGED whois
       \/ provider # "off" /\ ip = Lan /\ Found(x, LanPlace) /\ UNCHANGED whois
       \/ /\ Local /\ ip # Lan
          /\ \E place \in IF reader = NoDatabase THEN {NoPlace}
                          ELSE IF provider = "country" THEN CountryPlaces(ip) ELSE CityPlaces(ip) : Found(x, place)
          /\ UNCHANGED whois
       \/ provider = "whois" /\ ip # Lan /\ Cached(ip) /\ Found(x, whois.cache[ip].place) /\ UNCHANGED whois
       \/ provider = "whois" /\ ip # Lan /\ ~Cached(ip) /\ RateLimited /\ Found(x, NoPlace) /\ UNCHANGED whois
       \/ /\ provider = "whois" /\ ip # Lan /\ ~Cached(ip) /\ ~RateLimited
          /\ looks' = [looks EXCEPT ![x].stage = "asked"]
          /\ whois' = [whois EXCEPT !.retry = 0]
  /\ UNCHANGED <<day, provider, database, reader, override, live, snapshot, conn, saving, refresh, crossed, spent>>

\* Room for one more in a full cache: what has expired goes first, then anything.
PruneCache(ip) ==
  LET fresh == {a \in DOMAIN whois.cache : whois.cache[a].until > day}
  IN  IF ip \in DOMAIN whois.cache \/ Cardinality(DOMAIN whois.cache) < WhoisEntries
      THEN {DOMAIN whois.cache}
      ELSE {kept \in SUBSET fresh :
              /\ Cardinality(kept) < WhoisEntries
              /\ Cardinality(fresh) < WhoisEntries => kept = fresh
              /\ Cardinality(fresh) >= WhoisEntries => Cardinality(kept) = WhoisEntries - 1}

\* The service answers with a location, which is cached; or it does not, or asks to wait.
WhoisAnswers(x) ==
  /\ looks[x].stage = "asked"
  /\ LET ip == looks[x].ip IN
       \/ \E place \in AnswerPlaces(ip) \ {NoPlace}, kept \in PruneCache(ip) :
            /\ whois' = [whois EXCEPT !.cache = [a \in kept \cup {ip} |->
                 IF a = ip THEN [place |-> place, until |-> day + WhoisTtl] ELSE @[a]]]
            /\ Found(x, place)
       \/ Found(x, NoPlace) /\ UNCHANGED whois
       \/ \E wait \in 0..RetryAfter : whois' = [whois EXCEPT !.retry = day + wait] /\ Found(x, NoPlace)
  /\ UNCHANGED <<day, provider, database, reader, override, live, snapshot, conn, saving, refresh, crossed, spent>>

----------------------------------------------------------------------------
(* Sessions.                                                                *)

NotLooking == [stage |-> "none", ip |-> Lan, place |-> NoPlace]
NoConnection == [stage |-> "none"]
Unseen == [ip |-> NoPlace]
Pending == {n \in Site : \E s \in Saver : saving[s].stage = "saved" /\ saving[s].node = n}

\* An agent is authorized: the override is the registry's of that moment.
Authorizes(c, n, ip) ==
  /\ conn[c].stage = "none" /\ spent.connects < MaxConnects
  /\ spent' = [spent EXCEPT !.connects = @ + 1]
  /\ conn' = [conn EXCEPT ![c] = [stage |-> "shaking", node |-> n, ip |-> ip, over |-> ReadBack(override[n])]]
  /\ looks' = [looks EXCEPT ![c] = [NotLooking EXCEPT !.stage = "lookup", !.ip = ip]]
  /\ UNCHANGED <<day, provider, database, reader, whois, override, live, snapshot, saving, refresh, crossed>>

\* Its address looked up, the node is registered: whatever an entry showed before is replaced.
RegisterNode(c) ==
  /\ conn[c].stage = "shaking" /\ looks[c].stage = "found"
  /\ live' = [live EXCEPT ![conn[c].node] =
        [ip |-> conn[c].ip, geo |-> looks[c].place, over |-> conn[c].over, session |-> c]]
  /\ conn' = [conn EXCEPT ![c].stage = "on"]
  /\ looks' = [looks EXCEPT ![c] = NotLooking]
  /\ UNCHANGED <<day, provider, database, reader, whois, override, snapshot, saving, refresh, crossed, spent>>

\* The session ends: an entry that is still its own goes offline.
MarkDisconnected(c) ==
  /\ conn[c].stage = "on"
  /\ conn' = [conn EXCEPT ![c] = NoConnection]
  /\ live' = [n \in Site |-> IF live[n] # Unseen /\ live[n].session = c
                             THEN [live[n] EXCEPT !.session = NoPlace] ELSE live[n]]
  /\ UNCHANGED <<day, provider, database, reader, whois, looks, override, snapshot, saving, refresh, crossed, spent>>

----------------------------------------------------------------------------
(* The override of an administrator.                                        *)

Shaking(n) == \E c \in Connection : conn[c].stage = "shaking" /\ conn[c].node = n

\* The registry has it.
SaveOverride(s, n, place) ==
  /\ saving[s].stage = "none" /\ spent.entered < MaxEntered
  /\ spent' = [spent EXCEPT !.entered = @ + 1]
  /\ place # Refused
  /\ override' = [override EXCEPT ![n] = Stored(place)]
  /\ saving' = [saving EXCEPT ![s] = [stage |-> "saved", node |-> n, over |-> ReadBack(Stored(place))]]
  /\ crossed' = crossed \cup (IF n \in Pending \/ Shaking(n) THEN {n} ELSE {})
  /\ UNCHANGED <<day, provider, database, reader, whois, looks, live, snapshot, conn, refresh>>

\* Then the live state shows it, if it has the node.
ShowOverride(s) ==
  /\ saving[s].stage = "saved"
  /\ saving' = [saving EXCEPT ![s] = [stage |-> "none"]]
  /\ LET n == saving[s].node IN
       live' = IF live[n] = Unseen THEN live ELSE [live EXCEPT ![n].over = saving[s].over]
  /\ UNCHANGED <<day, provider, database, reader, whois, looks, override, snapshot, conn, refresh, crossed, spent>>

----------------------------------------------------------------------------
(* The daily task.                                                          *)

NotRefreshing == [stage |-> "idle", day |-> -1, left |-> {}, updates |-> {}]

\* The nodes that are online, with the address their session came from.
RefreshCandidates == {<<n, live[n].ip>> : n \in {m \in Site : live[m] # Unseen /\ live[m].session # NoPlace}}

\* A database that is young and of the edition asked for is not downloaded again.
SkipsDownload ==
  provider = "custom" \/ (database.kind = provider /\ day - database.written < FreshDays)

\* What is in the file, loaded; a file that cannot be opened leaves what was loaded before.
Readable(file) == file.kind # "unreadable"
Reloaded(file) == IF Readable(file) THEN file.kind ELSE reader

PrepareDatabase ==
  /\ refresh.stage = "idle" /\ refresh.day # day
  /\ \E file \in IF provider = "off" \/ provider = "whois" \/ SkipsDownload THEN {database}
                 ELSE {database} \cup {[kind |-> k, written |-> day] : k \in {provider, "unreadable"}} :
       LET failed == Local /\ ~SkipsDownload /\ file = database
           prepared == provider = "whois" \/ (Local /\ ~failed /\ Readable(file))
       IN  /\ database' = file
           /\ reader' = IF Local /\ ~failed THEN Reloaded(file) ELSE reader
           /\ refresh' = IF prepared THEN [NotRefreshing EXCEPT !.stage = "next", !.day = day, !.left = RefreshCandidates]
                         ELSE [NotRefreshing EXCEPT !.day = day]
  /\ UNCHANGED <<day, provider, whois, looks, override, live, snapshot, conn, saving, crossed, spent>>

\* One candidate after the other is looked up.
RefreshNext(n, ip) ==
  /\ refresh.stage = "next" /\ <<n, ip>> \in refresh.left
  /\ refresh' = [refresh EXCEPT !.stage = "looking", !.left = @ \ {<<n, ip>>}, !.updates = @ \cup {<<n, ip, NoPlace>>}]
  /\ looks' = [looks EXCEPT ![Refresher] = [NotLooking EXCEPT !.stage = "lookup", !.ip = ip]]
  /\ UNCHANGED <<day, provider, database, reader, whois, override, live, snapshot, conn, saving, crossed, spent>>

RefreshFound ==
  /\ refresh.stage = "looking" /\ looks[Refresher].stage = "found"
  /\ refresh' = [refresh EXCEPT !.stage = "next",
       !.updates = {u \in @ : u[3] # NoPlace} \cup
                   {<<u[1], u[2], looks[Refresher].place>> : u \in {v \in @ : v[3] = NoPlace /\ looks[Refresher].place # NoPlace}}]
  /\ looks' = [looks EXCEPT ![Refresher] = NotLooking]
  /\ UNCHANGED <<day, provider, database, reader, whois, override, live, snapshot, conn, saving, crossed, spent>>

\* What was found for an address is for an entry that is still at that address.
UpdatesAnyway(n, ip) == live[n] # Unseen
UpdatesGeoip(n, ip) == live[n] # Unseen /\ live[n].ip = ip

\* All that was found goes to the live state.
RefreshLocations ==
  /\ refresh.stage = "next" /\ refresh.left = {}
  /\ live' = [n \in Site |->
       LET found == {u \in refresh.updates : u[1] = n}
       IN  IF \E u \in found : UpdatesGeoip(n, u[2])
           THEN [live[n] EXCEPT !.geo = (CHOOSE u \in found : TRUE)[3]] ELSE live[n]]
  /\ refresh' = [NotRefreshing EXCEPT !.day = refresh.day]
  /\ UNCHANGED <<day, provider, database, reader, whois, looks, override, snapshot, conn, saving, crossed, spent>>

----------------------------------------------------------------------------
(* Snapshot and restart.                                                    *)

PersistSnapshot ==
  /\ snapshot # live
  /\ snapshot' = live
  /\ UNCHANGED <<day, provider, database, reader, whois, looks, override, live, conn, saving, refresh, crossed, spent>>

\* A snapshot with a location that is not valid is not restored at all.
LoadSnapshot ==
  IF \A n \in Site : snapshot[n] # Unseen => ValidLocation(snapshot[n].geo) /\ ValidLocation(snapshot[n].over)
  THEN snapshot ELSE [n \in Site |-> Unseen]

\* The server starts again: the snapshot, offline, with the registry's overrides; an empty cache.
Restart ==
  /\ spent.reboots < MaxReboots
  /\ spent' = [spent EXCEPT !.reboots = @ + 1]
  /\ live' = [n \in Site |->
       IF LoadSnapshot[n] = Unseen THEN Unseen
       ELSE [LoadSnapshot[n] EXCEPT !.session = NoPlace, !.over = ReadBack(override[n])]]
  /\ reader' = IF Local /\ Readable(database) THEN database.kind ELSE NoDatabase
  /\ whois' = [cache |-> <<>>, retry |-> 0]
  /\ looks' = [x \in Connection \cup {Refresher} |-> NotLooking]
  /\ conn' = [c \in Connection |-> NoConnection]
  /\ saving' = [s \in Saver |-> [stage |-> "none"]]
  /\ refresh' = NotRefreshing /\ crossed' = {}
  /\ UNCHANGED <<day, provider, database, override, snapshot>>

DayPasses ==
  /\ day < LastDay
  /\ day' = day + 1
  /\ UNCHANGED <<provider, database, reader, whois, looks, override, live, snapshot, conn, saving, refresh, crossed, spent>>

LocationsInit ==
  /\ day = 0 /\ provider \in {"off", "country", "city", "custom", "whois"}
  /\ database \in {[kind |-> k, written |-> 0] : k \in {"country", "city", "unreadable"}}
  /\ reader = IF Local /\ Readable(database) THEN database.kind ELSE NoDatabase
  /\ whois = [cache |-> <<>>, retry |-> 0]
  /\ looks = [x \in Connection \cup {Refresher} |-> NotLooking]
  /\ override = [n \in Site |-> NoPlace] /\ live = [n \in Site |-> Unseen] /\ snapshot = live
  /\ conn = [c \in Connection |-> NoConnection] /\ saving = [s \in Saver |-> [stage |-> "none"]]
  /\ refresh = NotRefreshing /\ crossed = {}
  /\ spent = [connects |-> 0, entered |-> 0, reboots |-> 0]

LocationsNext ==
  \/ \E x \in Connection \cup {Refresher} : Lookup(x) \/ WhoisAnswers(x)
  \/ \E c \in Connection : RegisterNode(c) \/ MarkDisconnected(c)
  \/ \E c \in Connection, n \in Site, ip \in Address : Authorizes(c, n, ip)
  \/ \E s \in Saver, n \in Site, place \in Entered : SaveOverride(s, n, place)
  \/ \E s \in Saver : ShowOverride(s)
  \/ \E n \in Site, ip \in Address : RefreshNext(n, ip)
  \/ PrepareDatabase \/ RefreshFound \/ RefreshLocations \/ PersistSnapshot \/ Restart \/ DayPasses

LocationsSpec == LocationsInit /\ [][LocationsNext]_locationVars

----------------------------------------------------------------------------
(* Properties.                                                              *)

\* Every variable has a value of its type.
LocationsTypeOK ==
  /\ day \in 0..LastDay /\ crossed \subseteq Site
  /\ \A x \in DOMAIN looks : looks[x].stage \in {"none", "lookup", "asked", "found"} /\ looks[x].ip \in Address
  /\ \A n \in Site : live[n] # Unseen => live[n].ip \in Address /\ live[n].session \in Connection \cup {NoPlace}
  /\ \A c \in Connection : conn[c].stage \in {"none", "shaking", "on"}
  /\ refresh.stage \in {"idle", "next", "looking"} /\ refresh.day \in -1..day

\* What an entry shows of its address is about the address its latest session came from.
GeoipIsOfTheAddress == \A n \in Site : live[n] # Unseen /\ live[n].geo # NoPlace => live[n].geo.of = live[n].ip

\* What it shows of an administrator is what the registry has, once handlers are through that did not cross.
OverrideIsTheSaved ==
  \A n \in Site \ (crossed \cup Pending) : live[n] # Unseen => live[n].over = ReadBack(override[n])

\* Locations stay right across lookups that take their time, the daily refresh, reconnects and restarts: each is
\* about the entry's own address, the override is the registry's, the server accepts the snapshot it would write
\* now, and the service is neither asked about local addresses nor remembered beyond the cache's limit
\* (update_geoip, register_session, update_location_override, validate_snapshot_location, cache_location).
LocationsHold ==
  /\ GeoipIsOfTheAddress /\ OverrideIsTheSaved
  /\ \A n \in Site : live[n] # Unseen => ValidLocation(live[n].geo) /\ ValidLocation(live[n].over)
  /\ Cardinality(DOMAIN whois.cache) <= WhoisEntries
  /\ \A ip \in DOMAIN whois.cache : ip # Lan /\ whois.cache[ip].place.of = ip
  /\ \A x \in DOMAIN looks : looks[x].stage = "asked" => looks[x].ip # Lan
================================================================================
