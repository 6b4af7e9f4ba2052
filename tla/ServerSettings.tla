--------------------------- MODULE ServerSettings ---------------------------
(***************************************************************************)
(* The server's configuration: server.toml, which the operator edits and   *)
(* the settings pages change (handlers/settings), and the settings in      *)
(* force, which are loaded from it once, at startup (nodelite-proto:       *)
(* config/; startup.rs).  A change of the settings reads the file afresh,  *)
(* replaces its own section, validates the whole, renames the result into  *)
(* place and only then swaps the settings in force; AdminAccess says who   *)
(* may ask for one and what becomes of sessions.                           *)
(*                                                                         *)
(* A text is its meaning and whether white space surrounds it: loading a   *)
(* file trims, a request is taken as it is.  A number is on either side of *)
(* its bounds or between them.                                             *)
(***************************************************************************)
EXTENDS Integers, Sequences, FiniteSets, SequencesExt

CONSTANTS
  MaxWindow,    \* MAX_ALERT_WINDOW_MINUTES, in units
  MaxRules,     \* the 64 rules an alerts section may have
  Probe,        \* bound: numbers the operator gets wrong
  MaxManual,    \* bound: edits of the operator
  MaxRequests,  \* bound: changes asked for
  MaxMishaps    \* bound: writes that fail, and crashes

ASSUME SettingsAssumption ==
  /\ MaxWindow \in Nat \ {0} /\ MaxRules \in Nat \ {0}
  /\ {MaxManual, MaxRequests, MaxMishaps} \subseteq Nat

VARIABLES
  toml,      \* server.toml: the raw sections
  running,   \* "down", "up", or "refused": a start that has failed
  inForce,   \* readonly_auth, alerting, and the other settings as loaded
  update,    \* the settings transaction that holds settings_write_lock
  edited,    \* the sections the operator has edited since the file was loaded
  allowance  \* what is left of the bounds

settingsVars == <<toml, running, inForce, update, edited, allowance>>

-----------------------------------------------------------------------------
(* Passwords.  "nearly" is strong but for the character that white space    *)
(* around it adds: its length counts and it is a special character.         *)

NoPassword == [word |-> "none", padded |-> FALSE]
Password == [word : {"strong", "other", "nearly", "weak"}, padded : BOOLEAN]
Trim(p) == [p EXCEPT !.padded = FALSE]

\* validate_password_strength.
Strong(p) == p.word \in {"strong", "other"} \/ (p.word = "nearly" /\ p.padded)

-----------------------------------------------------------------------------
(* The [auth] section and its cross-checks with the rest. *)

AuthSection == [user : BOOLEAN, password : Password \cup {NoPassword},
                twofa : BOOLEAN, totp : BOOLEAN]

TwoFactorFits(auth, other) ==
  auth.twofa => auth.user /\ auth.totp /\ other.url = "https"

LoadedAuth(auth) == [auth EXCEPT !.password = Trim(@)]

LoginIsWhole(auth) == auth.user <=> auth.password # NoPassword

AcceptsAuth(auth, other) ==
  /\ TwoFactorFits(auth, other)
  /\ LoginIsWhole(auth)
  /\ ~auth.user => other.listen = "loopback"

-----------------------------------------------------------------------------
(* The [alerts] section. *)

Channels == {"smtp", "webhook"}

\* "blank": switched on without what it needs (a host and a recipient, a URL).
Filling == {"off", "filled", "padded", "blank"}

RuleOf(id, padded, window, scope) ==
  [id |-> id, padded |-> padded, window |-> window, scope |-> scope]

Plain(rule) == [rule EXCEPT !.padded = FALSE]

\* scope_mode = node_ids or tags needs a node or a tag.
AcceptsRule(rule) == rule.window > 0 /\ rule.scope # "nobody"

AcceptsRules(rules) == Len(rules) <= MaxRules /\ \A i \in DOMAIN rules : AcceptsRule(rules[i])
AcceptsSmtp(a) == a.channel["smtp"] # "blank"
AcceptsWebhook(a) == a.channel["webhook"] # "blank"
AcceptsInspection(a) == a.lookback > 0

AcceptsAlerts(a) ==
  AcceptsSmtp(a) /\ AcceptsWebhook(a) /\ AcceptsRules(a.rules) /\ AcceptsInspection(a)

Validated(a) ==
  [a EXCEPT !.channel = [c \in Channels |-> IF @[c] = "padded" THEN "filled" ELSE @[c]],
            !.rules = [i \in DOMAIN @ |-> Plain(@[i])]]

Clamp(n) == IF n > MaxWindow THEN MaxWindow ELSE n
ClampedRule(rule) == [rule EXCEPT !.window = Clamp(@)]
Clamped(a) ==
  [a EXCEPT !.rules = [i \in DOMAIN @ |-> ClampedRule(@[i])], !.lookback = Clamp(@)]

AnyLimits(a) == TRUE

\* Ids are unique, and nothing had to be clamped (check_alerting_limits).
WithinLimits(a) ==
  /\ Clamped(a) = a
  /\ \A i, j \in DOMAIN a.rules :
       i # j => <<a.rules[i].id, a.rules[i].padded>> # <<a.rules[j].id, a.rules[j].padded>>

LoadedAlerts(a) == Clamped(Validated(a))

-----------------------------------------------------------------------------
(* Everything else, which only the operator edits. *)

NoMax == 1000000

\* The bounds of the numbers, and a value between them.
Bounds ==
  [stale_after_secs |-> <<5, 20, NoMax>>,            ping_interval_secs |-> <<1, 10, NoMax>>,
   max_message_bytes |-> <<65536, 65536, NoMax>>,    token_verify_max_parallelism |-> <<1, 4, 8>>,
   history_query_concurrency |-> <<1, 4, 8>>,        history_read_cache_kib |-> <<64, 512, 1024>>,
   history_writer_batch_max |-> <<1, 128, 4096>>,    history_writer_flush_interval_ms |-> <<10, 100, NoMax>>,
   hello_timeout_secs |-> <<1, 10, NoMax>>,          insecure_transport_warn_interval_secs |-> <<1, 900, NoMax>>,
   max_sanitized_disks |-> <<1, 64, 1024>>,          max_sanitized_string_bytes |-> <<256, 256, 4096>>,
   metric_anomaly_session_limit |-> <<1, 5, 1000>>,  max_total_connections |-> <<1, 1024, NoMax>>,
   max_connections_per_ip |-> <<1, 32, NoMax>>,      auth_fail_window_secs |-> <<1, 300, NoMax>>,
   auth_fail_max_attempts |-> <<1, 12, NoMax>>,      auth_block_secs |-> <<1, 900, NoMax>>,
   refresh_interval_secs |-> <<1, 5, NoMax>>,        audit_retention_days |-> <<1, 90, NoMax>>,
   audit_max_rows |-> <<1000, 500000, NoMax>>,       audit_writer_batch_max |-> <<1, 128, 4096>>,
   audit_writer_flush_interval_ms |-> <<10, 100, NoMax>>, geoip_update_interval_days |-> <<1, 30, NoMax>>,
   agent_logs_max_entries |-> <<128, 10000, 100000>>, agent_logs_max_kib |-> <<64, 8192, 65536>>]

Field == DOMAIN Bounds
\* A key that the file leaves out has its default.
Defaults == <<>>
Setting(n, f) == IF f \in DOMAIN n THEN n[f] ELSE Bounds[f][2]

Within(n, f) ==
  Bounds[f][1] <= Setting(n, f) /\ (Bounds[f][3] # NoMax => Setting(n, f) <= Bounds[f][3])
AllWithin(n, fields) == \A f \in fields : Within(n, f)

AcceptsServer(n) ==
  AllWithin(n, {"stale_after_secs", "ping_interval_secs", "max_message_bytes",
                "token_verify_max_parallelism", "history_query_concurrency",
                "history_read_cache_kib", "history_writer_batch_max",
                "history_writer_flush_interval_ms"})
AcceptsTimers(n) == AllWithin(n, {"hello_timeout_secs", "insecure_transport_warn_interval_secs"})
AcceptsSanitizing(n) ==
  AllWithin(n, {"max_sanitized_disks", "max_sanitized_string_bytes", "metric_anomaly_session_limit"})
AcceptsWs(n) ==
  /\ AllWithin(n, {"max_total_connections", "max_connections_per_ip", "auth_fail_window_secs",
                   "auth_fail_max_attempts", "auth_block_secs"})
  /\ Setting(n, "max_connections_per_ip") <= Setting(n, "max_total_connections")
AcceptsUi(n) == Within(n, "refresh_interval_secs")
AcceptsAudit(n) ==
  AllWithin(n, {"audit_retention_days", "audit_max_rows", "audit_writer_batch_max",
                "audit_writer_flush_interval_ms"})
AcceptsAgentLogs(n) == AllWithin(n, {"agent_logs_max_entries", "agent_logs_max_kib"})

\* A mirror of the releases: its scheme, and whether both digests are given.
AcceptsInstall(o) ==
  /\ o.mirror = "remote" => o.insecure
  /\ o.mirror # "none" => o.digests

\* A panel below a path is not supported; a /0 would trust every peer.
AcceptsUrl(o) == o.url # "path" /\ (o.url = "remote" => o.insecure)
AcceptsProxies(o) == ~o.anyproxy
AcceptsGeoIp(o) ==
  Within(o.numbers, "geoip_update_interval_days") /\ (o.geoip # "dbip" => ~o.autoupdate)

AcceptsOther(o) ==
  /\ AcceptsUrl(o) /\ AcceptsProxies(o) /\ AcceptsInstall(o) /\ AcceptsGeoIp(o)
  /\ LET n == o.numbers
     IN AcceptsServer(n) /\ AcceptsTimers(n) /\ AcceptsSanitizing(n) /\ AcceptsWs(n)
        /\ AcceptsUi(n) /\ AcceptsAudit(n) /\ AcceptsAgentLogs(n)

-----------------------------------------------------------------------------
(* Loading the file. *)

\* parse_server_config.
Parses(t) == AcceptsOther(t.other) /\ AcceptsAuth(t.auth, t.other) /\ AcceptsAlerts(t.alerts)

Loaded(t) == [auth |-> LoadedAuth(t.auth), alerts |-> LoadedAlerts(t.alerts), other |-> t.other]

\* run_server looks at the password once more.
Starts(t) == Parses(t) /\ (t.auth.user => Strong(LoadedAuth(t.auth).password))

-----------------------------------------------------------------------------
(* What the operator may write, and what a page may ask for: a good value   *)
(* and the ones that differ from it in one respect.                         *)

GoodOther == [listen |-> "public", url |-> "https", insecure |-> FALSE, anyproxy |-> FALSE,
              mirror |-> "none", digests |-> FALSE, geoip |-> "dbip", autoupdate |-> TRUE,
              numbers |-> Defaults]
Differing ==
  {[GoodOther EXCEPT !.listen = "loopback"], [GoodOther EXCEPT !.anyproxy = TRUE],
   [GoodOther EXCEPT !.url = "path"], [GoodOther EXCEPT !.url = "remote"],
   [GoodOther EXCEPT !.url = "remote", !.insecure = TRUE],
   [GoodOther EXCEPT !.mirror = "remote", !.digests = TRUE],
   [GoodOther EXCEPT !.mirror = "https"], [GoodOther EXCEPT !.geoip = "maxmind"]}
Broken(f) == {Bounds[f][1] - 1} \cup (IF Bounds[f][3] = NoMax THEN {} ELSE {Bounds[f][3] + 1})
OutOfRange ==
  (UNION {{[GoodOther EXCEPT !.numbers = [g \in {f} |-> n]] : n \in Broken(f)} : f \in Probe})
    \cup {[GoodOther EXCEPT !.numbers = [max_total_connections |-> 31]]}
OtherChoices == {GoodOther} \cup Differing \cup OutOfRange

GoodAuth == [user |-> TRUE, password |-> [word |-> "strong", padded |-> FALSE],
             twofa |-> FALSE, totp |-> FALSE]
AuthChoices ==
  {[GoodAuth EXCEPT !.password = p] : p \in Password}
    \cup {[GoodAuth EXCEPT !.twofa = TRUE, !.totp = t] : t \in BOOLEAN}
    \cup {[GoodAuth EXCEPT !.user = FALSE, !.password = NoPassword]}

Given(c) == [smtp |-> "off", webhook |-> c]
ByMail(c) == [smtp |-> c, webhook |-> "off"]
GoodRule == RuleOf("a", FALSE, 1, "all")
GoodAlerts == [channel |-> Given("filled"), secret |-> "old", rules |-> <<GoodRule>>, lookback |-> 1]
RuleChoices ==
  {<<>>} \cup {<<[GoodRule EXCEPT !.window = w]>> : w \in {0, MaxWindow, MaxWindow + 1}}
    \cup {<<[GoodRule EXCEPT !.scope = "nobody"]>>}
    \cup {<<GoodRule, [GoodRule EXCEPT !.padded = p]>> : p \in BOOLEAN}
    \cup {[i \in 1 .. MaxRules + 1 |-> RuleOf(<<"r", i>>, FALSE, 1, "all")]}
AlertChoices ==
  {[GoodAlerts EXCEPT !.rules = rs] : rs \in RuleChoices}
    \cup {[GoodAlerts EXCEPT !.channel = Given(f)] : f \in Filling}
    \cup {[GoodAlerts EXCEPT !.channel = ByMail(f)] : f \in Filling}
    \cup {[GoodAlerts EXCEPT !.lookback = n] : n \in {0, MaxWindow + 1}}
    \cup {[GoodAlerts EXCEPT !.secret = "none"]}

SectionChoices == [auth |-> AuthChoices, alerts |-> AlertChoices, other |-> OtherChoices]
GoodToml == [auth |-> GoodAuth, alerts |-> GoodAlerts, other |-> GoodOther]

NoUpdate == [kind |-> "none"]

-----------------------------------------------------------------------------
SettingsInit ==
  /\ toml = GoodToml /\ running = "down" /\ inForce = Loaded(GoodToml)
  /\ update = NoUpdate /\ edited = {}
  /\ allowance = [manual |-> MaxManual, requests |-> MaxRequests, mishaps |-> MaxMishaps]

Spends(what) == allowance[what] > 0 /\ allowance' = [allowance EXCEPT ![what] = @ - 1]

(* A request: what it asks for, checked against the settings in force.      *)
Asks(kind, next) ==
  /\ running = "up" /\ update = NoUpdate /\ inForce.auth.user
  /\ Spends("requests")
  /\ update' = [kind |-> kind, next |-> next, at |-> "asked", content |-> GoodToml]
  /\ UNCHANGED <<toml, running, inForce, edited>>

ChangePassword(p) == Strong(p) /\ Asks("password", [inForce.auth EXCEPT !.password = p])

EnableTwoFactor == Asks("twofa", [inForce.auth EXCEPT !.twofa = TRUE, !.totp = TRUE])
DisableTwoFactor == inForce.auth.twofa /\ Asks("twofa", [inForce.auth EXCEPT !.twofa = FALSE, !.totp = FALSE])

\* A page that does not know the secret keeps it.
Merged(a) ==
  [a EXCEPT !.secret = CASE @ = "clear" -> "none" [] @ = "keep" -> inForce.alerts.secret [] OTHER -> @]

UpdateAlerts(a) == WithinLimits(Merged(a)) /\ Asks("alerts", Merged(a))

\* A page is shown the settings without the secrets, and sends them back changed.
Shown(a) == [a EXCEPT !.secret = "keep"]
AlertRequests ==
  {Shown(a) : a \in AlertChoices}
    \cup {[GoodAlerts EXCEPT !.secret = s] : s \in {"new", "clear"}}

\* The section that is replaced, or the keys of it.
WithSection(t, u) ==
  CASE u.kind = "password" -> [t EXCEPT !.auth.password = u.next.password]
    [] u.kind = "twofa"    -> [t EXCEPT !.auth.twofa = u.next.twofa, !.auth.totp = u.next.totp]
    [] u.kind = "alerts"   -> [t EXCEPT !.alerts = u.next]

\* The file is read and the change made in a copy of it.
Edits ==
  LET content == WithSection(toml, update)
  IN /\ update.kind # "none" /\ update.at = "asked"
     /\ Parses(content)
     /\ update' = [update EXCEPT !.at = "written", !.content = content]
     /\ UNCHANGED <<toml, running, inForce, edited, allowance>>

\* No [auth] section, or what results is not valid: the request is refused.
Refused ==
  /\ update.kind # "none" /\ update.at = "asked"
  /\ ~Parses(WithSection(toml, update))
  /\ update' = NoUpdate /\ UNCHANGED <<toml, running, inForce, edited, allowance>>

WriteFailed ==
  /\ update.kind # "none" /\ update.at \in {"asked", "written"} /\ Spends("mishaps")
  /\ update' = NoUpdate /\ UNCHANGED <<toml, running, inForce, edited>>

Renamed ==
  /\ update.kind # "none" /\ update.at = "written"
  /\ toml' = update.content
  /\ edited' = IF update.kind = "alerts" THEN edited \ {"alerts"} ELSE edited
  /\ update' = [update EXCEPT !.at = "renamed"]
  /\ UNCHANGED <<running, inForce, allowance>>

SwapsEarly == {"asked", "written", "renamed"}
MaySwap == {"renamed"}
Swapped ==
  /\ update.kind # "none" /\ update.at \in MaySwap
  /\ inForce' = IF update.kind = "alerts" THEN [inForce EXCEPT !.alerts = update.next]
                 ELSE [inForce EXCEPT !.auth = update.next]
  /\ update' = NoUpdate /\ UNCHANGED <<toml, running, edited, allowance>>

(* The operator saves the file with one section changed. *)
Saves(section, v) ==
  /\ Spends("manual") /\ v # toml[section]
  /\ toml' = [toml EXCEPT ![section] = v] /\ edited' = edited \cup {section}
  /\ UNCHANGED <<running, inForce, update>>

Halts ==
  /\ running = "up" /\ Spends("mishaps") /\ running' = "down" /\ update' = NoUpdate
  /\ UNCHANGED <<toml, inForce, edited>>

StartsUp ==
  /\ running # "up" /\ Starts(toml)
  /\ running' = "up" /\ inForce' = Loaded(toml) /\ edited' = {}
  /\ UNCHANGED <<toml, update, allowance>>

FailsToStart ==
  /\ running = "down" /\ ~Starts(toml)
  /\ running' = "refused" /\ UNCHANGED <<toml, inForce, update, edited, allowance>>

Requests ==
  \/ \E p \in Password : ChangePassword(p)
  \/ EnableTwoFactor \/ DisableTwoFactor
  \/ \E a \in AlertRequests : UpdateAlerts(a)

SettingsNext ==
  \/ Requests \/ Edits \/ Refused \/ WriteFailed \/ Renamed \/ Swapped
  \/ \E section \in DOMAIN SectionChoices : \E v \in SectionChoices[section] : Saves(section, v)
  \/ Halts \/ StartsUp \/ FailsToStart

SettingsSpec == SettingsInit /\ [][SettingsNext]_settingsVars

-----------------------------------------------------------------------------
SettingsTypeOK ==
  /\ \A t \in {toml, inForce} :
       /\ t.auth \in AuthSection /\ t.other \in OtherChoices
       /\ t.alerts.secret \in {"none", "old", "new"} /\ Len(t.alerts.rules) <= MaxRules + 1
  /\ running \in {"down", "up", "refused"} /\ edited \subseteq DOMAIN SectionChoices
  /\ update # NoUpdate => update.kind \in {"password", "twofa", "alerts"} /\ running = "up"

(* What an acknowledged change has put in force is what a restart would     *)
(* load, section by section, whatever the operator has edited meanwhile in  *)
(* the others and wherever writes failed or the server stopped: limits and  *)
(* normal forms included.  Excepted is a password with white space around   *)
(* it: the settings page keeps the space and loading drops it.              *)
SettingsOutliveRestarts ==
  running = "up" /\ update = NoUpdate =>
    /\ "alerts" \notin edited => LoadedAlerts(toml.alerts) = Validated(inForce.alerts)
    /\ "auth" \notin edited /\ ~inForce.auth.password.padded => LoadedAuth(toml.auth) = inForce.auth
    /\ edited = {} /\ ~inForce.auth.password.padded => Starts(toml)

(* A server that runs has a login if it listens beyond the host, a secret   *)
(* if it asks for codes, and alert settings within their limits, whether    *)
(* they were loaded or asked for.                                           *)
RunningIsSound ==
  running = "up" =>
    /\ inForce.other.listen = "public" => inForce.auth.user
    /\ inForce.auth.twofa => inForce.auth.totp
    /\ AcceptsAlerts(inForce.alerts) /\ Clamped(inForce.alerts) = inForce.alerts

SettingsAreKept == SettingsOutliveRestarts /\ RunningIsSound
=============================================================================
