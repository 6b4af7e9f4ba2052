---------------------------- MODULE MCOperations ----------------------------
(* Small instances of the modules of operation: what administrators change  *)
(* in the settings and ask of the agents, the updater, and the agents'      *)
(* diagnostic lines.  A behaviour follows one of them, its focus; the       *)
(* others rest in their initial state.                                      *)
EXTENDS UpdaterActivation, ServerSettings, SessionCommands, UpdateRequests, AgentLogs

VARIABLE focus

\* Focus on a component, or on one part of it.
Focus == {"activation", "settings", "renewals", "successors", "requests", "restarts", "lines"}

OperationsInit ==
  /\ focus \in Focus
  /\ UpdaterInit /\ SettingsInit /\ CommandsInit /\ UpdatesInit /\ LogsInit

\* Members of S are interchangeable while they are free: the first goes first.
InOrder(S, before, after) ==
  (CHOOSE x \in S : TRUE) \notin before \cup after => after \subseteq before

BusyAsks == {k \in Ask : ask[k].stage # "idle"}
BusyHosts == {h \in Host : agents[h] # NewAgent}

\* A second release is fetched where nothing went wrong with the first.
OneTrouble == budget'.applies > 0 \/ (budget'.kills = MaxKills /\ budget'.faults = MaxFaults)

\* One session: pings, update commands and time.
OneSession == made' <= 1

\* Two sessions, one after the other, in the same minute.
TwoSessions ==
  /\ minute' = 0 /\ queued' = 0 /\ revoked' = {}
  /\ \A s \in Sessions :
       sess'[s].job.do # "ping" /\ sess'[s].job.by # "tick" /\ (sess'[s].stage # "none" => sess'[s].acks)

\* Two sessions of a server that stays up; or one, with its restarts.
ServerStays ==
  /\ lost' = 0 /\ updater'.cap = "ready"
  /\ \A s \in 1..Links :
       link'[s].told # Unavailable /\ \A i \in DOMAIN link'[s].up : link'[s].up[i].cap = "ready"
OneLink == \A s \in 2..Links : link'[s].stage = "none"

OperationsNext ==
  /\ UNCHANGED focus
  /\ \/ focus = "activation" /\ UpdaterNext /\ OneTrouble
          /\ UNCHANGED <<settingsVars, commandVars, updateVars, logVars>>
     \/ focus = "settings" /\ SettingsNext
          /\ UNCHANGED <<updaterVars, commandVars, updateVars, logVars>>
     \/ focus = "renewals" /\ CommandsNext /\ OneSession /\ InOrder(Ask, BusyAsks, BusyAsks')
          /\ UNCHANGED <<updaterVars, settingsVars, updateVars, logVars>>
     \/ focus = "successors" /\ CommandsNext /\ TwoSessions /\ InOrder(Ask, BusyAsks, BusyAsks')
          /\ UNCHANGED <<updaterVars, settingsVars, updateVars, logVars>>
     \/ focus = "requests" /\ UpdatesNext /\ ServerStays
          /\ UNCHANGED <<updaterVars, settingsVars, commandVars, logVars>>
     \/ focus = "restarts" /\ UpdatesNext /\ OneLink
          /\ UNCHANGED <<updaterVars, settingsVars, commandVars, logVars>>
     \/ focus = "lines" /\ LogsNext /\ InOrder(Host, BusyHosts, BusyHosts')
          /\ UNCHANGED <<updaterVars, settingsVars, commandVars, updateVars>>

OperationsSpec ==
  OperationsInit
  /\ [][OperationsNext]_<<focus, updaterVars, settingsVars, commandVars, updateVars, logVars>>

\* Every variable of the component in focus has a value of its type.
OperationsTypeOK ==
  /\ focus = "activation" => UpdaterTypeOK
  /\ focus = "settings" => SettingsTypeOK
  /\ focus \in {"renewals", "successors"} => CommandsTypeOK
  /\ focus \in {"requests", "restarts"} => UpdatesTypeOK
  /\ focus = "lines" => LogsTypeOK
=============================================================================
