------------------------------ MODULE MCTelemetry ------------------------------
(* Small instances of the modules around the live nodes: the traffic ledger *)
(* and the throttle it asks for, the alerts, the browsers' views, and the   *)
(* snapshots and queues of a server that stops.  A behaviour follows one of *)
(* them, its focus; the others rest in an initial state.                    *)
EXTENDS TrafficLedger, TrafficThrottle, AlertNotices, BrowserViews, ServerStop

VARIABLE focus

\* Focus on a component, or on one part of it that does not touch the other.
Focus == {"ledger", "throttle", "alerts", "summaries", "streams", "polls",
          "snapshots", "queues"}

\* The bounds of a focus: a component that rests has the first of its choices.
Chosen ==
    /\ subjects = IF focus = "summaries" THEN {"summaries"} ELSE {"alerts"}
    /\ focus # "throttle" => quota = 0 /\ route = CHOOSE i \in Iface : TRUE
    /\ budget.changes = IF focus = "snapshots" THEN MaxUpdates ELSE 0
    /\ budget.items = IF focus = "snapshots" THEN 0 ELSE MaxItems

TelemetryInit ==
    /\ focus \in Focus
    /\ LedgerInit /\ ThrottleInit /\ NoticesInit /\ ViewInit /\ StopInit
    /\ Chosen

\* Nodes and browsers are interchangeable: the first to change and the first to
\* connect are always the same ones.
InOrder ==
    /\ LET first == CHOOSE n \in ViewNode : TRUE
       IN Changes' > 0 => truth'[first].ver > 0
    /\ LET first == CHOOSE b \in Browser : TRUE
       IN links' = 1 => \A b \in Browser \ {first} : page'[b].link = "idle"

\* Two connections see two changes; pages that poll see one of each.
Streaming == InOrder /\ polls' = 0
Polling == InOrder /\ links' <= 1 /\ Changes' <= 1

TelemetryNext ==
    /\ UNCHANGED focus
    /\ \/ focus = "ledger" /\ LedgerNext
          /\ UNCHANGED <<throttleVars, noticeVars, viewVars, stopVars>>
       \/ focus = "throttle" /\ ThrottleNext
          /\ UNCHANGED <<ledgerVars, noticeVars, viewVars, stopVars>>
       \/ focus \in {"alerts", "summaries"} /\ NoticesNext
          /\ UNCHANGED <<ledgerVars, throttleVars, viewVars, stopVars>>
       \/ focus = "streams" /\ ViewNext /\ Streaming
          /\ UNCHANGED <<ledgerVars, throttleVars, noticeVars, stopVars>>
       \/ focus = "polls" /\ ViewNext /\ Polling
          /\ UNCHANGED <<ledgerVars, throttleVars, noticeVars, stopVars>>
       \/ focus = "snapshots" /\ StopNext /\ UNCHANGED <<clone, caller>>
          /\ UNCHANGED <<ledgerVars, throttleVars, noticeVars, viewVars>>
       \* The nodes change no more, and so the ticker saves them once at most.
       \/ focus = "queues" /\ StopNext /\ UNCHANGED <<registered, deletion>>
          /\ (ticker = "idle" => ticker' # "waiting")
          /\ UNCHANGED <<ledgerVars, throttleVars, noticeVars, viewVars>>

TelemetrySpec ==
    TelemetryInit /\ [][TelemetryNext]_<<focus, ledgerVars, throttleVars, noticeVars, viewVars, stopVars>>

\* Every variable of the five components has a value of its type.
TelemetryTypeOK ==
    /\ focus = "ledger" => LedgerTypeOK
    /\ focus = "throttle" => ThrottleTypeOK
    /\ focus \in {"alerts", "summaries"} => NoticesTypeOK
    /\ focus \in {"streams", "polls"} => ViewTypeOK
    /\ focus \in {"snapshots", "queues"} => StopTypeOK
================================================================================
