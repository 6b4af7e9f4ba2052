----------------------------- MODULE MCAccess -------------------------------
(* Small instances of the modules of access: administrators' logins, the    *)
(* admission of agents, and the exchange of install tokens.  A behaviour    *)
(* follows one of them, its focus; the others rest in an initial state.     *)
EXTENDS AdminAccess, ConnectionAdmission, InstallBootstrap

VARIABLE focus

\* Focus on a component, or on one part of it.
Focus == {"codes", "passkeys", "enrolments", "slots", "guesses", "credentials", "installs", "restored"}

\* A component that rests has the first of its choices.
Chosen ==
    /\ https <=> (focus \in {"passkeys", "enrolments"})
    /\ focus # "codes" => auth.totp = IF https THEN 1 ELSE 0
    /\ keys = IF focus = "passkeys" THEN {CHOOSE k \in Passkey : TRUE} ELSE {}
    /\ focus # "credentials" => edits = 0 /\ known = <<<<CHOOSE s \in Secret : TRUE>>>>
    /\ focus = "credentials" => edits = MaxEdits
    /\ restores = IF focus = "restored" THEN 0 ELSE MaxRestores

AccessInit ==
    /\ focus \in Focus
    /\ AdminInit /\ AdmissionInit /\ InstallInit
    /\ Chosen

\* Members of S are interchangeable while they are free: the first goes first.
InOrder(S, before, after) ==
    (CHOOSE x \in S : TRUE) \notin before \cup after => after \subseteq before

BusyClients == {c \in Client : ~Idle(c)}
BusyTokens == {t \in Token : ~Unheld(t)}
Logins ==
    /\ InOrder(Client, BusyClients, BusyClients')
    /\ InOrder(Token, BusyTokens, BusyTokens')

\* Where passkeys are used the one settings change is to disable the codes;
\* where the first ones are enrolled the settings rest and nothing restarts.
Passkeys ==
    /\ focus = "passkeys" => change'.kind \in {"none", "disable"}
    /\ focus = "enrolments" => change'.kind = "none" /\ gen' = 0

BusyConns == {c \in Conn : conn[c] # FreeConn}

\* The limits are for all the sockets, which come and go but say no hello; of
\* the rest two show what there is.
Crowd == \A c \in Conn : conn'[c].stage \in {"free", "asked", "upgrade", "hello"}
Two == CHOOSE two \in SUBSET Conn : Cardinality(two) = 2
OfTwo ==
    /\ (\E c \in Two : SocketStep(c)) \/ AroundSockets
    /\ InOrder(Two, BusyConns, BusyConns')

\* Agents that present credentials come directly, without a proxy.
Direct == \A c \in Conn : conn'[c].addr \notin Trusted /\ conn'[c].kind = "agent"

BusyTasks == {k \in Task : task[k].stage # "idle"}
Installs == InOrder(Task, BusyTasks, BusyTasks') /\ InOrder(Ticket, issued, issued')

\* Edits race while the file only moves forward; where an older one is put
\* back there is one edit at a time.
OneTask == Cardinality(BusyTasks') <= 1

AccessNext ==
    /\ UNCHANGED focus
    /\ \/ focus \in {"codes", "passkeys", "enrolments"} /\ AdminNext /\ Logins /\ Passkeys
          /\ UNCHANGED <<admissionVars, installVars>>
       \/ focus = "slots" /\ AdmissionNext /\ Crowd
          /\ UNCHANGED <<adminVars, installVars>>
       \/ focus = "guesses" /\ OfTwo
          /\ UNCHANGED <<adminVars, installVars>>
       \/ focus = "credentials" /\ OfTwo /\ Direct
          /\ UNCHANGED <<adminVars, installVars>>
       \/ focus \in {"installs", "restored"} /\ InstallNext /\ Installs
          /\ (focus = "restored" => OneTask)
          /\ UNCHANGED <<adminVars, admissionVars>>

AccessSpec ==
    AccessInit
    /\ [][AccessNext]_<<focus, adminVars, admissionVars, installVars>>

\* Every variable of the three components has a value of its type.
AccessTypeOK ==
    /\ focus \in {"codes", "passkeys", "enrolments"} => AdminTypeOK
    /\ focus \in {"slots", "guesses", "credentials"} => AdmissionTypeOK
    /\ focus \in {"installs", "restored"} => InstallTypeOK
===============================================================================
