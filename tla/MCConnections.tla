---------------------------- MODULE MCConnections ----------------------------
(* Small instances of what a connection of an agent brings up to date: its  *)
(* credential, renewed over an old and a new connection, and the location   *)
(* of its node.  A behaviour follows one of them, its focus; the other      *)
(* rests in its initial state.                                              *)
EXTENDS CredentialRenewal, NodeLocations, TLC

VARIABLE focus

\* Focus on a component, or on one part of it.
Focus == {"renewal", "addresses", "overrides"}

Symmetry == Permutations(Conn)

\* Out of focus the locations start in the same one of their initial states.
ConnectionsInit ==
  /\ focus \in Focus
  /\ Init /\ LocationsInit
  /\ focus = "renewal" => provider = "off" /\ database.kind = "unreadable"

\* Members of S are interchangeable while they are free: the first goes first.
InOrder(S, before, after) ==
  (CHOOSE x \in S : TRUE) \notin before \cup after => after \subseteq before

Connected == {c \in Connection : conn[c].stage # "none"}
Saves == {v \in Saver : saving[v].stage # "none"}
FirstsFirst == InOrder(Connection, Connected, Connected') /\ InOrder(Saver, Saves, Saves')

\* Reconnections from other addresses and refreshes of the database; or overrides, saved and read, and restarts.
ByAddress == spent'.entered = 0 /\ spent'.reboots = 0 /\ snapshot' = snapshot
ByOverride == provider = "country" /\ database.kind = "country" /\ day' = 0 /\ refresh' = refresh

ConnectionsNext ==
  /\ UNCHANGED focus
  /\ \/ focus = "renewal" /\ Next /\ UNCHANGED locationVars
     \/ focus = "addresses" /\ LocationsNext /\ ByAddress /\ FirstsFirst /\ UNCHANGED vars
     \/ focus = "overrides" /\ LocationsNext /\ ByOverride /\ FirstsFirst /\ UNCHANGED vars

ConnectionsSpec == ConnectionsInit /\ [][ConnectionsNext]_<<focus, vars, locationVars>>

\* Every variable of the component in focus has a value of its type.
ConnectionsTypeOK == IF focus = "renewal" THEN TypeOK ELSE LocationsTypeOK
=============================================================================
