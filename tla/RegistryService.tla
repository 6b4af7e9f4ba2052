--------------------------- MODULE RegistryService ---------------------------
(***************************************************************************)
(* What the registry promises, without files, locks or versions: a growing *)
(* set of committed mutations, the part of it that survives a crash, the   *)
(* part the server serves from, and the part whose callers got an answer.  *)
(***************************************************************************)
CONSTANTS Op, Legacy

VARIABLES
  committed,   \* mutations any reader of the registry sees
  stable,      \* mutations that survive a crash of the host
  served,      \* mutations in effect where agents authenticate
  answered     \* mutations reported as successful

vars == <<committed, stable, served, answered>>

Init ==
  /\ committed \in {{}, Legacy}
  /\ stable = committed
  /\ served = {}
  /\ answered = {}

(* A mutation takes effect on top of every earlier one; its caller may     *)
(* learn of it at once, but only if it is stable.                          *)
Commit(o) ==
  /\ committed' = committed \cup {o}
  /\ stable' \in {stable, committed'}
  /\ answered' \in {answered, answered \cup ({o} \cap stable')}
  /\ UNCHANGED served

(* The server catches up with some of what is committed, and a caller may  *)
(* be answered once its mutation is both stable and served.                *)
Serve ==
  /\ served \subseteq served' /\ served' \subseteq committed
  /\ answered \subseteq answered' /\ answered' \subseteq Op
  /\ answered' \ answered \subseteq served' \cap stable
  /\ UNCHANGED <<committed, stable>>

(* The server, or its whole host, stops: nothing stable is lost.           *)
Restart ==
  /\ served' = {}
  /\ stable \subseteq committed' /\ committed' \subseteq committed
  /\ stable' \in {stable, committed'}
  /\ UNCHANGED answered

Next == (\E o \in Op : Commit(o)) \/ Serve \/ Restart

Spec == Init /\ [][Next]_vars
=============================================================================
