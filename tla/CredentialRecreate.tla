-------------------------- MODULE CredentialRecreate --------------------------
(***************************************************************************)
(* CredentialRenewal with an operator who also deletes the node and issues *)
(* it again (registry/lifecycle.rs remove_node, registry/issue.rs): the    *)
(* new entry starts over at generation 1, so that a generation no longer   *)
(* names one credential.                                                   *)
(***************************************************************************)
EXTENDS CredentialRenewal

(* remove_node and forget_runtime_node, then issue_node and its reload,    *)
(* with no other step in between.                                          *)
Recreate ==
  /\ lastTok < MaxReissued
  /\ lastTok' = lastTok + 1
  /\ issued' = lastTok'
  /\ Install([cur |-> [tok |-> lastTok', gen |-> 1], prev |-> {}, pend |-> {}])
  /\ due' = FALSE
  /\ active' = NoConn
  /\ UNCHANGED <<wire, agentVars, faults>>

SpecWithRecreate == Init /\ [][Next \/ Recreate]_vars
===============================================================================
