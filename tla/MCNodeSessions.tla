---------------------------- MODULE MCNodeSessions ----------------------------
(* Small instances of NodeSessions under its fairness, where interchangeable *)
(* sessions start in one order.                                              *)
EXTENDS NodeSessions, FiniteSets

Started == {s \in Session : pc[s] # "none"}
FirstSession == CHOOSE s \in Session : TRUE

\* The first session starts first, and a removal is lost beside one session.
InOrder ==
  /\ FirstSession \notin Started => Started' \subseteq {FirstSession}
  /\ lost' = 0 \/ Cardinality(Started') <= 1

OrderedNext == Next /\ InOrder

OrderedFairSpec == Init /\ [][OrderedNext]_vars /\ Fairness
===============================================================================
