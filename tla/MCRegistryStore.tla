--------------------------- MODULE MCRegistryStore ---------------------------
(* Small instances of RegistryStore: handler tasks, a command-line process *)
(* and the poller compete over a few mutations.                            *)
EXTENDS RegistryStore, TLC

Symmetry == Permutations(Server) \cup Permutations(Op \ Legacy)
==============================================================================
