------------------------- MODULE MCCredentialRecreate -------------------------
EXTENDS CredentialRecreate, TLC

Symmetry == Permutations(Conn)
===============================================================================
