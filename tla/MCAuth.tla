-------------------------------- MODULE MCAuth --------------------------------
EXTENDS AuthPages, TLC

\* Clients are alike.
Symmetry == Permutations(Clients)
===============================================================================
