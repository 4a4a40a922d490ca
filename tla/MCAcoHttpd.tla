----------------------------- MODULE MCAcoHttpd -----------------------------
(* AcoHttpd on small instances.                                            *)
EXTENDS AcoHttpd, TLC

CONSTANTS k1, k2, k3

Symmetry == Permutations(Clients)
=============================================================================
