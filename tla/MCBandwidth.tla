----------------------------- MODULE MCBandwidth -----------------------------
(* Values of the constants of Bandwidth for TLC. *)
EXTENDS Bandwidth, TLC

CONSTANTS a, b, c

ThreeClients == {a, b, c}
TwoClients == {a, b}
NoneLowHigh == {0, 1, 2}
OneRate == {1}

Symmetry == Permutations(TwoClients)
=============================================================================
