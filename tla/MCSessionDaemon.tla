--------------------------- MODULE MCSessionDaemon ---------------------------
(* Values of the constants of SessionDaemon for TLC. *)
EXTENDS SessionDaemon, TLC

CONSTANTS a, b, m1, m2

PoolTwo == {a, b}
PoolOne == {a}
TwoMacs == {m1, m2}
OneMac == {m1}
WithLimit == {0, 1}
OnlyLimit == {1}
NoLimit == {0}

Symmetry == Permutations(PoolTwo) \cup Permutations(TwoMacs)
=============================================================================
