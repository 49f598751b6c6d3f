------------------------- MODULE MCAccountTracking -------------------------
(* Two accounts of one provider: losing one replaces the accounts, losing   *)
(* or gaining the only one rebuilds the whole state.                        *)
EXTENDS AccountTracking, TLC

CONSTANTS a1, a2, p1, r1, r2

MCProviderOf == [a \in {a1, a2} |-> p1]

Symmetry == Permutations({a1, a2}) \cup Permutations({r1, r2})

=============================================================================
