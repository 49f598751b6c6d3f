--------------------------- MODULE MCAccountStore ---------------------------
(* One provider, three aliases in name order (0 is "default"), so every relation between a *)
(* selection, a sibling, a snapshot and the migrated account occurs.       *)
EXTENDS AccountStore, FiniteSetsExt, TLC

CONSTANTS p1, s1, s2, c1, c2, k1, t1, t2

MCLegacyAuth == [p \in {p1} |-> [kind |-> "oauth", refresh |-> t1]]

MCAliases == 0..2

MCFirstByName == [S \in SUBSET MCAliases \ {{}} |-> Min(S)]

Symmetry == Permutations({c1, c2}) \cup Permutations({s1, s2})

=============================================================================
