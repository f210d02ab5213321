-------------------------- MODULE MCBronzeRefresh --------------------------
(* Two overlapping windows: "b" lies in both, "c" only in the later one. *)
EXTENDS BronzeRefresh, TLC

CONSTANTS l1, l2
MCLoads == {l1, l2}
MCHourOf == [k \in Keys |-> IF k = "b" THEN 1 ELSE 2]
MCEndOf == [l \in Loads |-> IF l = l1 THEN 2 ELSE 3]
Symmetry == Permutations(Raws)
=============================================================================
