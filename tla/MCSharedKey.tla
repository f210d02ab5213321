---------------------------- MODULE MCSharedKey ----------------------------
(* Two windows of different spans, as in OPENAQ_FREE_TIER. *)
EXTENDS SharedKey, TLC

MCMaxRequests == [w \in Windows |-> IF w = "short" THEN 1 ELSE 2]
MCSeconds == [w \in Windows |-> IF w = "short" THEN 2 ELSE 5]
IngestSymmetry == Permutations(Ingests)
=============================================================================
