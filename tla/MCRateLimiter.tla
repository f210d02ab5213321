--------------------------- MODULE MCRateLimiter ---------------------------
(* Two threads behind two windows of different spans. *)
EXTENDS RateLimiter

MCMaxRequests == [w \in Windows |-> IF w = "short" THEN 2 ELSE 3]
MCSeconds == [w \in Windows |-> IF w = "short" THEN 2 ELSE 5]
=============================================================================
