---------------------------- MODULE MCPagination ----------------------------
(* Records 2 and 4 share an identity, record 3 has none. *)
EXTENDS Pagination

MCIdentityOf == [r \in Records |-> CASE r = 3 -> "none" [] r \in {2, 4} -> "k2"
                                     [] r = 1 -> "k1" [] r = 5 -> "k5"
                                     [] r = 6 -> "k6" [] OTHER -> "k7"]
=============================================================================
