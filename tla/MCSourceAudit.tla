--------------------------- MODULE MCSourceAudit ---------------------------
(* A location with a target sensor and another one, a location with a       *)
(* target sensor that lacks its id after one that has it, and a location    *)
(* that lacks its own.                                                      *)
EXTENDS SourceAudit

CONSTANTS m, nt

MCLocationRecords == {
    [id |-> 1, sensors |-> <<[id |-> 11, parameter |-> 2], [id |-> 12, parameter |-> 100]>>],
    [id |-> 2, sensors |-> <<[id |-> 21, parameter |-> 7], [id |-> m, parameter |-> 2]>>],
    [id |-> m, sensors |-> <<[id |-> 31, parameter |-> 2]>>]}
MCUtcOf == [t \in {"june", "july"} |-> IF t = "june" THEN 6 ELSE 7]
\* Text 6 has a fraction of a second and sorts before text 7, the same second
\* without it, though it is later: the third answer sorts as its instants
\* do, the fourth does not.
MCAnswers == {<<>>, <<nt>>, <<8, nt, 7>>, <<7, 6>>}
MCInstantOf == [t \in 6..8 |-> CASE t = 6 -> 13 [] t = 7 -> 12 [] t = 8 -> 20]
=============================================================================
