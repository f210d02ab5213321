-------------------------- MODULE MCIngestCollect --------------------------
(* Two production locations, one of another provider; "p1" and "q1" are two *)
(* texts of one instant, "end" lies on the open end of the window, "bad"    *)
(* cannot be parsed.                                                        *)
EXTENDS IngestCollect

MCLocationRecords == {
    [id |-> 1, provider |-> 66, sensors |-> <<[id |-> 11, parameter |-> 2],
                                              [id |-> 12, parameter |-> 100]>>],
    [id |-> 2, provider |-> 70, sensors |-> <<[id |-> 21, parameter |-> 7]>>],
    [id |-> 3, provider |-> 9, sensors |-> <<[id |-> 31, parameter |-> 2]>>]}
MCInstantOf == [t \in {"p1", "q1", "end"} |-> IF t = "end" THEN 2 ELSE 1]
=============================================================================
