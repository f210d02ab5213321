------------------------- MODULE BronzePublication -------------------------
(***************************************************************************)
(* What a bronze refresh promises (docs/adr/0008-bronze-load-strategy.md): *)
(* everything a load has staged becomes visible in one step, which         *)
(* replaces the measurement window and the location snapshot of the load   *)
(* together, consumes the staged rows and moves nothing else.              *)
(***************************************************************************)
EXTENDS BronzeRows

CONSTANTS
    Loads,      \* load IDs
    Keys,       \* measurement identities
    Raws,       \* raw measurement payloads
    Locations,  \* raw location records
    Window      \* the identities inside the refresh window of each load

VARIABLES measurements, snapshots, staging, locationStaging

Init ==
    /\ measurements = {} /\ snapshots = {}
    /\ staging = {} /\ locationStaging = {}

\* A load changes what it has staged.
Stage(l) ==
    /\ \E content \in SUBSET [key : Keys, raw : Raws] :
        staging' = NotOf(staging, l) \cup Stamped(content, l)
    /\ \E locations \in SUBSET Locations :
        locationStaging' = NotOf(locationStaging, l)
                             \cup {[load |-> l, location |-> loc] : loc \in locations}
    /\ UNCHANGED <<measurements, snapshots>>

\* A window whose content did not change keeps its rows and their load IDs.
Publish(l) ==
    LET staged == Within(Of(staging, l), Window[l])
        bronze == Within(measurements, Window[l])
    IN  /\ UniqueKeys(staged)
        /\ \/ Content(staged) = Content(bronze) /\ UNCHANGED measurements
           \/ /\ Content(staged) # Content(bronze)
              /\ measurements' = Outside(measurements, Window[l]) \cup staged
        /\ snapshots' = NotOf(snapshots, l) \cup Of(locationStaging, l)
        /\ staging' = NotOf(staging, l)
        /\ locationStaging' = NotOf(locationStaging, l)

Next == \E l \in Loads : Stage(l) \/ Publish(l)

vars == <<measurements, snapshots, staging, locationStaging>>
Spec == Init /\ [][Next]_vars
=============================================================================
