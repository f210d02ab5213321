--------------------------- MODULE IngestCollect ---------------------------
(***************************************************************************)
(* collect_ingest_batch of include/openaq/ingest.py: one discovery of      *)
(* locations, then one measurement request per target sensor of the        *)
(* production providers, in order, and the check for repeated identities.  *)
(*                                                                         *)
(* A measurement is its period text (with its parameter) and its payload;  *)
(* InstantOf is what the text stands for.  The answers of the client are   *)
(* what Pagination.tla lets it return: records may be repeated.            *)
(***************************************************************************)
EXTENDS SensorSelection

CONSTANTS
    LocationRecords,  \* records [id, provider, sensors] /locations can return
    Providers,        \* INGEST_PROVIDER_IDS
    Texts,            \* period texts; those without an instant cannot be parsed
    InstantOf,
    Window,           \* [window_started_at, window_ended_at)
    MaxLocations,     \* bound: locations of a discovery
    MaxRows           \* bound: measurements of an answer

ASSUME CollectAssumption ==
    /\ DOMAIN InstantOf \subseteq Texts
    /\ "server error" \notin Texts
    /\ {MaxLocations, MaxRows} \subseteq Nat
    /\ \A loc \in LocationRecords : loc.sensors \in Seq(ToSet(loc.sensors))

VARIABLES
    phase,                  \* where the collection stands, or how it ended
    locations,              \* discovered_locations
    sensors,                \* the sensors still to be asked
    staged,                 \* staged_measurements
    apiRecordCount, excludedRecordCount, serverErrorSensorCount,
    answers                 \* history: every sensor asked and its answer

counters == <<apiRecordCount, excludedRecordCount, serverErrorSensorCount>>
vars == <<phase, locations, sensors, staged, counters, answers>>

Sensors == UNION {ToSet(loc.sensors) : loc \in LocationRecords}
SensorIds == {s.id : s \in Sensors}
Measurements == [sensor : SensorIds, text : Texts]

ServerError == <<"server error">>
Rows == UNION {[1..n -> Texts] : n \in 0..MaxRows}

Answers == [sensor : SensorIds, rows : Rows \cup {ServerError}]

Ends == {"returned", "discovery failed", "sensor failed", "bad measurement", "duplicate"}

TypeOK ==
    /\ phase \in {"discover", "sensors"} \cup Ends
    /\ locations \in Seq(LocationRecords) /\ Len(locations) <= MaxLocations
    /\ sensors \in Seq(Sensors)
    /\ staged \in Seq(Measurements)
    /\ {apiRecordCount, excludedRecordCount} \subseteq 0..(MaxRows * Len(answers))
    /\ serverErrorSensorCount \in 0..Len(answers)
    /\ answers \in Seq(Answers)

Init ==
    /\ phase = "discover"
    /\ locations = <<>>
    /\ sensors = <<>>
    /\ staged = <<>>
    /\ apiRecordCount = 0 /\ excludedRecordCount = 0 /\ serverErrorSensorCount = 0
    /\ answers = <<>>

-----------------------------------------------------------------------------

\* The sensors of the locations the production providers own.
SensorsToAsk(found) ==
    FlattenSeq([i \in DOMAIN found |->
        IF found[i].provider \in Providers THEN TargetSensors(found[i]) ELSE <<>>])

Discover(found) ==
    /\ phase = "discover"
    /\ phase' = "sensors"
    /\ locations' = found
    /\ sensors' = SensorsToAsk(found)
    /\ UNCHANGED <<staged, counters, answers>>

DiscoveryFails ==
    /\ phase = "discover"
    /\ phase' = "discovery failed"
    /\ UNCHANGED <<locations, sensors, staged, counters, answers>>

Inside == {text \in DOMAIN InstantOf : InstantOf[text] \in Window}

Answered(rows) ==
    /\ phase = "sensors" /\ sensors # <<>>
    /\ answers' = Append(answers, [sensor |-> Head(sensors).id, rows |-> rows])

\* Mutant: the measurement is filed under the sensor's parameter.
TakeRowsOfParameter(rows) ==
    /\ Answered(rows)
    /\ ToSet(rows) \subseteq DOMAIN InstantOf
    /\ LET inside == Keeping(rows, Inside)
       IN /\ staged' = staged \o
                [i \in DOMAIN inside |-> [sensor |-> Head(sensors).parameter, text |-> inside[i]]]
          /\ apiRecordCount' = apiRecordCount + Len(rows)
          /\ excludedRecordCount' = excludedRecordCount + Len(rows) - Len(inside)
    /\ sensors' = Tail(sensors)
    /\ UNCHANGED <<phase, locations, serverErrorSensorCount>>

TakeRows(rows) ==
    /\ Answered(rows)
    /\ ToSet(rows) \subseteq DOMAIN InstantOf
    /\ LET inside == Keeping(rows, Inside)
       IN /\ staged' = staged \o
                [i \in DOMAIN inside |-> [sensor |-> Head(sensors).id, text |-> inside[i]]]
          /\ apiRecordCount' = apiRecordCount + Len(rows)
          /\ excludedRecordCount' = excludedRecordCount + Len(rows) - Len(inside)
    /\ sensors' = Tail(sensors)
    /\ UNCHANGED <<phase, locations, serverErrorSensorCount>>

\* StagedMeasurement.from_api or _parse_api_timestamp raises.
BadMeasurement(rows) ==
    /\ Answered(rows)
    /\ ~(ToSet(rows) \subseteq DOMAIN InstantOf)
    /\ phase' = "bad measurement"
    /\ UNCHANGED <<locations, sensors, staged, counters>>

\* Mutant: a sensor that failed ends the loop.
SkipAllSensors ==
    /\ Answered(ServerError)
    /\ serverErrorSensorCount' = serverErrorSensorCount + 1
    /\ sensors' = <<>>
    /\ UNCHANGED <<phase, locations, staged, apiRecordCount, excludedRecordCount>>

\* OpenAQServerError after the retries of the client.
SkipSensor ==
    /\ Answered(ServerError)
    /\ serverErrorSensorCount' = serverErrorSensorCount + 1
    /\ sensors' = Tail(sensors)
    /\ UNCHANGED <<phase, locations, staged, apiRecordCount, excludedRecordCount>>

\* Any other error of the client ends the collection.
SensorFails ==
    /\ phase = "sensors" /\ sensors # <<>>
    /\ phase' = "sensor failed"
    /\ UNCHANGED <<locations, sensors, staged, counters, answers>>

\* Mutant: only consecutive measurements are compared.
NextToEachOther(rows) == \E i \in 1..(Len(rows) - 1) : rows[i] = rows[i + 1]

\* (SENSOR_ID, PARAMETER_ID, text) occurs twice.
Duplicated(rows) == ~IsInjective(rows)

RejectDuplicateIdentities ==
    /\ phase = "sensors" /\ sensors = <<>>
    /\ phase' = IF Duplicated(staged) THEN "duplicate" ELSE "returned"
    /\ UNCHANGED <<locations, sensors, staged, counters, answers>>

Next ==
    \/ \E n \in 0..MaxLocations : \E found \in [1..n -> LocationRecords] : Discover(found)
    \/ DiscoveryFails
    \/ \E rows \in Rows : TakeRows(rows) \/ BadMeasurement(rows)
    \/ SkipSensor
    \/ SensorFails
    \/ RejectDuplicateIdentities

Spec == Init /\ [][Next]_vars

-----------------------------------------------------------------------------
(* Properties *)

AnsweredBy(id, text) ==
    \E i \in DOMAIN answers : /\ answers[i].sensor = id
                              /\ answers[i].rows # ServerError
                              /\ text \in ToSet(answers[i].rows)

\* A batch has exactly what the answering sensors returned in the half-open
\* window [from, to), each identity once: the batch can replace the window.
BatchIsTheWindow ==
    phase = "returned" =>
        /\ ToSet(staged) = {m \in Measurements :
                AnsweredBy(m.sensor, m.text) /\ InstantOf[m.text] \in Window}
        /\ Cardinality(ToSet(staged)) = Len(staged)

\* Every target sensor of a production location was asked, and every failed
\* one is counted: skipping one sensor skips no other.
SensorsAsked ==
    phase = "returned" =>
        /\ \A i \in DOMAIN locations : \A s \in ToSet(locations[i].sensors) :
                locations[i].provider \in Providers /\ s.parameter \in TargetParameters
                    => \E j \in DOMAIN answers : answers[j].sensor = s.id
        /\ serverErrorSensorCount =
                Cardinality({j \in DOMAIN answers : answers[j].rows = ServerError})

\* "Bronze does not reject a repeated location identity" (ADR-0008): a load is
\* only rejected when one measurement answer itself repeats an identity.
RepeatedLocationAccepted ==
    phase = "duplicate" =>
        \E i \in DOMAIN answers : Duplicated(Keeping(answers[i].rows, Inside))
=============================================================================
