---------------------------- MODULE SourceAudit ----------------------------
(***************************************************************************)
(* The manual audit: the single task of dags/openaq_audit.py with          *)
(* parse_audit_window and audit_sensors of include/openaq/audit.py.  It    *)
(* discovers the sensors of every provider, asks each for its measurements *)
(* and inserts all results at the end.  The task is not retried; an        *)
(* operator may clear it, and it runs again under the same AUDIT_ID.       *)
(*                                                                         *)
(* The time of a measurement is the text the API wrote, which the audit    *)
(* sorts as a text; here a text is its rank in that order, and InstantOf   *)
(* is the instant it names: one more digit or another offset reverses the  *)
(* two orders ("00:00:00.5Z" comes before "00:00:00Z").                    *)
(*                                                                         *)
(* A record the API sent without its id has the id Missing.  executemany   *)
(* sends the rows of an INSERT ... VALUES as one statement, which commits  *)
(* by itself (autocommit).                                                 *)
(***************************************************************************)
EXTENDS SensorSelection

CONSTANTS
    LocationRecords,  \* records [id, sensors] /locations can return
    Texts,            \* values of the parameters from and to
    UtcOf,            \* the instants of those that are timestamps with an offset
    Answers,          \* sequences of measurement times, NoTime if there is none
    InstantOf,        \* the instant each text of a measurement time names
    Missing, NoTime,
    MaxLocations,     \* bound: locations of a discovery
    MaxClears         \* bound: times an operator clears the task

TimeTexts == (UNION {ToSet(rows) : rows \in Answers}) \ {NoTime}

ASSUME AuditAssumption ==
    /\ DOMAIN UtcOf \subseteq Texts
    /\ \A loc \in LocationRecords : loc.sensors \in Seq(ToSet(loc.sensors))
    /\ Answers \subseteq Seq(Int \cup {NoTime}) /\ NoTime \notin Int
    /\ InstantOf \in [TimeTexts -> Int]
    /\ {MaxLocations, MaxClears} \subseteq Nat

VARIABLES
    params,     \* the parameters of the DAG run
    phase,      \* where the task stands
    sensors,    \* the (location, sensor) pairs still to be asked
    results,    \* results, lost with the process
    stored,     \* SENSOR_AUDIT_RESULTS of this AUDIT_ID, by the attempt that inserted them
    attempt,    \* the attempt of the task in progress
    clears,     \* times the operator has cleared the task
    targets,    \* history: the target sensors each attempt discovered
    answers     \* history: what each attempt was answered, in order

vars == <<params, phase, sensors, results, stored, attempt, clears, targets, answers>>

OpenAQError == <<"OpenAQError">>
Running == {"parse", "discover", "sensors", "return"}

Sensors == UNION {ToSet(loc.sensors) : loc \in LocationRecords}
SensorIds == {s.id : s \in Sensors}
LocationIds == {loc.id : loc \in LocationRecords}
Instants == {InstantOf[text] : text \in TimeTexts}

Targets == [location : LocationIds, sensor : SensorIds]

ResultsWith(Times) ==
    [location : LocationIds \ {Missing}, sensor : SensorIds \ {Missing},
     audit_result : {"data", "empty", "error"}, record_count : Nat,
     oldest : Times \cup {NoTime}, newest : Times \cup {NoTime}]

Results == ResultsWith(TimeTexts)
Rows == [clears : 0..MaxClears, result : ResultsWith(Instants)]
AnswerRecords == [failed : BOOLEAN, rows : Answers \cup {<<>>}]

TypeOK ==
    /\ params \in [{"from", "to"} -> Texts]
    /\ phase \in Running \cup {"success", "failed"}
    /\ sensors \in Seq(Targets)
    /\ results \in Seq(Results)
    /\ clears \in 0..MaxClears
    /\ attempt = clears + 1
    /\ stored \in [1..attempt -> Seq(Rows)]
    /\ targets \in [1..attempt -> Seq(Targets)]
    /\ answers \in [1..attempt -> Seq(AnswerRecords)]
    /\ phase = "sensors" => Len(targets[attempt]) = Len(results) + Len(sensors)

Init ==
    /\ params \in [{"from", "to"} -> Texts]
    /\ phase = "parse"
    /\ sensors = <<>>
    /\ results = <<>>
    /\ stored = << <<>> >>
    /\ attempt = 1
    /\ clears = 0
    /\ targets = << <<>> >>
    /\ answers = << <<>> >>

-----------------------------------------------------------------------------
(* audit_sensors *)

\* parse_audit_window: both bounds are timestamps with an offset, in order.
ValidWindow ==
    /\ {params["from"], params["to"]} \subseteq DOMAIN UtcOf
    /\ UtcOf[params["from"]] < UtcOf[params["to"]]

ParseWindow ==
    /\ phase = "parse"
    /\ ValidWindow
    /\ phase' = "discover"
    /\ UNCHANGED <<params, sensors, results, stored, attempt, clears, targets, answers>>

\* Every target sensor of every location, whoever provides it.
SensorsToAudit(found) ==
    FlattenSeq([i \in DOMAIN found |->
        LET wanted == TargetSensors(found[i])
        IN [k \in DOMAIN wanted |-> [location |-> found[i].id, sensor |-> wanted[k].id]]])

Discover(found) ==
    /\ phase = "discover"
    /\ phase' = "sensors"
    /\ sensors' = SensorsToAudit(found)
    /\ targets' = [targets EXCEPT ![attempt] = SensorsToAudit(found)]
    /\ UNCHANGED <<params, results, stored, attempt, clears, answers>>

Ask == phase = "sensors" /\ sensors # <<>>

\* location["id"] and sensor["id"] exist.
Identified == Missing \notin {Head(sensors).location, Head(sensors).sensor}

\* The texts of the measurements that have period.datetimeTo.utc.
MeasurementTimes(rows) == ToSet(rows) \ {NoTime}

\* Mutant: a sensor without measurement times counts as silent.
ClassByTimes(rows) == IF MeasurementTimes(rows) # {} THEN "data" ELSE "empty"

Class(rows) == IF rows # <<>> THEN "data" ELSE "empty"

\* The first and the last of the sorted texts.
Result(class, rows) ==
    [location |-> Head(sensors).location, sensor |-> Head(sensors).sensor,
     audit_result |-> class, record_count |-> Len(rows),
     oldest |-> IF MeasurementTimes(rows) = {} THEN NoTime ELSE Min(MeasurementTimes(rows)),
     newest |-> IF MeasurementTimes(rows) = {} THEN NoTime ELSE Max(MeasurementTimes(rows))]

Recorded(class, rows) ==
    /\ Ask /\ Identified
    /\ results' = Append(results, Result(class, rows))
    /\ answers' = [answers EXCEPT ![attempt] =
                     Append(@, [failed |-> class = "error", rows |-> rows])]
    /\ UNCHANGED <<params, phase, stored, attempt, clears, targets>>

Measured(rows) == Recorded(Class(rows), rows) /\ sensors' = Tail(sensors)

\* Mutant: an error ends the loop.
ErredAndStopped == Recorded("error", <<>>) /\ sensors' = <<>>

\* Whatever OpenAQError the client raises becomes the result of the sensor.
Erred == Recorded("error", <<>>) /\ sensors' = Tail(sensors)

-----------------------------------------------------------------------------
(* The task *)

\* The columns of the two times are TIMESTAMP_TZ: the table keeps instants.
AsTimestamp(text) == IF text = NoTime THEN NoTime ELSE InstantOf[text]

AsRow(result) ==
    [clears |-> clears,
     result |-> [result EXCEPT !.oldest = AsTimestamp(@), !.newest = AsTimestamp(@)]]

\* Mutant: the rows are inserted one statement at a time.
InsertOneByOne ==
    /\ phase = "sensors" /\ sensors = <<>>
    /\ \E n \in 0..Len(results) :
        /\ stored' = [stored EXCEPT ![attempt] =
             @ \o [i \in 1..n |-> AsRow(results[i])]]
        /\ phase' = IF n = Len(results) THEN "return" ELSE "failed"
    /\ UNCHANGED <<params, sensors, results, attempt, clears, targets, answers>>

\* _insert_audit_results; no results, no statement.
Insert ==
    /\ phase = "sensors" /\ sensors = <<>>
    /\ stored' = [stored EXCEPT ![attempt] =
         @ \o [i \in DOMAIN results |-> AsRow(results[i])]]
    /\ phase' = "return"
    /\ UNCHANGED <<params, sensors, results, attempt, clears, targets, answers>>

Return ==
    /\ phase = "return"
    /\ phase' = "success"
    /\ UNCHANGED <<params, sensors, results, stored, attempt, clears, targets, answers>>

Restarts ==
    /\ phase' = "parse"
    /\ attempt' = attempt + 1
    /\ sensors' = <<>> /\ results' = <<>>
    /\ stored' = Append(stored, <<>>)
    /\ targets' = Append(targets, <<>>)
    /\ answers' = Append(answers, <<>>)
    /\ UNCHANGED params

\* Mutant: the retries of the ingest DAG.
FailsIntoRetry == phase \in Running /\ attempt <= 2 /\ Restarts /\ UNCHANGED clears

\* The task raises (a bad window, a failed discovery, a record without its id
\* or of another shape, a failed INSERT) or its worker is lost, at any point:
\* what it has collected is gone.  DEFAULT_ARGS leaves no retry.
Fails ==
    /\ phase \in Running
    /\ phase' = "failed"
    /\ sensors' = <<>> /\ results' = <<>>
    /\ UNCHANGED <<params, stored, attempt, clears, targets, answers>>

\* The operator clears the task, finished or not.
Clear ==
    /\ phase \in {"success", "failed"}
    /\ clears < MaxClears
    /\ clears' = clears + 1
    /\ Restarts

Next ==
    \/ ParseWindow
    \/ \E n \in 0..MaxLocations : \E found \in [1..n -> LocationRecords] : Discover(found)
    \/ \E rows \in Answers : Measured(rows)
    \/ Erred \/ Insert \/ Return \/ Fails \/ Clear

Spec == Init /\ [][Next]_vars

-----------------------------------------------------------------------------
(* Properties *)

\* An attempt leaves nothing, or one row for every target sensor it discovered,
\* in order, wherever it fails and whatever single sensors answer: a reader of
\* the table never takes the first part of an audit for the whole.
WholeAudits ==
    \A a \in 1..attempt :
        /\ \/ stored[a] = <<>>
           \/ /\ Len(stored[a]) = Len(targets[a])
              /\ \A i \in DOMAIN targets[a] :
                    /\ stored[a][i].result.location = targets[a][i].location
                    /\ stored[a][i].result.sensor = targets[a][i].sensor
        /\ a = attempt /\ phase = "success" => Len(stored[a]) = Len(targets[a])

\* The order of these texts is the order of the instants they name.
InTimeOrder(texts) ==
    \A s, t \in texts : s <= t => InstantOf[s] <= InstantOf[t]

\* What is stored of a sensor is what that sensor itself answered: "empty" only
\* if it returned no measurement, which is what a provider is dropped for
\* (ADR-0009), "error" only if its request failed.  The two times are instants
\* of that answer; they bound the others if its texts sort as their instants do.
ResultsTrue ==
    \A a \in 1..attempt : \A i \in DOMAIN stored[a] :
        LET result == stored[a][i].result
            answer == answers[a][i]
            texts == MeasurementTimes(answer.rows)
            instants == {InstantOf[text] : text \in texts}
        IN /\ result.audit_result = "error" <=> answer.failed
           /\ result.audit_result = "empty" <=> ~answer.failed /\ answer.rows = <<>>
           /\ result.record_count = Len(answer.rows)
           /\ {result.oldest, result.newest} \subseteq
                  IF texts = {} THEN {NoTime} ELSE instants
           /\ InTimeOrder(texts) =>
                  \A time \in instants : result.oldest <= time /\ time <= result.newest

\* "Stores one result per sensor" (README.md:93): nothing but an operator, who
\* clears the task after its rows were stored, or a discovery that lists the
\* sensor twice makes two.
RepeatsExplained ==
    \A a, b \in 1..attempt : \A i \in DOMAIN stored[a], j \in DOMAIN stored[b] :
        /\ a < b \/ (a = b /\ i < j)
        /\ stored[a][i].result.sensor = stored[b][j].result.sensor
        => \/ stored[a][i].clears < stored[b][j].clears
           \/ \E k, l \in DOMAIN targets[a] :
                 /\ k # l
                 /\ targets[a][k].sensor = stored[a][i].result.sensor
                 /\ targets[a][l].sensor = stored[a][i].result.sensor
=============================================================================
