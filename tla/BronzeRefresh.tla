--------------------------- MODULE BronzeRefresh ---------------------------
(***************************************************************************)
(* The bronze tables, the staging statements of                            *)
(* include/openaq/refresh_bronze.py and the stored procedure               *)
(* REFRESH_STAGED_MEASUREMENTS of include/sql/bootstrap/04_bronze_tables.  *)
(*                                                                         *)
(* Staging statements run in autocommit mode, from any load, also while    *)
(* the procedure runs for another one.  The procedure is one transaction,  *)
(* a block of statements per step: it writes through a private copy that   *)
(* COMMIT installs and may fail before any statement.  Its calls are       *)
(* serialised (max_active_runs=1).                                         *)
(*                                                                         *)
(* A payload contains the textual period start, so two staged rows of one  *)
(* identity, which differ at least in that text, differ in their payload.  *)
(***************************************************************************)
EXTENDS Integers, FiniteSets, BronzeRows

CONSTANTS
    Loads,      \* load IDs (Airflow run IDs)
    Keys,       \* (SENSOR_ID, PARAMETER_ID, MEASUREMENT_PERIOD_FROM_UTC)
    HourOf,     \* the hour each measurement period starts
    Raws,       \* RAW_MEASUREMENT payloads
    Locations,  \* RAW_LOCATION records
    EndOf,      \* the hour at which each load's data interval ends
    Lookback,   \* INGEST_LOOKBACK, in hours
    MaxStaged   \* bound: rows one staging statement inserts

ASSUME BronzeAssumption ==
    /\ HourOf \in [Keys -> Int]
    /\ EndOf \in [Loads -> Int]
    /\ Lookback \in Nat

VARIABLES
    measurements,     \* MEASUREMENTS, committed
    snapshots,        \* LOCATION_SNAPSHOTS, committed
    staging,          \* MEASUREMENT_STAGING
    locationStaging,  \* LOCATION_STAGING
    tx                \* the procedure call in progress

tables == <<measurements, snapshots>>
bronzeVars == <<measurements, snapshots, staging, locationStaging, tx>>

\* [REFRESH_FROM, REFRESH_TO): a run's data interval fixes its window.
Window == [l \in Loads |->
            {k \in Keys : EndOf[l] - Lookback <= HourOf[k] /\ HourOf[k] < EndOf[l]}]

MeasurementRows == [key : Keys, raw : Raws, load : Loads]
LocationRows == [load : Loads, location : Locations]

\* The diff the procedure returns: the identities behind each count.
Diffs == [new : SUBSET Keys, changed : SUBSET Keys, absent : SUBSET Keys]
NoDiff == [new |-> {}, changed |-> {}, absent |-> {}]
BronzeChanged(diff) == diff # NoDiff

Idle == [step |-> "idle"]
OpenSteps == {"check", "diff", "rewrite", "snapshot", "commit"}
ClosedSteps == {"returned", "raised"}
Calls == [step : OpenSteps \cup ClosedSteps, load : Loads, diff : Diffs,
          measurements : SUBSET MeasurementRows, snapshots : SUBSET LocationRows]

TablesTypeOK ==
    /\ measurements \subseteq MeasurementRows
    /\ snapshots \subseteq LocationRows
    /\ staging \subseteq MeasurementRows
    /\ locationStaging \subseteq LocationRows
    /\ tx \in Calls \cup {Idle}

BronzeInit ==
    /\ measurements = {}
    /\ snapshots = {}
    /\ staging = {}
    /\ locationStaging = {}
    /\ tx = Idle

-----------------------------------------------------------------------------
(* stage_measurements, stage_locations *)

DeleteStagedMeasurements(l) ==
    /\ staging' = NotOf(staging, l)
    /\ UNCHANGED <<tables, locationStaging, tx>>

InsertStagedMeasurements(l, content) ==
    /\ staging' = staging \cup Stamped(content, l)
    /\ UNCHANGED <<tables, locationStaging, tx>>

DeleteStagedLocations(l) ==
    /\ locationStaging' = NotOf(locationStaging, l)
    /\ UNCHANGED <<tables, staging, tx>>

InsertStagedLocations(l, locations) ==
    /\ locationStaging' =
         locationStaging \cup {[load |-> l, location |-> loc] : loc \in locations}
    /\ UNCHANGED <<tables, staging, tx>>

-----------------------------------------------------------------------------
(* REFRESH_STAGED_MEASUREMENTS *)

\* Mutant: WHERE LOAD_ID = :LOAD_ID is missing.
StagedByAnyLoad(l) == Within(staging, Window[l])

\* WHERE LOAD_ID = :LOAD_ID AND the period starts in [REFRESH_FROM, REFRESH_TO)
Staged(l) == Within(Of(staging, l), Window[l])

\* Mutant: corrections of a payload already in bronze go unnoticed.
DiffOfKeys(staged, bronze) ==
    [new     |-> KeysOf(staged) \ KeysOf(bronze),
     changed |-> {},
     absent  |-> KeysOf(bronze) \ KeysOf(staged)]

\* The full outer join of staged and bronze rows.
Diff(staged, bronze) ==
    [new     |-> KeysOf(staged) \ KeysOf(bronze),
     changed |-> {k \in Keys : \E s \in staged, b \in bronze :
                                  s.key = k /\ b.key = k /\ s.raw # b.raw},
     absent  |-> KeysOf(bronze) \ KeysOf(staged)]

\* Mutant: the staged rows are inserted on top of the window's old ones.
Inserted(rows, l) == rows \cup Stamped(Staged(l), l)

\* DELETE the window, INSERT the staged rows under the calling load.
Replaced(rows, l) == Outside(rows, Window[l]) \cup Stamped(Staged(l), l)

\* DELETE the load's snapshot, INSERT its staged locations.
Resnapped(rows, l) == NotOf(rows, l) \cup Of(locationStaging, l)

\* CALL; BEGIN TRANSACTION
Begin(l) ==
    /\ tx = Idle
    /\ tx' = [step |-> "check", load |-> l, diff |-> NoDiff,
              measurements |-> measurements, snapshots |-> snapshots]
    /\ UNCHANGED <<tables, staging, locationStaging>>

\* ROLLBACK; RAISE
Rollback ==
    /\ tx' = [tx EXCEPT !.step = "raised", !.diff = NoDiff,
                        !.measurements = {}, !.snapshots = {}]
    /\ UNCHANGED <<tables, staging, locationStaging>>

\* Mutant: only the Python check looks for duplicates.
CheckNothing ==
    /\ tx.step = "check"
    /\ tx' = [tx EXCEPT !.step = "diff"]
    /\ UNCHANGED <<tables, staging, locationStaging>>

\* IF (duplicate_staged_measurement_count > 0) THEN RAISE
CheckDuplicates ==
    /\ tx.step = "check"
    /\ \/ /\ UniqueKeys(Staged(tx.load))
          /\ tx' = [tx EXCEPT !.step = "diff"]
          /\ UNCHANGED <<tables, staging, locationStaging>>
       \/ /\ ~UniqueKeys(Staged(tx.load))
          /\ Rollback

ComputeDiff ==
    /\ tx.step = "diff"
    /\ tx' = [tx EXCEPT
                !.step = "rewrite",
                !.diff = Diff(Staged(tx.load),
                              Within(tx.measurements, Window[tx.load]))]
    /\ UNCHANGED <<tables, staging, locationStaging>>

\* Mutant: bronze is rewritten outside the transaction.
RewriteInPlace ==
    /\ tx.step = "rewrite"
    /\ measurements' = IF BronzeChanged(tx.diff)
                       THEN Replaced(measurements, tx.load)
                       ELSE measurements
    /\ tx' = [tx EXCEPT !.step = "snapshot", !.measurements = measurements']
    /\ UNCHANGED <<snapshots, staging, locationStaging>>

\* IF (bronze_changed)
RewriteWindow ==
    /\ tx.step = "rewrite"
    /\ tx' = [tx EXCEPT
                !.step = "snapshot",
                !.measurements = IF BronzeChanged(tx.diff)
                                 THEN Replaced(@, tx.load) ELSE @]
    /\ UNCHANGED <<tables, staging, locationStaging>>

\* The load's snapshot is replaced whether or not bronze changed.
ReplaceSnapshot ==
    /\ tx.step = "snapshot"
    /\ tx' = [tx EXCEPT !.step = "commit",
                        !.snapshots = Resnapped(@, tx.load)]
    /\ UNCHANGED <<tables, staging, locationStaging>>

\* DELETE the load's staged rows; COMMIT; RETURN
Commit ==
    /\ tx.step = "commit"
    /\ measurements' = tx.measurements
    /\ snapshots' = tx.snapshots
    /\ staging' = NotOf(staging, tx.load)
    /\ locationStaging' = NotOf(locationStaging, tx.load)
    /\ tx' = [tx EXCEPT !.step = "returned", !.measurements = {}, !.snapshots = {}]

\* EXCEPTION WHEN OTHER, or the session is lost before COMMIT.
StatementFails == tx.step \in OpenSteps /\ Rollback

Procedure == \/ CheckDuplicates
             \/ ComputeDiff
             \/ RewriteWindow
             \/ ReplaceSnapshot
             \/ Commit
             \/ StatementFails

\* The caller has the result or the error, or is gone.
Finish ==
    /\ tx.step \in ClosedSteps
    /\ tx' = Idle
    /\ UNCHANGED <<tables, staging, locationStaging>>

-----------------------------------------------------------------------------
(* Clients that stage and refresh in any order, but never stage a load     *)
(* while the procedure runs for it: the tasks of a run are sequential.     *)

Contents == {content \in SUBSET [key : Keys, raw : Raws] :
                Cardinality(content) <= MaxStaged}

Stage(l) ==
    /\ tx # Idle => tx.load # l
    /\ \/ DeleteStagedMeasurements(l)
       \/ \E content \in Contents : InsertStagedMeasurements(l, content)
       \/ DeleteStagedLocations(l)
       \/ \E locations \in SUBSET Locations : InsertStagedLocations(l, locations)

BronzeNext ==
    \/ \E l \in Loads : Stage(l) \/ Begin(l)
    \/ Procedure
    \/ Finish

BronzeSpec == BronzeInit /\ [][BronzeNext]_bronzeVars

-----------------------------------------------------------------------------
(* Properties *)

\* However often windows overlap, reload and fail, bronze never holds two
\* rows of one identity although the table has no key.
BronzeUnique == UniqueKeys(measurements)

\* "One Snowflake transaction replaces the bronze window with the staged rows"
\* (ADR-0008): whatever statement fails, readers see the tables move only in
\* whole publications of what one load has staged.
Publishes == INSTANCE BronzePublication WITH Window <- Window
AtomicPublication == Publishes!Spec

\* The counts a commit returns are exactly what it did to the content of the
\* window: no change of bronze goes unreported, and none is reported in vain.
DiffIsWhatHappened ==
    [][Commit =>
        LET before == Within(measurements, Window[tx.load])
            after  == Within(measurements', Window[tx.load])
        IN tx'.diff = [
            new     |-> KeysOf(after) \ KeysOf(before),
            changed |-> {k \in KeysOf(before) \cap KeysOf(after) :
                            Content(Within(after, {k})) # Content(Within(before, {k}))},
            absent  |-> KeysOf(before) \ KeysOf(after)]]_bronzeVars
=============================================================================
