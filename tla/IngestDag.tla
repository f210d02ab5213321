----------------------------- MODULE IngestDag -----------------------------
(***************************************************************************)
(* dags/openaq_ingest.py and the trigger of dags/openaq_transform.py, over *)
(* the tables and the procedure of BronzeRefresh.                          *)
(*                                                                         *)
(* A run has three tasks in a chain: fetch_api_and_stage and               *)
(* refresh_bronze (retries=0), record_summary_and_emit_asset (retries=1).  *)
(* One run is active at a time and one task of it; a task may fail at any  *)
(* of its steps, its worker lost or its call in error.  A procedure call   *)
(* whose caller is lost still commits or rolls back on its own before the  *)
(* DAG goes on.  The operator may clear a task of an ended run, which runs *)
(* it and the tasks after it again.  What the API returns is any batch.    *)
(***************************************************************************)
EXTENDS BronzeRefresh

CONSTANTS
    MaxFailures,  \* bound: failures of a task attempt
    MaxClears,    \* bound: runs the operator clears
    Clearable     \* the tasks the operator clears from

TaskNames == {"fetch", "refresh", "record"}

\* Mutant: DEFAULT_ARGS apply to every task, no retries=0.
AttemptsByDefault(t) == 2

\* 1 + retries
Attempts(t) == IF t = "record" THEN 2 ELSE 1

Nothing == [none |-> TRUE]

ASSUME DagAssumption ==
    /\ MaxFailures \in Nat /\ MaxClears \in Nat
    /\ Clearable \subseteq TaskNames
    /\ Nothing \notin Loads

VARIABLES
    hour,       \* the hour whose data interval ended last
    started,    \* runs created by the scheduler (or by hand)
    task,       \* state of each task of each run
    tries,      \* attempts made of each task since it was last cleared
    worker,     \* the task attempt in execution
    batch,      \* what the last collection of each run returned
    diffs,      \* XCom of refresh_bronze
    summary,    \* LOAD_SUMMARY
    events,     \* asset events no transform run has consumed, by load
    transform,  \* state of openaq_transform
    published,  \* history: batch and effect of each load's last commit
    last,       \* history: the load that committed last
    failures, clears

dagVars == <<hour, started, task, tries, worker, batch, diffs, summary, events,
             transform, published, last, failures, clears>>
vars == <<bronzeVars, dagVars>>

Free == [task |-> "none"]
Batches == [content : Contents, locations : SUBSET Locations]

\* What the pipeline's own tasks can collect for l: period starts inside the
\* window; one identity twice only in two textual forms.
Collectable(l) ==
    {b \in Batches : \A r \in b.content : r.key \in Window[l]}

WorkerSteps == {"collect", "deleteLocations", "insertLocations",
                "deleteMeasurements", "insertMeasurements", "return",
                "call", "wait", "merge"}

TypeOK ==
    /\ TablesTypeOK
    /\ hour \in Int
    /\ started \subseteq Loads
    /\ task \in [Loads -> [TaskNames -> {"none", "running", "success", "failed"}]]
    /\ tries \in [Loads -> [TaskNames -> 0..2]]
    /\ worker \in [load : Loads, task : TaskNames, step : WorkerSteps] \cup {Free}
    /\ batch \in [Loads -> Batches \cup {Nothing}]
    /\ diffs \in [Loads -> Diffs]
    /\ summary \subseteq [load : Loads, diff : Diffs]
    /\ events \subseteq Loads
    /\ transform \in {"idle", "running"}
    /\ published \in [Loads -> [batch : Batches, diff : Diffs] \cup {Nothing}]
    /\ last \in Loads \cup {Nothing}
    /\ failures \in 0..MaxFailures
    /\ clears \in 0..MaxClears

\* The first hour is that of the earliest run.
Init ==
    /\ BronzeInit
    /\ hour \in {EndOf[l] : l \in Loads}
    /\ \A l \in Loads : hour <= EndOf[l]
    /\ started = {}
    /\ task = [l \in Loads |-> [t \in TaskNames |-> "none"]]
    /\ tries = [l \in Loads |-> [t \in TaskNames |-> 0]]
    /\ worker = Free
    /\ batch = [l \in Loads |-> Nothing]
    /\ diffs = [l \in Loads |-> NoDiff]
    /\ summary = {}
    /\ events = {}
    /\ transform = "idle"
    /\ published = [l \in Loads |-> Nothing]
    /\ last = Nothing
    /\ failures = 0
    /\ clears = 0

-----------------------------------------------------------------------------
(* The scheduler *)

Ended(l) == task[l]["record"] = "success" \/ \E t \in TaskNames : task[l][t] = "failed"
Active(l) == l \in started /\ ~Ended(l)

\* catchup=False: a run is only created for the interval that ended last;
\* max_active_runs=1.
Start(l) ==
    /\ l \notin started
    /\ EndOf[l] = hour
    /\ \A other \in Loads : ~Active(other)
    /\ started' = started \cup {l}
    /\ UNCHANGED <<bronzeVars, hour, task, tries, worker, batch, diffs, summary, events,
                   transform, published, last, failures, clears>>

HourPasses ==
    /\ \E l \in Loads : hour < EndOf[l]
    /\ hour' = hour + 1
    /\ UNCHANGED <<bronzeVars, started, task, tries, worker, batch, diffs, summary, events,
                   transform, published, last, failures, clears>>

FirstStep(t) == CASE t = "fetch" -> "collect" [] t = "refresh" -> "call" [] t = "record" -> "merge"

Upstream(t) == CASE t = "fetch" -> {} [] t = "refresh" -> {"fetch"} [] t = "record" -> {"refresh"}
Downstream(t) == CASE t = "fetch" -> TaskNames
                   [] t = "refresh" -> {"refresh", "record"}
                   [] t = "record" -> {"record"}

UpstreamDone(l, t) == \A u \in Upstream(t) : task[l][u] = "success"

Launch(l, t) ==
    /\ worker = Free /\ tx = Idle
    /\ Active(l)
    /\ task[l][t] = "none"
    /\ UpstreamDone(l, t)
    /\ worker' = [load |-> l, task |-> t, step |-> FirstStep(t)]
    /\ task' = [task EXCEPT ![l][t] = "running"]
    /\ tries' = [tries EXCEPT ![l][t] = @ + 1]
    /\ UNCHANGED <<bronzeVars, hour, started, batch, diffs, summary, events, transform,
                   published, last, failures, clears>>

\* The operator clears a task of an ended run and those downstream of it.
Clear(l, t) ==
    /\ clears < MaxClears
    /\ worker = Free /\ tx = Idle
    /\ \A other \in Loads : ~Active(other)
    /\ l \in started /\ task[l][t] # "none"
    /\ task' = [task EXCEPT ![l] = [u \in TaskNames |->
                    IF u \in Downstream(t) THEN "none" ELSE @[u]]]
    /\ tries' = [tries EXCEPT ![l] = [u \in TaskNames |->
                    IF u \in Downstream(t) THEN 0 ELSE @[u]]]
    /\ clears' = clears + 1
    /\ UNCHANGED <<bronzeVars, hour, started, worker, batch, diffs, summary, events,
                   transform, published, last, failures>>

\* A task attempt fails; it is tried again while its retries last.
AttemptFails ==
    /\ worker # Free
    /\ worker' = Free
    /\ task' = [task EXCEPT ![worker.load][worker.task] =
                    IF tries[worker.load][worker.task] < Attempts(worker.task)
                    THEN "none" ELSE "failed"]

WorkerLost ==
    /\ failures < MaxFailures
    /\ AttemptFails
    /\ failures' = failures + 1
    /\ UNCHANGED <<bronzeVars, hour, started, tries, batch, diffs, summary, events,
                   transform, published, last, clears>>

Running(t, step) == worker # Free /\ worker.task = t /\ worker.step = step
GoTo(step) == worker' = [worker EXCEPT !.step = step]
Succeed == /\ worker' = Free
           /\ task' = [task EXCEPT ![worker.load][worker.task] = "success"]

-----------------------------------------------------------------------------
(* fetch_api_and_stage *)

Collect(b) ==
    /\ Running("fetch", "collect")
    /\ b \in Collectable(worker.load)
    /\ batch' = [batch EXCEPT ![worker.load] = b]
    /\ GoTo("deleteLocations")
    /\ UNCHANGED <<bronzeVars, hour, started, task, tries, diffs, summary, events,
                   transform, published, last, failures, clears>>

StageStep(from, to, Statement) ==
    /\ Running("fetch", from)
    /\ Statement
    /\ GoTo(to)
    /\ UNCHANGED <<hour, started, task, tries, batch, diffs, summary, events,
                   transform, published, last, failures, clears>>

StageLocations ==
    \/ StageStep("deleteLocations", "insertLocations", DeleteStagedLocations(worker.load))
    \/ StageStep("insertLocations", "deleteMeasurements",
                 InsertStagedLocations(worker.load, batch[worker.load].locations))

StageMeasurements ==
    \/ StageStep("deleteMeasurements", "insertMeasurements",
                 DeleteStagedMeasurements(worker.load))
    \/ StageStep("insertMeasurements", "return",
                 InsertStagedMeasurements(worker.load, batch[worker.load].content))

FetchReturns ==
    /\ Running("fetch", "return")
    /\ Succeed
    /\ UNCHANGED <<bronzeVars, hour, started, tries, batch, diffs, summary, events,
                   transform, published, last, failures, clears>>

-----------------------------------------------------------------------------
(* refresh_bronze *)

CallProcedure ==
    /\ Running("refresh", "call")
    /\ Begin(worker.load)
    /\ GoTo("wait")
    /\ UNCHANGED <<hour, started, task, tries, batch, diffs, summary, events, transform,
                   published, last, failures, clears>>

ProcedureStep ==
    /\ CheckDuplicates \/ ComputeDiff \/ RewriteWindow \/ ReplaceSnapshot
    /\ UNCHANGED dagVars

ProcedureFails ==
    /\ failures < MaxFailures
    /\ StatementFails
    /\ failures' = failures + 1
    /\ UNCHANGED <<hour, started, task, tries, worker, batch, diffs, summary, events,
                   transform, published, last, clears>>

\* COMMIT; the history records what it did.
ProcedureCommits ==
    /\ Commit
    /\ published' = [published EXCEPT ![tx.load] =
            [batch |-> batch[tx.load],
             diff |-> Diff(Within(measurements', Window[tx.load]),
                           Within(measurements, Window[tx.load]))]]
    /\ last' = tx.load
    /\ UNCHANGED <<hour, started, task, tries, worker, batch, diffs, summary, events,
                   transform, failures, clears>>

\* fetchone() returns the row: the result becomes the task's XCom.
RefreshReturns ==
    /\ Running("refresh", "wait")
    /\ tx.step = "returned"
    /\ Finish
    /\ Succeed
    /\ diffs' = [diffs EXCEPT ![worker.load] = tx.diff]
    /\ UNCHANGED <<hour, started, tries, batch, summary, events, transform, published,
                   last, failures, clears>>

\* Mutant: refresh_bronze calls again instead of raising.
RefreshCallsAgain ==
    /\ Running("refresh", "wait")
    /\ tx.step = "raised"
    /\ Finish
    /\ GoTo("call")
    /\ UNCHANGED <<hour, started, task, tries, batch, diffs, summary, events, transform,
                   published, last, failures, clears>>

RefreshRaises ==
    /\ Running("refresh", "wait")
    /\ tx.step = "raised"
    /\ Finish
    /\ AttemptFails
    /\ UNCHANGED <<hour, started, tries, batch, diffs, summary, events, transform,
                   published, last, failures, clears>>

\* A call whose caller is lost ends with nobody to read its result.
OrphanEnds ==
    /\ worker = Free
    /\ tx # Idle
    /\ Finish
    /\ UNCHANGED dagVars

-----------------------------------------------------------------------------
(* record_summary_and_emit_asset *)

\* Mutant: INSERT instead of MERGE.
SummaryInserted(l) == summary \cup {[load |-> l, diff |-> diffs[l]]}

\* MERGE ... ON LOAD_ID
SummaryMerged(l) == NotOf(summary, l) \cup {[load |-> l, diff |-> diffs[l]]}

\* Mutant: the event goes out first, then the MERGE.
RecordSummaryAfterEvent ==
    \/ /\ Running("record", "merge")
       /\ events' = events \cup {worker.load}
       /\ GoTo("mergeLate")
       /\ UNCHANGED <<bronzeVars, hour, started, task, tries, batch, diffs, summary, transform,
                      published, last, failures, clears>>
    \/ /\ Running("record", "mergeLate")
       /\ summary' = SummaryMerged(worker.load)
       /\ GoTo("return")
       /\ UNCHANGED <<bronzeVars, hour, started, task, tries, batch, diffs, events, transform,
                      published, last, failures, clears>>

RecordSummary ==
    /\ Running("record", "merge")
    /\ summary' = SummaryMerged(worker.load)
    /\ GoTo("return")
    /\ UNCHANGED <<bronzeVars, hour, started, task, tries, batch, diffs, events, transform,
                   published, last, failures, clears>>

\* Airflow emits the event of the outlet when the task succeeds.
RecordReturns ==
    /\ Running("record", "return")
    /\ Succeed
    /\ events' = events \cup {worker.load}
    /\ UNCHANGED <<bronzeVars, hour, started, tries, batch, diffs, summary, transform,
                   published, last, failures, clears>>

-----------------------------------------------------------------------------
(* openaq_transform: schedule=[BRONZE_DATASET_ASSET], max_active_runs=1 *)

TransformStarts ==
    /\ transform = "idle"
    /\ events # {}
    /\ transform' = "running"
    /\ events' = {}
    /\ UNCHANGED <<bronzeVars, hour, started, task, tries, worker, batch, diffs, summary,
                   published, last, failures, clears>>

\* The run ends, whether its dbt tasks passed or not.
TransformEnds ==
    /\ transform = "running"
    /\ transform' = "idle"
    /\ UNCHANGED <<bronzeVars, hour, started, task, tries, worker, batch, diffs, summary,
                   events, published, last, failures, clears>>

-----------------------------------------------------------------------------

Scheduler ==
    \/ HourPasses
    \/ \E l \in Loads : Start(l)
    \/ \E l \in Loads, t \in Clearable : Clear(l, t)

Execution ==
    \/ \E l \in Loads, t \in TaskNames : Launch(l, t)
    \/ \E b \in Batches : Collect(b)
    \/ StageLocations \/ StageMeasurements \/ FetchReturns
    \/ CallProcedure \/ ProcedureStep \/ ProcedureCommits
    \/ RefreshReturns \/ RefreshRaises \/ OrphanEnds
    \/ RecordSummary \/ RecordReturns

Next == Scheduler \/ Execution \/ WorkerLost \/ ProcedureFails \/ TransformStarts \/ TransformEnds

Spec == Init /\ [][Next]_vars

\* Airflow runs what it has scheduled and every call is answered in the end: no
\* task has an execution_timeout, so a call that hangs is assumed away here.
\* Nobody has to start or clear a run.
FairSpec == Spec /\ WF_vars(Execution)

-----------------------------------------------------------------------------
(* Properties *)

\* Readers of bronze see, in the window refreshed last, exactly the batch its
\* load collected, and for every load that published the locations it
\* collected: nothing left over by another load, a failed attempt, a rolled
\* back procedure or a lost answer ever shows.
PublishedAsCollected ==
    /\ last # Nothing =>
        Content(Within(measurements, Window[last])) = published[last].batch.content
    /\ \A l \in Loads :
        {s.location : s \in Of(snapshots, l)} =
            IF published[l] = Nothing THEN {} ELSE published[l].batch.locations

\* A run that succeeded has one durable summary, and it tells what its last
\* commit did to bronze, however often its tasks were retried or cleared.
SummaryTruthful ==
    \A l \in Loads : task[l]["record"] = "success" =>
        /\ published[l] # Nothing
        /\ Of(summary, l) = {[load |-> l, diff |-> published[l].diff]}

\* The transform is only triggered by publications: a pending asset event
\* stands for a load whose publication and summary are durable.
EventsAreDurable ==
    \A l \in events : published[l] # Nothing /\ Of(summary, l) # {}

\* "Re-running a measurement window is idempotent" (ADR-0008): a load that
\* refreshes again what it collected, with no other load in between, leaves
\* what readers see as it is.
RerunIsIdempotent ==
    [][Commit /\ last = tx.load /\ published[last].batch = batch[last]
        => Content(measurements') = Content(measurements) /\ snapshots' = snapshots]_vars

\* Unless a call hangs, every run ends, and with it the wait of the next one
\* (max_active_runs=1): neither lost workers nor a batch that the procedure
\* rejects whenever it is called keep a run going.
RunsEnd == \A l \in Loads : Active(l) ~> ~Active(l)
=============================================================================
