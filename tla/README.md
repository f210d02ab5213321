# TLA+ models of the OpenAQ bronze ingestion

This directory holds TLA+ models of the pipeline in this repository, TLC
configurations that check them on small instances, and theorems about them with
proofs for TLAPS. Paths below are relative to the repository; `src/` stands for
its root.

## 1. Inventory of the system

| Component | Code | State it keeps | Operations | Talks to |
|---|---|---|---|---|
| Rate limiter | `include/openaq/ratelimit.py` | one deque of time stamps per window, a lock | `acquire` | the threads of one process, through the lock |
| Request loop | `include/openaq/client.py` `_request`, `_decode`, `_backoff_delay`, `_parse_retry_after`; `errors.py` | attempt, last error | one logical request | limiter (a permit per GET), OpenAQ |
| Page walk | `client.py` `_paginate`, `_extract_results` | page, records, keys seen, previous page, duplicate count | one page at a time | request loop |
| Collection | `include/openaq/ingest.py` | locations, staged rows, three counters | discovery, one request per sensor, identity check | client |
| Staging | `include/openaq/refresh_bronze.py` | two staging tables shared by all loads | DELETE, then INSERT, per table, in autocommit mode | Snowflake |
| Refresh procedure | `include/sql/bootstrap/04_bronze_tables.sql` | a Snowflake transaction | duplicate check, diff, window rewrite, snapshot, clean-up, COMMIT or ROLLBACK | bronze tables |
| Ingest DAG | `dags/openaq_ingest.py` | run and task states, XCom, `LOAD_SUMMARY`, asset events | three chained tasks, retries, clears | all of the above |
| Transform DAG | `dags/openaq_transform.py` | its active run | starts on asset events, runs dbt | asset events, bronze |
| Source audit | `dags/openaq_audit.py`, `include/openaq/audit.py` | results in memory, `SENSOR_AUDIT_RESULTS` | discovers the sensors of all providers, asks each, inserts all results | client with a limiter of its own |
| API key | shared by every task attempt | the count OpenAQ keeps per key | one request at a time from each attempt | the limiters, one per attempt |
| Bootstrap and roles | `include/sql/bootstrap/*.sql`, `include/sql/tests/` | Snowflake objects and grants | run by hand | pipeline role |
| dbt project | `dbt/openaq` | staging views | projections and `not_null` tests | bronze |
| CI | `.github/workflows/ci.yml` | schema `OPENAQ.CI` | seeds sources, builds dbt | Snowflake |
| Diagnostics | `include/openaq/spike.py`, `dags/_healthcheck.py`, `dags/_snowflake_smoke.py` | none | one-off I/O | |

What makes each of them correct, and what is hard about it:

- *Limiter.* Never more than `max_requests` in any span of a window, for any
  interleaving of threads; a caller sleeps only when it must and long enough,
  and gets its slot in the end. Hard: the lock is released during the sleep and
  the clock moves inside the critical section.
- *Request.* A payload is never thrown away, a permanent error never asked
  again, every GET paced, a server's hint obeyed up to the cap. Hard: the ways
  out of one loop, two kinds of hint value in two headers.
- *Page walk.* Exact over a data set that stands still; what changes between
  two requests may repeat records but only a removal hides one; a server that
  does not advance is found out.
- *Collection.* An accepted batch is the half-open window, complete for every
  sensor that answered, without repeated identities.
- *Staging and refresh.* Readers see bronze move only in whole publications of
  one load; no identity twice in a table without a key; the counts returned are
  what happened. Hard: staging is not transactional and shared, windows overlap,
  any statement may fail, and the caller may be gone when the call commits.
- *DAG.* Through lost workers, retries and cleared tasks: readers see what the
  load refreshed last collected, a summary tells what its load did, an asset
  event stands for durable data, every run ends unless a call hangs.
- *Shared key.* What limiters that know nothing of each other give for the key:
  so many requests a span from every attempt, a refusal only when a window is full and
  a rival or a late request is among those that fill it, and a pause as told that
  suffices unless a rival uses it. Hard:
  each attempt starts with an empty limiter, requests are on the way for a
  while, and the hint may be missing, inexact or beyond the cap.
- *Audit.* What is stored is a whole audit, each result what its own sensor
  answered, and a repeated result has a known reason. Hard: single sensors fail,
  the process may be lost after hours of requests, rows are only ever added, and
  times are sorted as texts but stored as instants.

The hazards, each with its line and the properties that cover it, are listed in
`PROJECT.json`; those without a property say why.

## 2. Modules

```
OpenAQRequest .. Pagination .. IngestCollect, SourceAudit    (the client side:
                                    a request, then a walk, is one step of the next)

Pacing   <-- SharedKey           (several limiters, by what each promises)
   ^ refinement
RateLimiter

BronzeRows  <-- BronzePublication          (what a refresh promises)
    ^                ^ refinement
    +------- BronzeRefresh  <-- IngestDag  (EXTENDS)

SensorSelection  <-- IngestCollect, SourceAudit

RateLimiterProofs, SharedKeyProofs, OpenAQRequestProofs, PaginationProofs,
IngestDagProofs (the refresh, then the DAG),
SensorSelectionProofs  <-- IngestCollectProofs, SourceAuditProofs
```

| Module | Models | How state and actions correspond |
|---|---|---|
| `RateLimiter` | `SlidingWindowLimiter` | `logs` is `_logs`, `lock` is `_lock`; `Call`/`Lock`/`PopLeft`/`Grant`/`Sleep`/`Wake` are the points of `acquire` and `_longest_wait` where another thread or the clock can come between |
| `Pacing` | the promise of a limiter | `Grant(at)`: a slot in time order, not before its time, and not into a full window |
| `SharedKey` | task attempts with a client each, and the server's count per key | `Begin` builds the client; `Acquire`, `Answered`, `Refused` and `Fails` (which `BacksOff` or `GivesUp`) and `WakesUp` are one round of `_request`; `Ends` loses the limiter |
| `OpenAQRequest` | one `_request` | `Acquire`, `Get(r)` with the class `_decode` gives the answer, `GiveUp`, `Retry` with the pause of `_backoff_delay` |
| `Pagination` | one `_paginate` | `EmptyPage`, `IdenticalPage`, `NewPage`, `RequestFails`; `Added` and `Removed` change the data set between requests |
| `IngestCollect` | `collect_ingest_batch` | `Discover`, `TakeRows`, `SkipSensor`, `SensorFails`, `BadMeasurement`, `RejectDuplicateIdentities` |
| `SensorSelection` | `sensors_from_location`, `filter_sensors_by_parameter` | `Keeping` is a list comprehension with a condition |
| `SourceAudit` | `openaq_audit`, `parse_audit_window`, `audit_sensors` | `ParseWindow`, `Discover`, `Measured`, `Erred`, `Insert`, `Return`; `Fails` anywhere, `Clear` by the operator; `stored` is `SENSOR_AUDIT_RESULTS`, kept apart by the attempt that inserted the rows |
| `BronzeRows` | helpers on sets of rows | used by the three below |
| `BronzeRefresh` | staging statements and the stored procedure | one action per staging statement; the procedure is `Begin`, `CheckDuplicates`, `ComputeDiff`, `RewriteWindow`, `ReplaceSnapshot`, `Commit`, with `StatementFails` possible before each; `tx` holds its private copy of the tables |
| `BronzePublication` | the promise of ADR-0008 | `Stage(l)` and one atomic `Publish(l)` |
| `IngestDag` | both DAGs over `BronzeRefresh` | `Launch`, the steps of the three tasks, `WorkerLost`, `ProcedureFails`, `OrphanEnds`, `Clear`, `TransformStarts`; `diffs` is the XCom, `summary` is `LOAD_SUMMARY`, `events` the asset events not consumed |

Operators whose comment begins with *Mutant:* are wrong variants of the
definition after them. Each stands for a plausible bug, is used by no
specification, and is substituted for the real definition to confirm that a
property notices (`mutants` in `PROJECT.json`).

### Modelling decisions

- *Limiter.* Time is discrete. The deque is pruned one `popleft` at a time. A
  slot is stamped when it is reserved, as in the code; what the network adds
  between reservation and GET is not part of it. The slept time `acquire`
  returns is left out.
- *Request.* A GET takes no time, so that "the moment the server named" is
  measured from the answer. Header values of 0 stand for one that is absent or
  not a positive number. Values at or above `_EPOCH_THRESHOLD` are time stamps.
- *Page walk.* Records are model numbers with an identity that two of them may
  share and some lack. `"results": null` is an empty page, as
  `_extract_results` reads it; such a walk is only held to a prefix of the data set.
- *Shared key.* The limiters are `Pacing`, which `RateLimiter` implements, and a
  lone caller of one gets the present instant. The server counts the requests it
  accepts, per key, and refuses one while a window is full. What it names with a
  refusal is not documented beyond "a timestamp", so the hint is any of `Hints`
  or none; only `RefusedAgainOnlyByRivals` asks whether a hint was good. With a
  hint the pause is the hint or the cap, without one any time up to the ceiling of the
  exponential back-off. A 5xx, a body that is not JSON and a transport error
  (`Fails`) are retried by the same loop with the same count of attempts and
  back off in the same way; the request of a transport error may or may not have
  arrived. A request takes at most `MaxDelay` to arrive and
  its answer is read on arrival; one whose sender is lost has arrived before or
  never does. An ingest fails on a refusal it gives up on, an audit notes an
  error and goes on; a failure it gives up on costs either of them a sensor, or
  the task (`Ends`). Ingests exclude each other (`max_active_runs=1`, one fetch
  per run); nothing keeps audits apart from them. An arrival carries `nth`, the
  number of its slot with its limiter: history that no guard reads and that only
  the proofs need, since `slots` is gone when the attempt ends.
- *Audit.* A record without its ID is one whose ID is `Missing`; any other
  malformed record is a case of `Fails`. A measurement time is the UTC text the
  API wrote, represented by its rank in the order of texts, by which `sorted`
  goes; `InstantOf` gives the instant it names, which is what the `TIMESTAMP_TZ`
  columns keep (`AsTimestamp`). The two orders differ for texts of mixed form:
  "00:00:00.5Z" sorts before "00:00:00Z". `executemany` with
  `INSERT ... VALUES` is one multi-row statement, which the connection commits by itself
  (autocommit), so `connection.commit()` finds nothing to do.
- *Rows are sets.* Two staged rows of one identity differ at least in the text
  of the period start (the Python check rejects equal texts), so in their
  payload; sets lose nothing. A count the procedure returns is represented by
  the set of identities it counts, which is stronger. `SNAPSHOT_AT` and
  `oldest_new_measurement_at` follow from the window and the diff and are left out.
- *The transaction.* `tx` works on a private copy that `Commit` installs.
  Procedure calls are serialised: `max_active_runs=1` with sequential tasks.
  A call whose caller was lost runs on by itself, to commit or roll back, and the
  model has it end before the next task is launched: the isolation of
  overlapping calls is Snowflake's, and nothing in this repository settles it.
- *DAG.* What `fetch_api_and_stage` collects is any batch inside the window
  (`Collectable`), which over-approximates `IngestCollect`. The checks
  `refresh_bronze` and the record task make of the load ID in an XCom compare
  values the pipeline wrote itself and always pass; they are not modelled. One
  transform run is active at a time and takes all pending events together.
  Its dbt tasks are one step. That every event is taken in the end is Airflow's
  doing alone and no property states it.

## 3. Runs

| Run | Instance | What it shows |
|---|---|---|
| `limiter` | 2 threads, 3 calls each, windows 2 per 2 s and 3 per 5 s, 6 instants, fairness | `WindowBound`, `ImplementsPacing` (refinement), `SleepsOnlyWhenFull`, `SleepSuffices`, `EveryCallReturns` |
| `request` | 3 attempts, every class of answer, every pair of hints out of none, near, beyond the cap, and a time stamp about to pass | `FirstDecisiveAnswerWins`, `EveryGetIsPaced`, `RetriesWhenAsked` |
| `pagination` | up to 5 records, pages of 2, 3 pages, 2 changes anywhere, an honest or a stuck server | `StillDatasetIsExact`, `MissesOnlyAfterRemoval`, `DuplicatesAreCounted`, `StuckServerIsReported` |
| `collect` | up to 3 discovered locations out of 3 kinds (repeats allowed), up to 2 rows an answer, texts inside, at the end of, and outside what can be parsed | `BatchIsTheWindow`, `SensorsAsked` |
| `collect_repeat` | the same, 2 locations | expected violation, see findings |
| `refresh` | 2 loads with overlapping windows, 2 identities (one in both windows), 2 payloads, 1 location | `BronzeUnique`, `AtomicPublication` (refinement), `DiffIsWhatHappened` |
| `ingest` | the same tables under two hourly runs, 1 failure, 1 clear of the fetch or the record task | `PublishedAsCollected`, `EventsAreDurable`, `SummaryTruthful`, `RerunIsIdempotent` |
| `ingest_rerun` | the same, clearing `refresh_bronze` | expected violation, see findings |
| `ingest_live` | 1 identity with 2 payloads (a batch may repeat it), no locations, 2 failures, any task cleared, fairness | `RunsEnd` |
| `shared` | 2 ingests and 1 audit, windows 1 per 2 s and 2 per 5 s, 2 attempts a request, delay up to 1 s, hints of 2 s, 3 s or none, cap 2 s, 5 instants | `KeyBound`, `RefusalsExplained`, `RefusedAgainOnlyByRivals` |
| `shared_limit` | 2 ingests, no delay | expected violation, see findings |
| `audit` | up to 2 of 3 locations (with a foreign parameter, a sensor and a location without an ID, repeats allowed), 4 answers (one whose texts sort as their instants do, one whose texts do not), 3 parameter texts (one without an offset), 1 clear | `WholeAudits`, `ResultsTrue`, `RepeatsExplained` |

Why the bounds are enough to mean something. Two windows of different
capacity and span make one full while the other is not; three calls of two
threads fill both and pass their ends. Three senders on one key give a
predecessor, a successor and one beside them; the delay of 1 s is shorter than
both windows, so `KeyBound` speaks of both, and long enough for a request to
arrive out of its span; the hints lie on both sides of the cap of 2 s, and with
none a pause may be too short. Three attempts give a first, a middle
and a last one. Three pages of two give full, short, empty and surplus pages,
and two changes shift a record either way across a boundary, or back. Two
loads whose windows share one identity and differ in another have every
relation the procedure's predicates can tell apart (inside both, inside one,
own and foreign load ID), and two payloads tell new, changed and unchanged
apart. One failure can fall at every step of every task, including between
COMMIT and the answer; the clear adds a second attempt after success or
failure. `MaxStaged = 2` lets one identity be staged twice with two payloads. The
payloads are interchangeable, as are the ingests of `shared`, and symmetry is
used only in runs without liveness. Deadlock is checked where the system cannot stop
(`refresh`, with its staging clients) and not where it ends: requests, walks,
collections and audits return, calls, instants and hours are bounded.

### Fairness

- `RateLimiter!FairSpec`: time passes and each thread inside `acquire` is
  scheduled (weak fairness). Weak fairness is enough for the lock because each
  thread makes finitely many calls; nothing obliges a thread to call.
- `IngestDag!FairSpec`: weak fairness of `Execution`, that is Airflow launches
  tasks that are ready and a running task goes on. This assumes that every
  call is answered, for better or worse: no task has an `execution_timeout`, and a
  Snowflake call that hung would hold its run, and with `max_active_runs=1` all
  later ones. No fairness for failures, for clears, for the clock or for the
  creation of runs: a run must end whatever these do, also when the procedure
  rejects its batch at every call.

### Findings

1. `ingest_rerun`: ADR-0008 says "Re-running a measurement window is idempotent
   and its replacement is atomic." The procedure deletes the load's staged rows
   before COMMIT. When the answer of a committed call is lost, the task fails and,
   when an operator clears just `refresh_bronze`, the second call finds nothing
   staged, takes the whole window for absent, and deletes it and the load's
   snapshot. Clearing from `fetch_api_and_stage` is idempotent (`ingest`).
2. `collect_repeat`: ADR-0008 says "Bronze does not reject a repeated location
   identity." A location that discovery returns twice has its sensors asked
   twice; the answers repeat each other's identities, the batch is rejected, and since locations
   are staged after the collection, they are not stored either.
3. `shared_limit`: `docs/PRD.md` says "Ingestion stays within the OpenAQ request
   limit." Each attempt of the fetch starts with an empty limiter, the API counts
   per key: an ingest that starts within a span of another's last requests (a run that
   was late, or one cleared at once) sends its `max_requests` on top. What does
   hold is `KeyBound`: `max_requests` times the attempts that sent in the
   span, less the time a request may be on its way.
   `client.py` expects this ("signals another process sharing the key").

Smaller observations that no run states:

- ADR-0008 says that dbt tests `(LOAD_ID, LOCATION_ID)` for uniqueness;
  `staging.yml` has only `not_null` tests.
- `README.md` says that the audit stores one result per sensor. There are two
  after a clear of a task that had inserted, or when discovery lists a location
  twice; `RepeatsExplained` says that there is no third reason.
- A pause is cut at `backoff_cap`, so a hint from the hourly window can use up
  the attempts of a request, and so can pauses without a hint, which are random;
  `RefusedAgainOnlyByRivals` has to except both.
- `audit.py` sorts measurement times as texts. If the API mixed forms of one
  instant, the oldest and newest times stored could be neither; `ResultsTrue`
  promises the bounds only where the order of texts is that of instants.

## 4. Proofs

All proofs are checked by TLAPS for every value of the constants, under the
assumptions the modules name and no others. These say:

- `WindowAssumption` (limiter, shared key): capacities and spans are positive,
  as `Window.__post_init__` demands. `BoundAssumption`, `SharedAssumption`,
  `DagAssumption`, `BronzeAssumption`: bounds are numbers, hours are integers,
  hints are positive (`_parse_retry_after` returns no other), ingests are not audits,
  `Clearable` names tasks. `NobodyAssumption` and the
  `Nothing \notin Loads` of `DagAssumption`: a marker is not a thread or a load.
- `RequestAssumption`: `max_attempts >= 1` (the constructor checks it), and
  header values are integers.
- `PaginationAssumption`: page size and page limit are positive (the
  constructor checks them), and every record has an entry in `IdentityOf`.
- `CollectAssumption`, `AuditAssumption`: the sensors of a location and the
  measurements of an answer are finite lists, measurement times (texts, by
  their rank) and the instants they name are integers, and the markers `"server error"` and `NoTime` are not among the data.

| Module | Theorem | Says |
|---|---|---|
| `RateLimiterProofs` | `TypeCorrect`, `WindowNeverExceeded`, `PacesOnlyWhenFull` | `Spec` implies `[]TypeOK`, `[]WindowBound`, `SleepsOnlyWhenFull` |
| | `OneSleepSuffices` | `Spec` implies `SleepSuffices` |
| | `LimiterImplementsPacing` | `Spec` implements `Pacing` |
| `SharedKeyProofs` | `KeyTyped`, `KeyBoundHolds` | `[]TypeOK`, `[]KeyBound` |
| | `RefusalsAreExplained`, `WaitingAsToldIsEnough` | `[]RefusalsExplained`, `[]RefusedAgainOnlyByRivals` |
| `OpenAQRequestProofs` | `RequestTyped`, `DecisiveAnswerWins`, `PermitsMatchGets` | `[]TypeOK`, `[]FirstDecisiveAnswerWins`, `[]EveryGetIsPaced` |
| | `HintsAreKept` | the action property `RetriesWhenAsked` |
| `PaginationProofs` | `WalkTyped`, `StillWalksAreExact`, `AdditionsHideNothing` | `[]TypeOK`, `[]StillDatasetIsExact`, `[]MissesOnlyAfterRemoval` |
| | `DuplicateCountIsExact`, `StuckServersAreReported` | `[]DuplicatesAreCounted`, `[]StuckServerIsReported` |
| `IngestCollectProofs` | `CollectionTyped`, `BatchesAreTheWindow`, `EverySensorIsAsked` | `[]TypeOK`, `[]BatchIsTheWindow`, `[]SensorsAsked` |
| `SourceAuditProofs` | `AuditTyped`, `AuditsAreWhole` | `[]TypeOK`, `[]WholeAudits` |
| | `AuditResultsAreTrue`, `RepeatsAreExplained` | `[]ResultsTrue`, `[]RepeatsExplained` |
| `IngestDagProofs` | `TablesTyped`, `BronzeStaysUnique` | `BronzeSpec` implies `[]TablesTypeOK`, `[]BronzeUnique` |
| | `ProcedureIsAtomic` | `BronzeSpec` implements `BronzePublication` |
| | `CountsAreTrue` | `BronzeSpec` implies `DiffIsWhatHappened` |
| | `DagUsesBronze` | the DAG's `Spec` implies `BronzeSpec` |
| | `DagKeepsBronzeUnique`, `DagPublishesAtomically` | hence the results above hold of the DAG |
| | `DagTyped`, `EventsFollowPublication`, `SummariesAreTrue` | `[]TypeOK`, `[]EventsAreDurable`, `[]SummaryTruthful` |
| | `ReadersSeeTheBatch`, `RerunsAreIdempotent` | under `CleanRerun`: `[]PublishedAsCollected`, `RerunIsIdempotent` |

`CleanRerun` is the one hypothesis that is not an assumption of a module: the
operator does not clear `refresh_bronze` by itself. Without it both statements
are false, as the run `ingest_rerun` shows, so it marks exactly how far the
promise of ADR-0008 holds; the run `ingest` is an instance of it.

*Limiter.* `WindowBound` speaks of the history `granted`, which no guard reads.
The inductive invariant says that each log is a suffix of `granted` (each grant
is appended to all), that what was popped is older than the span at some clock
reading not later than now, and that `granted` is sorted and not from the
future, which needs that a thread inside the critical section read the clock
after the last grant. A grant then finds a log shorter than `MaxRequests`, so
the slot `MaxRequests` back is among the popped ones. `PacesOnlyWhenFull`
follows because after pruning the whole log lies inside the span. `OneSleepSuffices`
adds that no log outgrows its window (a pruned full log always asks for a
positive wait) and that, until another slot is granted, the heads of the full
logs leave their windows by `wakeAt`: a log that was popped since is no longer
full, and one that was not has the head that was waited for. The refinement is the
same argument read as a step: `Grant` is a `Pacing!Grant`, whose `Room` is what
the popped slots show; `Tick` maps to `Tick` and all else to a stutter. It is
what lets `SharedKey` stand on `Pacing` instead of on the limiter's inside.

*Shared key.* A limiter vanishes with its attempt, but its requests still count,
so `Pacing`'s promise is moved from the slots to the arrivals while the limiter
lives: every arrival carries the number of its slot, and two arrivals of one
attempt whose numbers are `max_requests` apart have slots a span apart
(`SpacingOK`). A request is under way for at most `MaxDelay`, so in a span less
`MaxDelay` the numbers of an attempt's arrivals lie within `max_requests`;
`KeyBound` follows because sender and number, counted from the sender's first in
the span, place its requests one to one in `max_requests` times the senders. For
`RefusalsExplained` the window that refused holds `max_requests` accepted requests;
were all of them, and none late, of the refused request's own attempt, that many slots
and its own would lie in one span, which the limiter rules out. For
`RefusedAgainOnlyByRivals`, `RetriesOK` follows a hint through the back-off to
the retry, which is sent no earlier than the hint or the cap says, and again through
failures that come in between; if nothing was accepted meanwhile, what fills a window
for the retry already filled it at the end of the hint, where `HintSuffices` says
that it had room.

*Request.* `LoopOK` ties the number of answers to the attempt and the permits, and says that all
answers but the last were transient; `WaitOK` keeps the moment of the last
answer in reach of the clock through the back-off and the wait for a permit.

*Page walk.* A walk in progress has only taken full pages, so it stands at a
known position of the data set (`WalkOK`). Over unchanged data it has a prefix
(`StillOK`). Under additions `KeptOK` says that what was there throughout and
lies before that position has been taken: an addition only moves records
backwards, towards pages still to come or taken twice. The duplicate count needs that the records of
one page are those whose index has one quotient, and that the keys seen are
those of earlier pages.

*Collection.* Each answer adds its rows inside the window to the batch and
nothing else does (`StagedOK`); each target sensor is still to be asked or was
(`AskedOK`). Both rest on what a list comprehension keeps (`SensorSelectionProofs`:
induction over the length of a list, by its least counterexample).

*Audit.* While the loop runs, results, answers and the sensors left make up the
sensors of the discovery one by one, and each result is true of its answer
(`LoopOK`); the one insert makes that a statement about the table, which keeps
it through failures and clears because nothing else touches the rows of an
attempt (`StoredOK`). That the first and the last text exist needs that finite
sets of texts have extremes; the insert turns both into instants (`RowIsTrue`), and
they stay bounds where the order of the texts is that of the instants.

*Procedure.* Neither `BronzeUnique` nor the refinement is inductive: a `Commit`
installs the private copy, of which they say nothing. `WorkspaceOK` ties the
copy at every step of the transaction to the committed tables and the staged
rows: untouched before the rewrite, `Replaced` after it when the diff is not empty,
with the snapshot after `ReplaceSnapshot`; and from the check on the staged rows
of the load are unique, which rests on `Stage` leaving a load alone while
the procedure runs for it. The same fact makes `Commit` a `Publish`: an empty
diff of two unique sets of rows means equal content.

*DAG.* `DagUsesBronze` needs one invariant, `FetchIsAlone`: while a fetch is in
execution no procedure call is in progress and what it stages is a batch. It
holds because a task is launched only when no call is open. `TasksOK` then says
what the states of the three tasks of a run allow: a task runs exactly when the
worker has it, attempts stay within their number, a task is behind its upstream,
and a call in progress belongs to a refresh that waits or was lost. `PublicationOK`
follows the counts from the commit through the call's result and the XCom into the
summary, which makes `SummaryTruthful` and `EventsAreDurable` inductive. For what readers
see, `StagingOK` says that between a successful fetch and the commit of its
refresh the staging tables hold exactly the load's batch, at each of the four
staging statements as much of it as they have written. It is here that
`CleanRerun` is needed: a second call for the same load would find nothing
staged. A commit then leaves in the window the content that was staged
(`CommitShowsBatch`), and a second one of the same batch changes nothing.

Model-checked only: the liveness properties `EveryCallReturns` and `RunsEnd`
(fairness is beyond this prover), and the three expected
violations, which are counterexamples. The models that are
proved about use no recursive operator: `SelectSeq` is replaced by
`Keeping`, whose `FlattenSeq` is a recursive function.

## 5. Not modelled

- Bootstrap and roles: declarative DDL that an operator runs by hand. Between a
  `CREATE OR REPLACE PROCEDURE` and its `GRANT` the pipeline's call is refused;
  in `IngestDag` that is a `refresh_bronze` that fails at its call.
- CI: shell commands over a schema of its own. Two workflow runs may rebuild that
  schema together; what they then read is decided inside dbt and Snowflake.
- dbt views and tests, and with them the tasks inside a transform run: views keep
  no data and the tests read bronze as `IngestDag` has it.
- Diagnostics: I/O without state. Wording, logging and argument validation.
- Inside Snowflake and Airflow: taken as the code uses them (atomic commit,
  autocommit statements, all-success trigger, retries, asset events).

## 6. Plan

The order puts what reaches readers of bronze first.

1. Done: limiter and its promise, request, page walk, collection, staging and
   procedure, DAG, shared key, audit.
2. Done: a theorem for every invariant and action property the passing runs check
   (section 4), and for both refinements.
3. Next: an abstract specification of the DAG for its readers (a load is
   collected, published, announced), implemented by `IngestDag`, so that
   `ReadersSeeTheBatch` and `EventsFollowPublication` become one refinement;
   a proof that what `IngestCollect` returns is a batch `IngestDag` may collect
   (`Collectable`), which joins the two models.

## 7. Running

`tlc -config MCBronzeRefresh.cfg MCBronzeRefresh` checks a model,
`tlapm IngestDagProofs.tla` the proofs of the refresh and the DAG; likewise for the others.
