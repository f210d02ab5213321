-------------------------- MODULE IngestDagProofs --------------------------
(***************************************************************************)
(* Proofs about the bronze refresh and the DAG that drives it, for any     *)
(* loads, windows, identities and payloads.  Part I is about BronzeRefresh *)
(* alone: the types, the uniqueness of bronze, that the procedure          *)
(* implements BronzePublication, and that its counts are true.  Part II    *)
(* shows that the ingest DAG uses the tables only in the ways              *)
(* BronzeRefresh allows, so that all of it holds of every run of the DAG,  *)
(* and then what the DAG promises itself.                                  *)
(***************************************************************************)
EXTENDS IngestDag, TLAPS

-----------------------------------------------------------------------------
(* Part I: the bronze refresh *)

(***************************************************************************)
(* The inductive invariant.  While a call is open, everything in its       *)
(* private copy is a function of the committed tables and of what its load *)
(* has staged, neither of which moves before COMMIT.                       *)
(***************************************************************************)
NewMeasurements(l) ==
    IF BronzeChanged(Diff(Staged(l), Within(measurements, Window[l])))
    THEN Replaced(measurements, l) ELSE measurements

WorkspaceOK ==
    /\ tx.step \in {"check", "diff", "rewrite"} => tx.measurements = measurements
    /\ tx.step \in {"check", "diff", "rewrite", "snapshot"} => tx.snapshots = snapshots
    /\ tx.step \in {"diff", "rewrite", "snapshot", "commit"} => UniqueKeys(Staged(tx.load))
    /\ tx.step \in {"rewrite", "snapshot", "commit"} =>
         tx.diff = Diff(Staged(tx.load), Within(measurements, Window[tx.load]))
    /\ tx.step \in {"snapshot", "commit"} => tx.measurements = NewMeasurements(tx.load)
    /\ tx.step = "commit" => tx.snapshots = Resnapped(snapshots, tx.load)

IInv == TablesTypeOK /\ BronzeUnique /\ WorkspaceOK

-----------------------------------------------------------------------------
(* Rows *)

\* Staged rows already carry the load they are staged under.
LEMMA StampedStaged ==
    ASSUME NEW l \in Loads, staging \subseteq MeasurementRows
    PROVE  /\ Staged(l) \subseteq MeasurementRows
           /\ Stamped(Staged(l), l) = Staged(l)
<1>1. Staged(l) \subseteq MeasurementRows
  BY DEF Staged, Within, Of
<1>2. \A r \in Staged(l) : r = [key |-> r.key, raw |-> r.raw, load |-> l]
  BY <1>1 DEF Staged, Within, Of, MeasurementRows
<1>3. Stamped(Staged(l), l) = Staged(l)
  BY <1>2 DEF Stamped
<1> QED BY <1>1, <1>3

\* Replacing a window by rows unique inside it keeps the table unique.
LEMMA ReplacedUnique ==
    ASSUME NEW l \in Loads, staging \subseteq MeasurementRows,
           UniqueKeys(measurements), UniqueKeys(Staged(l))
    PROVE  UniqueKeys(Replaced(measurements, l))
<1>1. Replaced(measurements, l) = Outside(measurements, Window[l]) \cup Staged(l)
  BY StampedStaged DEF Replaced
<1>2. \A r \in Staged(l) : r.key \in Window[l]
  BY DEF Staged, Within
<1>3. \A r \in Outside(measurements, Window[l]) : r \in measurements /\ r.key \notin Window[l]
  BY DEF Outside
<1> QED BY <1>1, <1>2, <1>3 DEF UniqueKeys

\* The diff of two sets of rows has the type of a diff.
LEMMA DiffTyped ==
    ASSUME NEW S \in SUBSET MeasurementRows, NEW B \in SUBSET MeasurementRows
    PROVE  Diff(S, B) \in Diffs
BY DEF Diff, Diffs, KeysOf, MeasurementRows

\* On sets of rows with unique identities a diff is empty exactly when the
\* contents agree.
LEMMA DiffTellsContent ==
    ASSUME NEW S \in SUBSET MeasurementRows, NEW B \in SUBSET MeasurementRows,
           UniqueKeys(S), UniqueKeys(B)
    PROVE  BronzeChanged(Diff(S, B)) <=> Content(S) # Content(B)
<1>1. BronzeChanged(Diff(S, B)) <=>
        \/ KeysOf(S) # KeysOf(B)
        \/ \E s \in S, b \in B : s.key = b.key /\ s.raw # b.raw
  BY DEF BronzeChanged, Diff, NoDiff, KeysOf, MeasurementRows
<1>2. ASSUME Content(S) = Content(B)
      PROVE  KeysOf(S) = KeysOf(B)
  <2>1. ASSUME NEW R \in SUBSET MeasurementRows, NEW Q \in SUBSET MeasurementRows,
               Content(R) = Content(Q), NEW r \in R
        PROVE  r.key \in KeysOf(Q)
    <3>1. PICK q \in Q : [key |-> r.key, raw |-> r.raw] = [key |-> q.key, raw |-> q.raw]
      BY <2>1 DEF Content
    <3>2. r.key = q.key
      BY <3>1
    <3> QED BY <3>2 DEF KeysOf
  <2> QED BY <1>2, <2>1 DEF KeysOf
<1>3. ASSUME NEW s \in S, NEW b \in B, s.key = b.key, s.raw # b.raw
      PROVE  Content(S) # Content(B)
  <2>1. [key |-> b.key, raw |-> b.raw] \in Content(B)
    BY DEF Content
  <2>2. ASSUME NEW r \in S, [key |-> r.key, raw |-> r.raw] = [key |-> b.key, raw |-> b.raw]
        PROVE  FALSE
    <3>1. r.key = s.key /\ r.raw # s.raw
      BY <1>3, <2>2
    <3> QED BY <3>1 DEF UniqueKeys
  <2>3. [key |-> b.key, raw |-> b.raw] \notin Content(S)
    BY <2>2 DEF Content
  <2> QED BY <2>1, <2>3
<1>4. ASSUME KeysOf(S) = KeysOf(B), \A s \in S, b \in B : s.key = b.key => s.raw = b.raw
      PROVE  Content(S) = Content(B)
  <2>1. \A s \in S : \E b \in B : b.key = s.key /\ b.raw = s.raw
    BY <1>4 DEF KeysOf
  <2>2. \A b \in B : \E s \in S : b.key = s.key /\ b.raw = s.raw
    BY <1>4 DEF KeysOf
  <2> QED BY <2>1, <2>2 DEF Content
<1> QED BY <1>1, <1>2, <1>3, <1>4

-----------------------------------------------------------------------------
(* The inductive invariant *)

LEMMA InitIInv == BronzeInit => IInv
BY DEF BronzeInit, IInv, TablesTypeOK, BronzeUnique, UniqueKeys, WorkspaceOK, Idle

\* A staging statement of one load moves no row of another and nothing else.
LEMMA StageFrame ==
    ASSUME TablesTypeOK, NEW l \in Loads, Stage(l)
    PROVE  /\ UNCHANGED <<measurements, snapshots, tx>>
           /\ staging' \subseteq MeasurementRows
           /\ locationStaging' \subseteq LocationRows
           /\ NotOf(staging', l) = NotOf(staging, l)
           /\ NotOf(locationStaging', l) = NotOf(locationStaging, l)
<1>1. CASE DeleteStagedMeasurements(l)
  BY <1>1 DEF DeleteStagedMeasurements, TablesTypeOK, NotOf, tables
<1>2. CASE \E content \in Contents : InsertStagedMeasurements(l, content)
  BY <1>2 DEF InsertStagedMeasurements, Contents, Stamped, TablesTypeOK, NotOf, tables,
              MeasurementRows
<1>3. CASE DeleteStagedLocations(l)
  BY <1>3 DEF DeleteStagedLocations, TablesTypeOK, NotOf, tables
<1>4. CASE \E locations \in SUBSET Locations : InsertStagedLocations(l, locations)
  BY <1>4 DEF InsertStagedLocations, TablesTypeOK, NotOf, tables, LocationRows
<1> QED BY <1>1, <1>2, <1>3, <1>4 DEF Stage

LEMMA StageKeeps ==
    ASSUME IInv, NEW l \in Loads, Stage(l)
    PROVE  IInv'
<1> USE DEF IInv
<1>1. /\ UNCHANGED <<measurements, snapshots, tx>>
      /\ staging' \subseteq MeasurementRows
      /\ locationStaging' \subseteq LocationRows
      /\ NotOf(staging', l) = NotOf(staging, l)
      /\ NotOf(locationStaging', l) = NotOf(locationStaging, l)
  BY StageFrame
<1>2. TablesTypeOK' /\ BronzeUnique'
  BY <1>1 DEF TablesTypeOK, BronzeUnique
<1>3. WorkspaceOK'
  <2>1. CASE tx = Idle
    BY <2>1, <1>1 DEF WorkspaceOK, Idle
  <2>2. CASE tx # Idle
    <3>1. tx.load \in Loads /\ tx.load # l
      BY <2>2 DEF Stage, TablesTypeOK, Calls
    <3>2. Of(staging', tx.load) = Of(staging, tx.load)
      BY <1>1, <3>1 DEF Of, NotOf
    <3>3. Of(locationStaging', tx.load) = Of(locationStaging, tx.load)
      BY <1>1, <3>1 DEF Of, NotOf
    <3>4. Staged(tx.load)' = Staged(tx.load)
      BY <1>1, <3>2 DEF Staged, Within
    <3>5. NewMeasurements(tx.load)' = NewMeasurements(tx.load)
      BY <1>1, <3>4 DEF NewMeasurements, Replaced
    <3>6. Resnapped(snapshots, tx.load)' = Resnapped(snapshots, tx.load)
      BY <1>1, <3>3 DEF Resnapped
    <3> QED BY <1>1, <3>4, <3>5, <3>6 DEF WorkspaceOK
  <2> QED BY <2>1, <2>2
<1> QED BY <1>2, <1>3

\* A call whose step is an open or closed one is no longer Idle.
LEMMA OpenCall ==
    ASSUME TablesTypeOK, tx.step \in OpenSteps \cup ClosedSteps
    PROVE  tx \in Calls
BY DEF TablesTypeOK, Idle, OpenSteps, ClosedSteps

LEMMA BeginStep ==
    ASSUME IInv, NEW l \in Loads, Begin(l)
    PROVE  IInv'
<1> USE DEF IInv
<1>1. NoDiff \in Diffs
  BY DEF NoDiff, Diffs
<1>2. TablesTypeOK'
  BY <1>1 DEF Begin, TablesTypeOK, Calls, OpenSteps, tables
<1>3. BronzeUnique' /\ WorkspaceOK'
  BY DEF Begin, BronzeUnique, WorkspaceOK, tables
<1> QED BY <1>2, <1>3

LEMMA RollbackStep ==
    ASSUME IInv, tx \in Calls, Rollback
    PROVE  IInv'
<1> USE DEF IInv
<1>1. NoDiff \in Diffs
  BY DEF NoDiff, Diffs
<1>2. TablesTypeOK'
  BY <1>1 DEF Rollback, TablesTypeOK, Calls, ClosedSteps, tables
<1>3. BronzeUnique' /\ WorkspaceOK'
  BY DEF Rollback, BronzeUnique, WorkspaceOK, tables, Calls
<1> QED BY <1>2, <1>3

LEMMA CheckStep ==
    ASSUME IInv, CheckDuplicates
    PROVE  IInv'
<1> USE DEF IInv
<1>1. tx \in Calls
  BY OpenCall DEF CheckDuplicates, OpenSteps
<1>2. CASE Rollback
  BY <1>1, <1>2, RollbackStep
<1>3. CASE /\ tx.step = "check"
           /\ UniqueKeys(Staged(tx.load))
           /\ tx' = [tx EXCEPT !.step = "diff"]
           /\ UNCHANGED <<tables, staging, locationStaging>>
  <2>1. TablesTypeOK'
    BY <1>1, <1>3 DEF TablesTypeOK, Calls, OpenSteps, tables
  <2>2. Staged(tx.load)' = Staged(tx.load)
    BY <1>1, <1>3 DEF Staged, Calls
  <2>3. BronzeUnique' /\ WorkspaceOK'
    BY <1>1, <1>3, <2>2 DEF BronzeUnique, WorkspaceOK, tables, Calls
  <2> QED BY <2>1, <2>3
<1> QED BY <1>2, <1>3 DEF CheckDuplicates

LEMMA DiffStep ==
    ASSUME IInv, ComputeDiff
    PROVE  IInv'
<1> USE DEF IInv
<1>1. tx \in Calls /\ tx.load \in Loads /\ tx.measurements = measurements
  BY OpenCall DEF ComputeDiff, OpenSteps, WorkspaceOK, Calls
<1> DEFINE diff == Diff(Staged(tx.load), Within(measurements, Window[tx.load]))
<1>2. diff \in Diffs
  <2>1. /\ Staged(tx.load) \in SUBSET MeasurementRows
        /\ Within(measurements, Window[tx.load]) \in SUBSET MeasurementRows
    BY <1>1, StampedStaged DEF TablesTypeOK, Within
  <2> QED BY <2>1, DiffTyped
<1>3. tx' = [tx EXCEPT !.step = "rewrite", !.diff = diff]
  BY <1>1 DEF ComputeDiff
<1> HIDE DEF diff
<1>4. TablesTypeOK'
  BY <1>1, <1>2, <1>3 DEF ComputeDiff, TablesTypeOK, Calls, OpenSteps, tables
<1>5. /\ Staged(tx.load)' = Staged(tx.load)
      /\ measurements' = measurements /\ snapshots' = snapshots
  BY <1>1, <1>3 DEF Staged, Calls, ComputeDiff, tables
<1>6. tx'.diff = Diff(Staged(tx.load), Within(measurements, Window[tx.load]))' 
  <2>1. tx'.diff = diff /\ tx'.load = tx.load
    BY <1>1, <1>3 DEF Calls
  <2> QED BY <2>1, <1>5 DEF diff
<1>7. BronzeUnique' /\ WorkspaceOK'
  BY <1>1, <1>3, <1>5, <1>6 DEF BronzeUnique, WorkspaceOK, Calls, ComputeDiff
<1> QED BY <1>4, <1>7

LEMMA RewriteStep ==
    ASSUME IInv, RewriteWindow
    PROVE  IInv'
<1> USE DEF IInv
<1>1. /\ tx \in Calls /\ tx.load \in Loads /\ tx.measurements = measurements
      /\ tx.diff = Diff(Staged(tx.load), Within(measurements, Window[tx.load]))
  BY OpenCall DEF RewriteWindow, OpenSteps, WorkspaceOK, Calls
<1>2. tx' = [tx EXCEPT !.step = "snapshot", !.measurements = NewMeasurements(tx.load)]
  BY <1>1 DEF RewriteWindow, NewMeasurements
<1>3. NewMeasurements(tx.load) \subseteq MeasurementRows
  BY <1>1, StampedStaged DEF NewMeasurements, Replaced, Outside, TablesTypeOK
<1>4. TablesTypeOK'
  BY <1>1, <1>2, <1>3 DEF RewriteWindow, TablesTypeOK, Calls, OpenSteps, tables
<1>5. /\ tx'.load = tx.load /\ tx'.diff = tx.diff /\ tx'.snapshots = tx.snapshots
      /\ tx'.measurements = NewMeasurements(tx.load) /\ tx'.step = "snapshot"
  BY <1>1, <1>2 DEF Calls
<1>6. /\ Staged(tx.load)' = Staged(tx.load)
      /\ NewMeasurements(tx.load)' = NewMeasurements(tx.load)
      /\ measurements' = measurements /\ snapshots' = snapshots
  BY <1>5 DEF Staged, NewMeasurements, Replaced, RewriteWindow, tables
<1>7. BronzeUnique' /\ WorkspaceOK'
  BY <1>1, <1>5, <1>6 DEF BronzeUnique, WorkspaceOK, RewriteWindow
<1> QED BY <1>4, <1>7

LEMMA SnapshotStep ==
    ASSUME IInv, ReplaceSnapshot
    PROVE  IInv'
<1> USE DEF IInv
<1>1. tx \in Calls /\ tx.load \in Loads /\ tx.snapshots = snapshots
  BY OpenCall DEF ReplaceSnapshot, OpenSteps, WorkspaceOK, Calls
<1>2. Resnapped(snapshots, tx.load) \subseteq LocationRows
  BY DEF Resnapped, TablesTypeOK, Of, NotOf
<1>3. tx' = [tx EXCEPT !.step = "commit", !.snapshots = Resnapped(snapshots, tx.load)]
  BY <1>1 DEF ReplaceSnapshot
<1>4. TablesTypeOK'
  BY <1>1, <1>2, <1>3 DEF ReplaceSnapshot, TablesTypeOK, Calls, OpenSteps, tables
<1>5. /\ tx'.load = tx.load /\ tx'.diff = tx.diff /\ tx'.measurements = tx.measurements
      /\ tx'.snapshots = Resnapped(snapshots, tx.load) /\ tx'.step = "commit"
  BY <1>1, <1>3 DEF Calls
<1>6. /\ Staged(tx.load)' = Staged(tx.load)
      /\ NewMeasurements(tx.load)' = NewMeasurements(tx.load)
      /\ Resnapped(snapshots, tx.load)' = Resnapped(snapshots, tx.load)
      /\ measurements' = measurements /\ snapshots' = snapshots
  BY <1>5 DEF Staged, NewMeasurements, Replaced, Resnapped, ReplaceSnapshot, tables
<1>7. BronzeUnique' /\ WorkspaceOK'
  BY <1>1, <1>5, <1>6 DEF BronzeUnique, WorkspaceOK, ReplaceSnapshot
<1> QED BY <1>4, <1>7

\* What COMMIT installs is unique: an unchanged window was unique before.
LEMMA NewMeasurementsUnique ==
    ASSUME IInv, NEW l \in Loads, UniqueKeys(Staged(l))
    PROVE  UniqueKeys(NewMeasurements(l))
BY ReplacedUnique DEF IInv, TablesTypeOK, BronzeUnique, NewMeasurements

LEMMA CommitStep ==
    ASSUME IInv, Commit
    PROVE  IInv'
<1> USE DEF IInv
<1>1. /\ tx \in Calls /\ tx.load \in Loads
      /\ UniqueKeys(Staged(tx.load))
      /\ tx.measurements = NewMeasurements(tx.load)
  BY OpenCall DEF Commit, OpenSteps, WorkspaceOK, Calls
<1>2. TablesTypeOK'
  BY <1>1 DEF Commit, TablesTypeOK, Calls, OpenSteps, ClosedSteps, NotOf
<1>3. BronzeUnique'
  BY <1>1, NewMeasurementsUnique DEF Commit, BronzeUnique
<1>4. tx'.step = "returned"
  BY <1>1 DEF Commit, Calls
<1>5. WorkspaceOK'
  BY <1>4 DEF WorkspaceOK
<1> QED BY <1>2, <1>3, <1>5

LEMMA FinishStep ==
    ASSUME IInv, Finish
    PROVE  IInv'
BY DEF IInv, Finish, TablesTypeOK, BronzeUnique, WorkspaceOK, Idle, tables

LEMMA NextIInv == IInv /\ [BronzeNext]_bronzeVars => IInv'
<1> SUFFICES ASSUME IInv, [BronzeNext]_bronzeVars
             PROVE  IInv'
  OBVIOUS
<1>1. ASSUME NEW l \in Loads, Stage(l)
      PROVE  IInv'
  BY <1>1, StageKeeps
<1>2. ASSUME NEW l \in Loads, Begin(l)
      PROVE  IInv'
  BY <1>2, BeginStep
<1>3. CASE CheckDuplicates
  BY <1>3, CheckStep
<1>4. CASE ComputeDiff
  BY <1>4, DiffStep
<1>5. CASE RewriteWindow
  BY <1>5, RewriteStep
<1>6. CASE ReplaceSnapshot
  BY <1>6, SnapshotStep
<1>7. CASE Commit
  BY <1>7, CommitStep
<1>8. CASE StatementFails
  <2>1. tx \in Calls
    BY <1>8, OpenCall DEF StatementFails, IInv
  <2> QED BY <2>1, <1>8, RollbackStep DEF StatementFails
<1>9. CASE Finish
  BY <1>9, FinishStep
<1>10. CASE UNCHANGED bronzeVars
  BY <1>10 DEF bronzeVars, IInv, TablesTypeOK, BronzeUnique, WorkspaceOK, Staged,
               NewMeasurements, Replaced, Resnapped
<1> QED BY <1>1, <1>2, <1>3, <1>4, <1>5, <1>6, <1>7, <1>8, <1>9, <1>10
        DEF BronzeNext, Procedure

LEMMA Invariance == BronzeSpec => []IInv
BY InitIInv, NextIInv, PTL DEF BronzeSpec

\* The tables, the staging tables and the call keep their types, whatever is
\* staged and whichever statement fails.
THEOREM TablesTyped == BronzeSpec => []TablesTypeOK
<1>1. IInv => TablesTypeOK
  BY DEF IInv
<1> QED BY Invariance, <1>1, PTL

\* REFRESH_STAGED_MEASUREMENTS keeps MEASUREMENTS, which has no key, unique
\* by source identity, for any loads and windows.
THEOREM BronzeStaysUnique == BronzeSpec => []BronzeUnique
<1>1. IInv => BronzeUnique
  BY DEF IInv
<1> QED BY Invariance, <1>1, PTL

-----------------------------------------------------------------------------
(* The procedure implements BronzePublication *)

\* Every set of typed rows of a load is the stamp of its content.
LEMMA OwnRowsAreStamped ==
    ASSUME NEW l \in Loads, NEW R \in SUBSET MeasurementRows
    PROVE  /\ Content(Of(R, l)) \subseteq [key : Keys, raw : Raws]
           /\ Stamped(Content(Of(R, l)), l) = Of(R, l)
<1>1. \A r \in Of(R, l) : /\ r = [key |-> r.key, raw |-> r.raw, load |-> l]
                          /\ r.key \in Keys /\ r.raw \in Raws
  BY DEF Of, MeasurementRows
<1>2. Content(Of(R, l)) \subseteq [key : Keys, raw : Raws]
  BY <1>1 DEF Content
<1>3. ASSUME NEW c \in Content(Of(R, l))
      PROVE  [key |-> c.key, raw |-> c.raw, load |-> l] \in Of(R, l)
  BY <1>1 DEF Content
<1>4. ASSUME NEW r \in Of(R, l)
      PROVE  r \in Stamped(Content(Of(R, l)), l)
  <2>1. [key |-> r.key, raw |-> r.raw] \in Content(Of(R, l))
    BY DEF Content
  <2> QED BY <2>1, <1>1 DEF Stamped
<1>5. Stamped(Content(Of(R, l)), l) \subseteq Of(R, l)
  BY <1>3 DEF Stamped
<1> QED BY <1>2, <1>4, <1>5

LEMMA StageRefines ==
    ASSUME IInv, NEW l \in Loads, Stage(l)
    PROVE  Publishes!Stage(l)
<1>1. /\ UNCHANGED <<measurements, snapshots>>
      /\ staging' \in SUBSET MeasurementRows
      /\ locationStaging' \subseteq LocationRows
      /\ NotOf(staging', l) = NotOf(staging, l)
      /\ NotOf(locationStaging', l) = NotOf(locationStaging, l)
  BY StageFrame DEF IInv
<1>2. \E content \in SUBSET [key : Keys, raw : Raws] :
        staging' = NotOf(staging, l) \cup Stamped(content, l)
  <2>1. staging' = NotOf(staging', l) \cup Of(staging', l)
    BY DEF NotOf, Of
  <2>2. /\ Content(Of(staging', l)) \in SUBSET [key : Keys, raw : Raws]
        /\ Stamped(Content(Of(staging', l)), l) = Of(staging', l)
    BY <1>1, OwnRowsAreStamped
  <2> QED BY <1>1, <2>1, <2>2
<1>3. \E locations \in SUBSET Locations :
        locationStaging' = NotOf(locationStaging, l)
                             \cup {[load |-> l, location |-> loc] : loc \in locations}
  <2> DEFINE own == {loc \in Locations : [load |-> l, location |-> loc] \in locationStaging'}
  <2>1. locationStaging' = NotOf(locationStaging', l)
                             \cup {[load |-> l, location |-> loc] : loc \in own}
    <3>1. \A r \in locationStaging' :
            r = [load |-> r.load, location |-> r.location] /\ r.location \in Locations
      BY <1>1 DEF LocationRows
    <3>2. \A r \in locationStaging' :
            r.load = l => r \in {[load |-> l, location |-> loc] : loc \in own}
      BY <3>1
    <3>3. {[load |-> l, location |-> loc] : loc \in own} \subseteq locationStaging'
      OBVIOUS
    <3> QED BY <3>2, <3>3 DEF NotOf
  <2> QED BY <1>1, <2>1
<1> QED BY <1>1, <1>2, <1>3 DEF Publishes!Stage, Publishes!NotOf, Publishes!Stamped, NotOf, Stamped

LEMMA CommitRefines ==
    ASSUME IInv, Commit
    PROVE  tx.load \in Loads /\ Publishes!Publish(tx.load)
<1> DEFINE l == tx.load
           S == Staged(l)
           B == Within(measurements, Window[l])
<1>1. /\ l \in Loads
      /\ UniqueKeys(S) /\ UniqueKeys(B)
      /\ S \in SUBSET MeasurementRows /\ B \in SUBSET MeasurementRows
      /\ tx.measurements = NewMeasurements(l)
      /\ tx.snapshots = Resnapped(snapshots, l)
  <2>1. tx \in Calls /\ l \in Loads
    BY OpenCall DEF Commit, OpenSteps, Calls, IInv
  <2>2. UniqueKeys(B) /\ B \in SUBSET MeasurementRows
    BY DEF IInv, BronzeUnique, UniqueKeys, Within, TablesTypeOK
  <2>3. S \in SUBSET MeasurementRows
    BY <2>1, StampedStaged DEF IInv, TablesTypeOK
  <2> QED BY <2>1, <2>2, <2>3 DEF Commit, IInv, WorkspaceOK
<1>2. BronzeChanged(Diff(S, B)) <=> Content(S) # Content(B)
  BY <1>1, DiffTellsContent
<1>3. measurements' = NewMeasurements(l) /\ snapshots' = Resnapped(snapshots, l)
  BY <1>1 DEF Commit
<1>4. Replaced(measurements, l) = Outside(measurements, Window[l]) \cup S
  BY <1>1, StampedStaged DEF Replaced, IInv, TablesTypeOK
<1>5. \/ Content(S) = Content(B) /\ UNCHANGED measurements
      \/ Content(S) # Content(B) /\ measurements' = Outside(measurements, Window[l]) \cup S
  BY <1>2, <1>3, <1>4 DEF NewMeasurements
<1>6. Staged(l) = Within(Of(staging, l), Window[l])
  BY DEF Staged
<1> HIDE DEF l
<1>7. Publishes!Publish(l)
  BY <1>1, <1>3, <1>5, <1>6 DEF Commit, l, Resnapped, Publishes!Publish, Publishes!UniqueKeys,
     Publishes!Content, Publishes!Within, Publishes!Outside, Publishes!Of, Publishes!NotOf,
     UniqueKeys, Content, Within, Outside, Of, NotOf
<1> QED BY <1>1, <1>7 DEF l

LEMMA NextRefines ==
    ASSUME IInv, [BronzeNext]_bronzeVars
    PROVE  [Publishes!Next]_Publishes!vars
<1>1. ASSUME NEW l \in Loads, Stage(l)
      PROVE  Publishes!Next
  BY <1>1, StageRefines DEF Publishes!Next
<1>2. CASE Commit
  BY <1>2, CommitRefines DEF Publishes!Next
<1>3. CASE \/ \E l \in Loads : Begin(l)
           \/ CheckDuplicates \/ ComputeDiff \/ RewriteWindow \/ ReplaceSnapshot
           \/ StatementFails \/ Finish \/ UNCHANGED bronzeVars
  BY <1>3 DEF Begin, CheckDuplicates, ComputeDiff, RewriteWindow, ReplaceSnapshot,
     StatementFails, Rollback, Finish, bronzeVars, tables, Publishes!vars
<1> QED BY <1>1, <1>2, <1>3 DEF BronzeNext, Procedure

\* The stored procedure, a sequence of statements any of which may fail, is
\* the one atomic step ADR-0008 promises to the readers of the tables.
THEOREM ProcedureIsAtomic == BronzeSpec => AtomicPublication
<1>1. BronzeInit => Publishes!Init
  BY DEF BronzeInit, Publishes!Init
<1>2. IInv /\ [BronzeNext]_bronzeVars => [Publishes!Next]_Publishes!vars
  BY NextRefines
<1> QED BY <1>1, <1>2, Invariance, PTL DEF BronzeSpec, AtomicPublication, Publishes!Spec

-----------------------------------------------------------------------------
(* The counts *)

\* In a unique set of rows an identity has one payload.
LEMMA ContentOfKey ==
    ASSUME NEW R \in SUBSET MeasurementRows, UniqueKeys(R), NEW r \in R
    PROVE  Content(Within(R, {r.key})) = {[key |-> r.key, raw |-> r.raw]}
<1>1. Within(R, {r.key}) = {r}
  BY DEF Within, UniqueKeys
<1> QED BY <1>1 DEF Content

\* The changed identities of a diff are those whose content differs.
LEMMA ChangedKeys ==
    ASSUME NEW S \in SUBSET MeasurementRows, NEW B \in SUBSET MeasurementRows,
           UniqueKeys(S), UniqueKeys(B)
    PROVE  Diff(S, B).changed = {k \in KeysOf(B) \cap KeysOf(S) :
                Content(Within(S, {k})) # Content(Within(B, {k}))}
<1> DEFINE differ == {k \in KeysOf(B) \cap KeysOf(S) :
                        Content(Within(S, {k})) # Content(Within(B, {k}))}
<1>1. ASSUME NEW s \in S, NEW b \in B, s.key = b.key
      PROVE  s.raw # b.raw <=> Content(Within(S, {s.key})) # Content(Within(B, {s.key}))
  <2>1. /\ Content(Within(S, {s.key})) = {[key |-> s.key, raw |-> s.raw]}
        /\ Content(Within(B, {s.key})) = {[key |-> s.key, raw |-> b.raw]}
    BY <1>1, ContentOfKey
  <2>2. [key |-> s.key, raw |-> s.raw] = [key |-> s.key, raw |-> b.raw] <=> s.raw = b.raw
    OBVIOUS
  <2>3. \A c, d : {c} = {d} <=> c = d
    OBVIOUS
  <2> QED BY <2>1, <2>2, <2>3
<1>2. Diff(S, B).changed = {k \in Keys : \E s \in S, b \in B :
                                s.key = k /\ b.key = k /\ s.raw # b.raw}
  BY DEF Diff
<1>3. ASSUME NEW k \in Diff(S, B).changed
      PROVE  k \in differ
  <2>1. PICK s \in S, b \in B : s.key = k /\ b.key = k /\ s.raw # b.raw
    BY <1>2
  <2> QED BY <2>1, <1>1 DEF KeysOf
<1>4. ASSUME NEW k \in differ
      PROVE  k \in Diff(S, B).changed
  <2>1. PICK s \in S, b \in B : s.key = k /\ b.key = k
    BY DEF KeysOf
  <2>2. s.raw # b.raw /\ k \in Keys
    BY <1>1, <2>1 DEF MeasurementRows
  <2> QED BY <1>2, <2>1, <2>2
<1> QED BY <1>3, <1>4

LEMMA CommitReturnsWhatItDid ==
    ASSUME IInv, Commit
    PROVE  LET before == Within(measurements, Window[tx.load])
               after  == Within(measurements', Window[tx.load])
           IN tx'.diff = [
               new     |-> KeysOf(after) \ KeysOf(before),
               changed |-> {k \in KeysOf(before) \cap KeysOf(after) :
                               Content(Within(after, {k})) # Content(Within(before, {k}))},
               absent  |-> KeysOf(before) \ KeysOf(after)]
<1> DEFINE S == Staged(tx.load)
           B == Within(measurements, Window[tx.load])
           A == Within(measurements', Window[tx.load])
<1>1. /\ tx.load \in Loads
      /\ UniqueKeys(S) /\ UniqueKeys(B)
      /\ S \in SUBSET MeasurementRows /\ B \in SUBSET MeasurementRows
      /\ measurements' = NewMeasurements(tx.load)
      /\ tx'.diff = Diff(S, B)
  <2>1. tx \in Calls /\ tx.load \in Loads
    BY OpenCall DEF Commit, OpenSteps, Calls, IInv
  <2>2. UniqueKeys(B) /\ B \in SUBSET MeasurementRows
    BY DEF IInv, BronzeUnique, UniqueKeys, Within, TablesTypeOK
  <2>3. S \in SUBSET MeasurementRows
    BY <2>1, StampedStaged DEF IInv, TablesTypeOK
  <2>4. tx'.diff = tx.diff
    BY <2>1 DEF Commit, Calls
  <2> QED BY <2>1, <2>2, <2>3, <2>4 DEF Commit, IInv, WorkspaceOK
<1>2. Diff(S, B) = [new |-> KeysOf(S) \ KeysOf(B), changed |-> Diff(S, B).changed,
                    absent |-> KeysOf(B) \ KeysOf(S)]
  BY DEF Diff
<1>3. CASE BronzeChanged(Diff(S, B))
  <2>1. measurements' = Outside(measurements, Window[tx.load]) \cup S
    BY <1>1, <1>3, StampedStaged DEF NewMeasurements, Replaced, IInv, TablesTypeOK
  <2>2. A = S
    BY <2>1 DEF Outside, Within, Staged
  <2> HIDE DEF S, B, A
  <2>3. Diff(S, B).changed = {k \in KeysOf(B) \cap KeysOf(A) :
                Content(Within(A, {k})) # Content(Within(B, {k}))}
    BY <1>1, <2>2, ChangedKeys
  <2>4. tx'.diff = [new |-> KeysOf(A) \ KeysOf(B),
                    changed |-> {k \in KeysOf(B) \cap KeysOf(A) :
                                   Content(Within(A, {k})) # Content(Within(B, {k}))},
                    absent |-> KeysOf(B) \ KeysOf(A)]
    BY <1>1, <1>2, <2>2, <2>3
  <2> QED BY <2>4 DEF A, B
<1>4. CASE ~BronzeChanged(Diff(S, B))
  <2>1. measurements' = measurements
    BY <1>1, <1>4 DEF NewMeasurements
  <2>2. A = B /\ tx'.diff = [new |-> {}, changed |-> {}, absent |-> {}]
    BY <1>1, <1>4, <2>1 DEF BronzeChanged, NoDiff
  <2> HIDE DEF S, B, A
  <2>3. /\ KeysOf(A) \ KeysOf(B) = {}
        /\ KeysOf(B) \ KeysOf(A) = {}
        /\ {k \in KeysOf(B) \cap KeysOf(A) :
               Content(Within(A, {k})) # Content(Within(B, {k}))} = {}
    BY <2>2
  <2>4. tx'.diff = [new |-> KeysOf(A) \ KeysOf(B),
                    changed |-> {k \in KeysOf(B) \cap KeysOf(A) :
                                   Content(Within(A, {k})) # Content(Within(B, {k}))},
                    absent |-> KeysOf(B) \ KeysOf(A)]
    BY <2>2, <2>3
  <2> QED BY <2>4 DEF A, B
<1> QED BY <1>3, <1>4

\* The counts a committed refresh returns, and with them LOAD_SUMMARY, are
\* what the commit did to the content of the window.
THEOREM CountsAreTrue == BronzeSpec => DiffIsWhatHappened
<1> DEFINE CommitCounts == Commit =>
        LET before == Within(measurements, Window[tx.load])
            after  == Within(measurements', Window[tx.load])
        IN tx'.diff = [
            new     |-> KeysOf(after) \ KeysOf(before),
            changed |-> {k \in KeysOf(before) \cap KeysOf(after) :
                            Content(Within(after, {k})) # Content(Within(before, {k}))},
            absent  |-> KeysOf(before) \ KeysOf(after)]
<1>1. IInv /\ [BronzeNext]_bronzeVars => [CommitCounts]_bronzeVars
  BY CommitReturnsWhatItDid
<1> QED BY <1>1, Invariance, PTL DEF BronzeSpec, DiffIsWhatHappened

-----------------------------------------------------------------------------
(* Part II: the ingest DAG *)

WorkerStates == [load : Loads, task : TaskNames, step : WorkerSteps]

\* While a fetch stages, no procedure call is in progress, and what it stages
\* is a batch it has collected.
FetchIsAlone ==
    /\ worker \in WorkerStates \cup {Free}
    /\ DOMAIN batch = Loads
    /\ worker # Free /\ worker.task = "fetch" =>
         /\ tx = Idle
         /\ worker.step # "collect" => batch[worker.load] \in Batches

LEMMA FreeIsNoWork == Free \notin WorkerStates
BY DEF Free, WorkerStates, TaskNames

LEMMA InitFetch == Init => FetchIsAlone
BY DEF Init, FetchIsAlone, BronzeInit

LEMMA FirstSteps == \A t \in TaskNames : FirstStep(t) \in WorkerSteps
BY DEF FirstStep, TaskNames, WorkerSteps

\* A step that frees the worker or leaves it, the calls and the batches alone.
LEMMA FreeingStep ==
    ASSUME FetchIsAlone, worker' = Free, batch' = batch
    PROVE  FetchIsAlone'
BY DEF FetchIsAlone

LEMMA QuietFetchStep ==
    ASSUME FetchIsAlone, UNCHANGED <<worker, batch, tx>>
    PROVE  FetchIsAlone'
BY DEF FetchIsAlone

LEMMA ProcedureOpen ==
    ASSUME ProcedureStep \/ StatementFails \/ Commit
    PROVE  tx # Idle
BY DEF ProcedureStep, CheckDuplicates, ComputeDiff, RewriteWindow, ReplaceSnapshot,
   StatementFails, Commit, OpenSteps, Idle

LEMMA NextFetch == FetchIsAlone /\ [Next]_vars => FetchIsAlone'
<1> SUFFICES ASSUME FetchIsAlone, [Next]_vars
             PROVE  FetchIsAlone'
  OBVIOUS
<1>1. CASE Scheduler
  BY <1>1, QuietFetchStep DEF Scheduler, HourPasses, Start, Clear, bronzeVars
<1>2. ASSUME NEW l \in Loads, NEW t \in TaskNames, Launch(l, t)
      PROVE  FetchIsAlone'
  <2>1. worker' = [load |-> l, task |-> t, step |-> FirstStep(t)]
    BY <1>2 DEF Launch
  <2>2. worker' \in WorkerStates
    BY <2>1, FirstSteps DEF WorkerStates
  <2>3. tx' = Idle /\ batch' = batch
    BY <1>2 DEF Launch, bronzeVars
  <2>4. t = "fetch" => worker'.step = "collect"
    BY <2>1 DEF FirstStep
  <2> QED BY <2>1, <2>2, <2>3, <2>4 DEF FetchIsAlone
<1>3. ASSUME NEW b \in Batches, Collect(b)
      PROVE  FetchIsAlone'
  <2>1. worker \in WorkerStates /\ worker.task = "fetch" /\ tx = Idle
    BY <1>3 DEF Collect, Running, FetchIsAlone
  <2>2. worker' = [worker EXCEPT !.step = "deleteLocations"]
    BY <1>3 DEF Collect, GoTo
  <2>3. worker' \in WorkerStates /\ worker'.load = worker.load
    BY <2>1, <2>2 DEF WorkerStates, WorkerSteps
  <2>4. batch'[worker.load] = b /\ DOMAIN batch' = Loads
    BY <1>3, <2>1 DEF Collect, FetchIsAlone, WorkerStates
  <2>5. tx' = Idle
    BY <1>3, <2>1 DEF Collect, bronzeVars
  <2> QED BY <2>3, <2>4, <2>5 DEF FetchIsAlone
<1>4. CASE StageLocations \/ StageMeasurements
  <2>1. /\ worker \in WorkerStates /\ worker.task = "fetch" /\ worker.step # "collect"
        /\ tx' = tx /\ batch' = batch
    BY <1>4 DEF StageLocations, StageMeasurements, StageStep, Running, FetchIsAlone,
       DeleteStagedLocations, InsertStagedLocations, DeleteStagedMeasurements,
       InsertStagedMeasurements
  <2>2. PICK to \in WorkerSteps : worker' = [worker EXCEPT !.step = to]
    BY <1>4 DEF StageLocations, StageMeasurements, StageStep, GoTo, WorkerSteps
  <2>3. worker' \in WorkerStates /\ worker'.load = worker.load /\ worker'.task = "fetch"
    BY <2>1, <2>2 DEF WorkerStates
  <2>4. tx = Idle /\ batch[worker.load] \in Batches
    BY <2>1, FreeIsNoWork DEF FetchIsAlone
  <2> QED BY <2>1, <2>3, <2>4 DEF FetchIsAlone
<1>5. CASE CallProcedure
  <2>1. worker \in WorkerStates /\ worker.task = "refresh"
    BY <1>5 DEF CallProcedure, Running, FetchIsAlone
  <2>2. worker' \in WorkerStates /\ worker'.task = "refresh" /\ batch' = batch
    BY <1>5, <2>1 DEF CallProcedure, GoTo, WorkerStates, WorkerSteps
  <2> QED BY <2>2 DEF FetchIsAlone
<1>6. CASE ProcedureStep \/ ProcedureCommits \/ ProcedureFails
  <2>1. tx # Idle
    BY <1>6, ProcedureOpen DEF ProcedureCommits, ProcedureFails
  <2>2. UNCHANGED <<worker, batch>>
    BY <1>6 DEF ProcedureStep, ProcedureCommits, ProcedureFails, dagVars
  <2> QED BY <2>1, <2>2 DEF FetchIsAlone
<1>7. CASE FetchReturns \/ RefreshReturns \/ RefreshRaises \/ RecordReturns \/ WorkerLost
  <2>1. worker' = Free /\ batch' = batch
    BY <1>7 DEF FetchReturns, RefreshReturns, RefreshRaises, RecordReturns, WorkerLost,
       Succeed, AttemptFails
  <2> QED BY <2>1, FreeingStep
<1>8. CASE OrphanEnds
  <2>1. worker' = Free /\ batch' = batch
    BY <1>8 DEF OrphanEnds, dagVars
  <2> QED BY <2>1, FreeingStep
<1>9. CASE RecordSummary
  <2>1. worker \in WorkerStates /\ worker.task = "record"
    BY <1>9 DEF RecordSummary, Running, FetchIsAlone
  <2>2. worker' \in WorkerStates /\ worker'.task = "record" /\ batch' = batch
    BY <1>9, <2>1 DEF RecordSummary, GoTo, WorkerStates, WorkerSteps
  <2> QED BY <2>2 DEF FetchIsAlone
<1>10. CASE TransformStarts \/ TransformEnds \/ UNCHANGED vars
  BY <1>10, QuietFetchStep DEF TransformStarts, TransformEnds, bronzeVars, vars, dagVars
<1> QED BY <1>1, <1>2, <1>3, <1>4, <1>5, <1>6, <1>7, <1>8, <1>9, <1>10 DEF Next, Execution

LEMMA StepRefines ==
    ASSUME FetchIsAlone, [Next]_vars
    PROVE  [BronzeNext]_bronzeVars
<1>1. CASE StageLocations \/ StageMeasurements
  <2>1. /\ worker \in WorkerStates /\ worker.load \in Loads /\ tx = Idle
        /\ batch[worker.load].content \in Contents
        /\ batch[worker.load].locations \in SUBSET Locations
    BY <1>1 DEF StageLocations, StageMeasurements, StageStep, Running, FetchIsAlone,
       WorkerStates, Batches
  <2>2. Stage(worker.load)
    BY <1>1, <2>1 DEF StageLocations, StageMeasurements, StageStep, Stage
  <2> QED BY <2>1, <2>2 DEF BronzeNext
<1>2. CASE CallProcedure
  <2>1. worker.load \in Loads
    BY <1>2 DEF CallProcedure, Running, FetchIsAlone, WorkerStates
  <2> QED BY <1>2, <2>1 DEF CallProcedure, BronzeNext
<1>3. CASE ProcedureStep \/ ProcedureCommits \/ ProcedureFails
  BY <1>3 DEF ProcedureStep, ProcedureCommits, ProcedureFails, BronzeNext, Procedure
<1>4. CASE RefreshReturns \/ RefreshRaises \/ OrphanEnds
  BY <1>4 DEF RefreshReturns, RefreshRaises, OrphanEnds, BronzeNext
<1>5. CASE \/ Scheduler \/ TransformStarts \/ TransformEnds \/ WorkerLost
           \/ \E l \in Loads, t \in TaskNames : Launch(l, t)
           \/ \E b \in Batches : Collect(b)
           \/ FetchReturns \/ RecordSummary \/ RecordReturns \/ UNCHANGED vars
  BY <1>5 DEF Scheduler, HourPasses, Start, Clear, TransformStarts, TransformEnds, WorkerLost,
     Launch, Collect, FetchReturns, RecordSummary, RecordReturns, vars
<1> QED BY <1>1, <1>2, <1>3, <1>4, <1>5 DEF Next, Execution

\* Every run of the DAG, with its retries, lost workers and cleared tasks, is
\* a behaviour of the staging tables and the procedure.
THEOREM DagUsesBronze == Spec => BronzeSpec
<1>1. Init => BronzeInit
  BY DEF Init
<1>2. FetchIsAlone /\ [Next]_vars => [BronzeNext]_bronzeVars
  BY StepRefines
<1> QED BY <1>1, <1>2, InitFetch, NextFetch, PTL DEF Spec, BronzeSpec

\* However the DAG retries, fails and is cleared, bronze stays unique ...
THEOREM DagKeepsBronzeUnique == Spec => []BronzeUnique
BY DagUsesBronze, BronzeStaysUnique, PTL

\* ... and readers see it move only in whole publications of one load.
THEOREM DagPublishesAtomically == Spec => AtomicPublication
BY DagUsesBronze, ProcedureIsAtomic, PTL
-----------------------------------------------------------------------------
(***************************************************************************)
(* The invariant of the DAG itself.  No part of it is inductive alone.     *)
(***************************************************************************)

StepsOf(t) == CASE t = "fetch" -> {"collect", "deleteLocations", "insertLocations",
                                   "deleteMeasurements", "insertMeasurements", "return"}
                [] t = "refresh" -> {"call", "wait"}
                [] t = "record" -> {"merge", "return"}

WorkerOK ==
    /\ worker # Free =>
         /\ worker.step \in StepsOf(worker.task)
         /\ task[worker.load][worker.task] = "running"
         /\ tries[worker.load][worker.task] >= 1
    /\ \A l \in Loads, t \in TaskNames :
         task[l][t] = "running" => worker # Free /\ worker.load = l /\ worker.task = t

AttemptsOK ==
    \A l \in Loads, t \in TaskNames :
        /\ tries[l][t] <= Attempts(t)
        /\ task[l][t] = "none" => tries[l][t] < Attempts(t)

ChainOK ==
    \A l \in Loads :
        /\ task[l]["fetch"] # "success" => task[l]["refresh"] = "none"
        /\ task[l]["refresh"] # "success" => task[l]["record"] = "none"

CallOK ==
    tx # Idle =>
        /\ task[tx.load]["refresh"] \in {"running", "failed"}
        /\ worker # Free => worker = [load |-> tx.load, task |-> "refresh", step |-> "wait"]

BatchOK ==
    \A l \in Loads :
        /\ batch[l] \in Batches => \A r \in batch[l].content : r.key \in Window[l]
        /\ task[l]["fetch"] = "success" => batch[l] \in Batches

PublicationOK ==
    /\ tx.step = "returned" =>
         published[tx.load] # Nothing /\ tx.diff = published[tx.load].diff
    /\ \A l \in Loads : task[l]["refresh"] = "success" =>
         published[l] # Nothing /\ diffs[l] = published[l].diff
    /\ Running("record", "return") =>
         Of(summary, worker.load) = {[load |-> worker.load, diff |-> diffs[worker.load]]}

LocationsOf(rows) == {r.location : r \in rows}
StagedAre(l) ==
    /\ Content(Of(staging, l)) = batch[l].content
    /\ LocationsOf(Of(locationStaging, l)) = batch[l].locations

ToBePublished(l) ==
    \/ task[l]["fetch"] = "success" /\ task[l]["refresh"] = "none"
    \/ Running("refresh", "call") /\ worker.load = l
    \/ tx.step \in OpenSteps /\ tx.load = l

StagingOK ==
    /\ Running("fetch", "insertLocations") => Of(locationStaging, worker.load) = {}
    /\ \A step \in {"deleteMeasurements", "insertMeasurements", "return"} :
         Running("fetch", step) =>
            LocationsOf(Of(locationStaging, worker.load)) = batch[worker.load].locations
    /\ Running("fetch", "insertMeasurements") => Of(staging, worker.load) = {}
    /\ Running("fetch", "return") => Content(Of(staging, worker.load)) = batch[worker.load].content
    /\ \A l \in Loads : ToBePublished(l) => StagedAre(l)

TasksOK == WorkerOK /\ AttemptsOK /\ ChainOK /\ CallOK /\ BatchOK

DagInv == TypeOK /\ FetchIsAlone /\ TasksOK

-----------------------------------------------------------------------------
(* Types *)

LEMMA InitType == Init => TypeOK
<1> SUFFICES ASSUME Init PROVE TypeOK
  OBVIOUS
<1>1. TablesTypeOK
  BY DEF Init, BronzeInit, TablesTypeOK
<1>2. hour \in Int
  BY BronzeAssumption DEF Init
<1>3. NoDiff \in Diffs
  BY DEF NoDiff, Diffs
<1> QED BY <1>1, <1>2, <1>3, DagAssumption DEF Init, TypeOK

\* The next hour, the run a scheduler starts, and the transform DAG.
LEMMA SchedulerType ==
    ASSUME DagInv, HourPasses \/ (\E l \in Loads : Start(l)) \/ TransformStarts \/ TransformEnds
    PROVE  TypeOK'
BY DEF DagInv, TypeOK, HourPasses, Start, TransformStarts, TransformEnds, bronzeVars,
   TablesTypeOK

LEMMA LaunchType ==
    ASSUME DagInv, NEW l \in Loads, NEW t \in TaskNames, Launch(l, t)
    PROVE  TypeOK'
<1>1. worker' \in [load : Loads, task : TaskNames, step : WorkerSteps]
  BY FirstSteps DEF Launch
<1>2. tries' \in [Loads -> [TaskNames -> 0..2]]
  <2>1. tries[l][t] \in 0..2 /\ tries[l][t] < Attempts(t)
    BY DEF Launch, DagInv, TypeOK, TasksOK, AttemptsOK
  <2>2. tries[l][t] + 1 \in 0..2
    BY <2>1 DEF Attempts
  <2> QED BY <2>2 DEF Launch, DagInv, TypeOK
<1>3. task' \in [Loads -> [TaskNames -> {"none", "running", "success", "failed"}]]
  BY DEF Launch, DagInv, TypeOK
<1> QED BY <1>1, <1>2, <1>3 DEF Launch, DagInv, TypeOK, TablesTypeOK, bronzeVars

LEMMA ClearType ==
    ASSUME DagInv, NEW l \in Loads, NEW t \in TaskNames, Clear(l, t)
    PROVE  TypeOK'
<1>1. task' \in [Loads -> [TaskNames -> {"none", "running", "success", "failed"}]]
  BY DEF Clear, DagInv, TypeOK
<1>2. tries' \in [Loads -> [TaskNames -> 0..2]]
  BY DEF Clear, DagInv, TypeOK
<1>3. clears' \in 0..MaxClears
  BY DagAssumption DEF Clear, DagInv, TypeOK
<1> QED BY <1>1, <1>2, <1>3 DEF Clear, DagInv, TypeOK, TablesTypeOK, bronzeVars

LEMMA AttemptFailsType ==
    ASSUME DagInv, AttemptFails
    PROVE  /\ worker' = Free
           /\ task' \in [Loads -> [TaskNames -> {"none", "running", "success", "failed"}]]
BY DEF AttemptFails, DagInv, TypeOK

LEMMA SucceedType ==
    ASSUME DagInv, worker # Free, Succeed
    PROVE  /\ worker' = Free
           /\ task' \in [Loads -> [TaskNames -> {"none", "running", "success", "failed"}]]
BY DEF Succeed, DagInv, TypeOK

LEMMA GoToType ==
    ASSUME DagInv, worker # Free, NEW step \in WorkerSteps, GoTo(step)
    PROVE  worker' \in WorkerStates
BY DEF GoTo, DagInv, TypeOK, WorkerStates

LEMMA TypeStep ==
    ASSUME DagInv, TablesTypeOK', [Next]_vars
    PROVE  TypeOK'
<1>1. CASE HourPasses \/ (\E l \in Loads : Start(l)) \/ TransformStarts \/ TransformEnds
  BY <1>1, SchedulerType
<1>2. CASE \E l \in Loads, t \in Clearable : Clear(l, t)
  BY <1>2, ClearType, DagAssumption
<1>3. CASE \E l \in Loads, t \in TaskNames : Launch(l, t)
  BY <1>3, LaunchType
<1>4. ASSUME NEW b \in Batches, Collect(b)
      PROVE  TypeOK'
  <2>1. worker' \in WorkerStates
    BY <1>4, GoToType DEF Collect, Running, WorkerSteps
  <2>2. batch' \in [Loads -> Batches \cup {Nothing}]
    BY <1>4 DEF Collect, Running, DagInv, TypeOK
  <2> QED BY <1>4, <2>1, <2>2 DEF Collect, DagInv, TypeOK, WorkerStates
<1>5. CASE StageLocations \/ StageMeasurements
  <2>1. worker' \in WorkerStates
    BY <1>5, GoToType DEF StageLocations, StageMeasurements, StageStep, Running, WorkerSteps
  <2> QED BY <1>5, <2>1 DEF StageLocations, StageMeasurements, StageStep, DagInv, TypeOK,
          WorkerStates
<1>6. CASE FetchReturns
  BY <1>6, SucceedType DEF FetchReturns, Running, DagInv, TypeOK
<1>7. CASE CallProcedure
  <2>1. worker' \in WorkerStates
    BY <1>7, GoToType DEF CallProcedure, Running, WorkerSteps
  <2> QED BY <1>7, <2>1 DEF CallProcedure, DagInv, TypeOK, WorkerStates
<1>8. CASE ProcedureStep \/ OrphanEnds
  BY <1>8 DEF ProcedureStep, OrphanEnds, dagVars, DagInv, TypeOK
<1>9. CASE ProcedureFails
  BY <1>9, DagAssumption DEF ProcedureFails, DagInv, TypeOK
<1>10. CASE ProcedureCommits
  <2>1. tx \in Calls /\ tx.load \in Loads
    BY <1>10, OpenCall DEF ProcedureCommits, Commit, OpenSteps, DagInv, TypeOK, Calls
  <2>2. batch[tx.load] \in Batches
    BY <1>10, <2>1 DEF ProcedureCommits, Commit, DagInv, TasksOK, CallOK, ChainOK, BatchOK, Idle
  <2>3. Diff(Within(measurements', Window[tx.load]), Within(measurements, Window[tx.load]))
           \in Diffs
    <3>1. /\ Within(measurements', Window[tx.load]) \in SUBSET MeasurementRows
          /\ Within(measurements, Window[tx.load]) \in SUBSET MeasurementRows
      BY DEF Within, TablesTypeOK, DagInv, TypeOK
    <3> QED BY <3>1, DiffTyped
  <2>4. published' \in [Loads -> [batch : Batches, diff : Diffs] \cup {Nothing}]
    <3> DEFINE effect == [batch |-> batch[tx.load],
                          diff |-> Diff(Within(measurements', Window[tx.load]),
                                        Within(measurements, Window[tx.load]))]
    <3>1. effect \in [batch : Batches, diff : Diffs]
      BY <2>2, <2>3
    <3>2. published' = [published EXCEPT ![tx.load] = effect]
      BY <1>10 DEF ProcedureCommits
    <3> HIDE DEF effect
    <3> QED BY <3>1, <3>2 DEF DagInv, TypeOK
  <2> QED BY <1>10, <2>1, <2>4 DEF ProcedureCommits, DagInv, TypeOK
<1>11. CASE RefreshReturns
  <2>1. tx.diff \in Diffs
    BY <1>11 DEF RefreshReturns, DagInv, TypeOK, TablesTypeOK, Calls, Idle
  <2> QED BY <1>11, <2>1, SucceedType DEF RefreshReturns, Running, DagInv, TypeOK
<1>12. CASE RefreshRaises
  BY <1>12, AttemptFailsType DEF RefreshRaises, Running, DagInv, TypeOK
<1>13. CASE WorkerLost
  BY <1>13, AttemptFailsType, DagAssumption DEF WorkerLost, DagInv, TypeOK
<1>14. CASE RecordSummary
  <2>1. worker' \in WorkerStates
    BY <1>14, GoToType DEF RecordSummary, Running, WorkerSteps
  <2>2. summary' \subseteq [load : Loads, diff : Diffs]
    BY <1>14 DEF RecordSummary, SummaryMerged, NotOf, Running, DagInv, TypeOK
  <2> QED BY <1>14, <2>1, <2>2 DEF RecordSummary, DagInv, TypeOK, WorkerStates
<1>15. CASE RecordReturns
  BY <1>15, SucceedType DEF RecordReturns, Running, DagInv, TypeOK
<1>16. CASE UNCHANGED vars
  BY <1>16 DEF vars, dagVars, DagInv, TypeOK
<1> QED BY <1>1, <1>2, <1>3, <1>4, <1>5, <1>6, <1>7, <1>8, <1>9, <1>10, <1>11, <1>12, <1>13,
           <1>14, <1>15, <1>16 DEF Next, Scheduler, Execution

-----------------------------------------------------------------------------
(* Tasks, their worker and the procedure call *)

LEMMA InitTasks == Init => TasksOK
<1> SUFFICES ASSUME Init PROVE TasksOK
  OBVIOUS
<1>1. \A l \in Loads, t \in TaskNames :
         task[l][t] = "none" /\ tries[l][t] = 0 /\ batch[l] = Nothing
  BY DEF Init
<1>2. worker = Free /\ tx = Idle
  BY DEF Init, BronzeInit
<1>3. Nothing \notin Batches
  BY DEF Nothing, Batches
<1>4. AttemptsOK
  BY <1>1 DEF AttemptsOK, Attempts
<1>5. ChainOK /\ BatchOK
  BY <1>1, <1>3 DEF ChainOK, BatchOK, TaskNames
<1> QED BY <1>1, <1>2, <1>4, <1>5 DEF TasksOK, WorkerOK, CallOK

LEMMA QuietTasks ==
    ASSUME TasksOK, UNCHANGED <<task, tries, worker, tx, batch>>
    PROVE  TasksOK'
BY DEF TasksOK, WorkerOK, AttemptsOK, ChainOK, CallOK, BatchOK

LEMMA FirstStepOf == \A t \in TaskNames : FirstStep(t) \in StepsOf(t)
BY DEF FirstStep, StepsOf, TaskNames

LEMMA LaunchTasks ==
    ASSUME DagInv, NEW l \in Loads, NEW t \in TaskNames, Launch(l, t)
    PROVE  TasksOK'
<1> USE DEF DagInv, TasksOK, TypeOK
<1>1. /\ worker = Free /\ tx = Idle /\ tx' = Idle /\ task[l][t] = "none"
      /\ batch' = batch
      /\ worker' = [load |-> l, task |-> t, step |-> FirstStep(t)]
      /\ task' = [task EXCEPT ![l][t] = "running"]
      /\ tries' = [tries EXCEPT ![l][t] = @ + 1]
  BY DEF Launch, bronzeVars
<1>2. WorkerOK'
  <2>1. worker'.load = l /\ worker'.task = t /\ worker'.step \in StepsOf(t)
    BY <1>1, FirstStepOf
  <2>2. worker' # Free
    BY <1>1 DEF Free
  <2>3. task'[l][t] = "running" /\ tries'[l][t] >= 1
    <3>1. tries[l][t] \in 0..2 /\ tries'[l][t] = tries[l][t] + 1
      BY <1>1
    <3> QED BY <1>1, <3>1
  <2>4. \A k \in Loads, u \in TaskNames : task'[k][u] = "running" => k = l /\ u = t
    BY <1>1 DEF WorkerOK
  <2> QED BY <2>1, <2>2, <2>3, <2>4 DEF WorkerOK
<1>3. AttemptsOK'
  <2>1. tries[l][t] \in 0..2 /\ tries[l][t] < Attempts(t) /\ Attempts(t) \in {1, 2}
    BY <1>1 DEF AttemptsOK, Attempts
  <2>2. tries'[l][t] = tries[l][t] + 1 /\ task'[l][t] # "none"
    BY <1>1
  <2>3. tries'[l][t] <= Attempts(t)
    BY <2>1, <2>2
  <2>4. \A k \in Loads, u \in TaskNames :
           k # l \/ u # t => tries'[k][u] = tries[k][u] /\ task'[k][u] = task[k][u]
    BY <1>1
  <2> QED BY <2>2, <2>3, <2>4 DEF AttemptsOK
<1>4. ChainOK'
  <2>1. \A u \in Upstream(t) : task[l][u] = "success"
    BY DEF Launch, UpstreamDone
  <2>2. CASE t = "fetch"
    BY <1>1, <2>2 DEF ChainOK, TaskNames
  <2>3. CASE t = "refresh"
    BY <1>1, <2>1, <2>3 DEF ChainOK, TaskNames, Upstream
  <2>4. CASE t = "record"
    BY <1>1, <2>1, <2>4 DEF ChainOK, TaskNames, Upstream
  <2> QED BY <2>2, <2>3, <2>4 DEF TaskNames
<1>5. CallOK'
  BY <1>1 DEF CallOK
<1>6. BatchOK'
  BY <1>1 DEF BatchOK, TaskNames
<1> QED BY <1>2, <1>3, <1>4, <1>5, <1>6

LEMMA ClearTasks ==
    ASSUME DagInv, NEW l \in Loads, NEW t \in TaskNames, Clear(l, t)
    PROVE  TasksOK'
<1> USE DEF DagInv, TasksOK, TypeOK
<1>1. /\ worker = Free /\ worker' = Free /\ tx' = Idle /\ batch' = batch
      /\ task' = [task EXCEPT ![l] = [u \in TaskNames |->
                    IF u \in Downstream(t) THEN "none" ELSE @[u]]]
      /\ tries' = [tries EXCEPT ![l] = [u \in TaskNames |->
                    IF u \in Downstream(t) THEN 0 ELSE @[u]]]
  BY DEF Clear, bronzeVars
<1>2. WorkerOK'
  BY <1>1 DEF WorkerOK
<1>3. AttemptsOK'
  BY <1>1 DEF AttemptsOK, Attempts
<1>4. ChainOK'
  BY <1>1 DEF ChainOK, Downstream, TaskNames
<1>5. BatchOK'
  BY <1>1 DEF BatchOK, TaskNames
<1> QED BY <1>1, <1>2, <1>3, <1>4, <1>5 DEF CallOK

\* A task attempt that fails, alone or with the call it waits for.
LEMMA FailsTasks ==
    ASSUME DagInv, AttemptFails, UNCHANGED <<tries, batch>>, tx' \in {tx, Idle}
    PROVE  TasksOK'
<1> USE DEF DagInv, TasksOK, TypeOK
<1> DEFINE l == worker.load
           t == worker.task
<1>1. /\ worker # Free /\ worker' = Free /\ l \in Loads /\ t \in TaskNames
      /\ task' = [task EXCEPT ![l][t] = IF tries[l][t] < Attempts(t) THEN "none" ELSE "failed"]
      /\ task[l][t] = "running" /\ tries[l][t] >= 1
  BY DEF AttemptFails, WorkerOK
<1> HIDE DEF l, t
<1>2. WorkerOK'
  <2>1. \A k \in Loads, u \in TaskNames : task[k][u] = "running" => k = l /\ u = t
    BY <1>1 DEF WorkerOK, l, t
  <2> QED BY <1>1, <2>1 DEF WorkerOK
<1>3. AttemptsOK'
  BY <1>1 DEF AttemptsOK
<1>4. ChainOK'
  BY <1>1 DEF ChainOK, TaskNames
<1>5. CallOK'
  <2>1. CASE tx = Idle
    BY <1>1, <2>1 DEF CallOK
  <2>2. CASE tx # Idle
    <3>1. l = tx.load /\ t = "refresh"
      BY <1>1, <2>2 DEF CallOK, l, t
    <3>2. ~(tries[l][t] < Attempts(t))
      <4>1. tries[l][t] \in 0..2 /\ tries[l][t] >= 1 /\ Attempts(t) = 1
        BY <1>1, <3>1 DEF Attempts
      <4> QED BY <4>1
    <3> QED BY <1>1, <3>1, <3>2 DEF CallOK
  <2> QED BY <2>1, <2>2
<1>6. BatchOK'
  BY <1>1 DEF BatchOK, TaskNames
<1> QED BY <1>2, <1>3, <1>4, <1>5, <1>6

\* A task that succeeds, when no call is open any more.
LEMMA SucceedsTasks ==
    ASSUME DagInv, worker # Free, Succeed, UNCHANGED <<tries, batch>>, tx' = Idle,
           worker.task = "fetch" => batch[worker.load] \in Batches
    PROVE  TasksOK'
<1> USE DEF DagInv, TasksOK, TypeOK
<1> DEFINE l == worker.load
           t == worker.task
<1>1. /\ worker' = Free /\ l \in Loads /\ t \in TaskNames
      /\ task' = [task EXCEPT ![l][t] = "success"]
      /\ task[l][t] = "running"
  BY DEF Succeed, WorkerOK
<1> HIDE DEF l, t
<1>2. WorkerOK'
  <2>1. \A k \in Loads, u \in TaskNames : task[k][u] = "running" => k = l /\ u = t
    BY <1>1 DEF WorkerOK, l, t
  <2> QED BY <1>1, <2>1 DEF WorkerOK
<1>3. AttemptsOK'
  BY <1>1 DEF AttemptsOK
<1>4. ChainOK'
  BY <1>1 DEF ChainOK, TaskNames
<1>5. BatchOK'
  BY <1>1 DEF BatchOK, TaskNames, l, t
<1> QED BY <1>2, <1>3, <1>4, <1>5 DEF CallOK

\* A step inside a task.
LEMMA GoToTasks ==
    ASSUME DagInv, worker # Free, NEW step \in StepsOf(worker.task), GoTo(step),
           UNCHANGED <<task, tries>>, BatchOK',
           \/ tx' = Idle
           \/ tx'.load = worker.load /\ worker.task = "refresh" /\ step = "wait"
    PROVE  TasksOK'
<1> USE DEF DagInv, TasksOK, TypeOK
<1>1. /\ worker \in WorkerStates
      /\ worker' = [worker EXCEPT !.step = step]
  BY DEF GoTo, WorkerStates
<1>2. worker' # Free /\ worker'.load = worker.load /\ worker'.task = worker.task
         /\ worker'.step = step
  BY <1>1, FreeIsNoWork DEF WorkerStates, Free
<1>3. WorkerOK'
  BY <1>2 DEF WorkerOK
<1>4. AttemptsOK' /\ ChainOK'
  BY DEF AttemptsOK, ChainOK
<1>5. CallOK'
  <2>1. CASE tx' = Idle
    BY <2>1 DEF CallOK
  <2>2. CASE tx'.load = worker.load /\ worker.task = "refresh" /\ step = "wait"
    <3>1. worker' = [load |-> tx'.load, task |-> "refresh", step |-> "wait"]
      BY <1>1, <2>2 DEF WorkerStates
    <3>2. task'[tx'.load]["refresh"] = "running"
      BY <2>2 DEF WorkerOK
    <3> QED BY <3>1, <3>2 DEF CallOK
  <2> QED BY <2>1, <2>2
<1> QED BY <1>3, <1>4, <1>5

LEMMA ProcedureFrame ==
    ASSUME TablesTypeOK, ProcedureStep \/ ProcedureFails \/ ProcedureCommits
    PROVE  /\ tx \in Calls /\ tx # Idle /\ tx' # Idle /\ tx'.load = tx.load
           /\ tx.step \in OpenSteps
           /\ UNCHANGED <<hour, started, task, tries, worker, batch, diffs, summary, events,
                          transform, clears>>
<1>1. tx.step \in OpenSteps
  BY DEF ProcedureStep, ProcedureFails, ProcedureCommits, CheckDuplicates, ComputeDiff,
     RewriteWindow, ReplaceSnapshot, Commit, StatementFails, OpenSteps
<1>2. tx \in Calls /\ tx # Idle
  BY <1>1, OpenCall DEF Idle, OpenSteps
<1>3. tx' # Idle /\ tx'.load = tx.load
  BY <1>2 DEF ProcedureStep, ProcedureFails, ProcedureCommits, CheckDuplicates, ComputeDiff,
     RewriteWindow, ReplaceSnapshot, Commit, StatementFails, Rollback, Calls, Idle
<1> QED BY <1>1, <1>2, <1>3 DEF ProcedureStep, ProcedureFails, ProcedureCommits, dagVars

LEMMA TasksStep ==
    ASSUME DagInv, [Next]_vars
    PROVE  TasksOK'
<1> USE DEF DagInv
<1>1. CASE \/ HourPasses \/ (\E l \in Loads : Start(l)) \/ TransformStarts \/ TransformEnds
           \/ UNCHANGED vars
  BY <1>1, QuietTasks DEF HourPasses, Start, TransformStarts, TransformEnds, bronzeVars,
     vars, dagVars
<1>2. CASE \E l \in Loads, t \in Clearable : Clear(l, t)
  BY <1>2, ClearTasks, DagAssumption
<1>3. CASE \E l \in Loads, t \in TaskNames : Launch(l, t)
  BY <1>3, LaunchTasks
<1>4. ASSUME NEW b \in Batches, Collect(b)
      PROVE  TasksOK'
  <2>1. /\ worker \in WorkerStates /\ worker # Free /\ worker.task = "fetch" /\ tx' = Idle
        /\ GoTo("deleteLocations") /\ UNCHANGED <<task, tries>>
    BY <1>4 DEF Collect, Running, FetchIsAlone, bronzeVars
  <2>2. "deleteLocations" \in StepsOf(worker.task)
    BY <2>1 DEF StepsOf
  <2>3. BatchOK'
    <3>1. batch' = [batch EXCEPT ![worker.load] = b] /\ \A r \in b.content : r.key \in Window[worker.load]
      BY <1>4 DEF Collect, Collectable
    <3> QED BY <2>1, <3>1 DEF BatchOK, TasksOK, TypeOK, WorkerStates
  <2> QED BY <2>1, <2>2, <2>3, GoToTasks
<1>5. CASE StageLocations \/ StageMeasurements
  <2>1. /\ worker # Free /\ worker.task = "fetch" /\ tx' = Idle
        /\ UNCHANGED <<task, tries, batch>>
    BY <1>5 DEF StageLocations, StageMeasurements, StageStep, Running, FetchIsAlone,
       DeleteStagedLocations, InsertStagedLocations, DeleteStagedMeasurements,
       InsertStagedMeasurements
  <2>2. PICK to \in StepsOf(worker.task) : GoTo(to)
    BY <1>5, <2>1 DEF StageLocations, StageMeasurements, StageStep, StepsOf
  <2>3. BatchOK'
    BY <2>1 DEF BatchOK, TasksOK
  <2> QED BY <2>1, <2>2, <2>3, GoToTasks
<1>6. CASE FetchReturns
  <2>1. /\ worker # Free /\ Succeed /\ UNCHANGED <<tries, batch>> /\ tx' = Idle
        /\ batch[worker.load] \in Batches
    BY <1>6 DEF FetchReturns, Running, FetchIsAlone, bronzeVars
  <2> QED BY <2>1, SucceedsTasks
<1>7. CASE CallProcedure
  <2>1. /\ worker # Free /\ worker.task = "refresh" /\ GoTo("wait")
        /\ UNCHANGED <<task, tries, batch>> /\ tx'.load = worker.load
    BY <1>7 DEF CallProcedure, Running, Begin
  <2>2. "wait" \in StepsOf(worker.task)
    BY <2>1 DEF StepsOf
  <2>3. BatchOK'
    BY <2>1 DEF BatchOK, TasksOK
  <2> QED BY <2>1, <2>2, <2>3, GoToTasks
<1>8. CASE ProcedureStep \/ ProcedureFails \/ ProcedureCommits
  <2>1. /\ tx # Idle /\ tx' # Idle /\ tx'.load = tx.load
        /\ UNCHANGED <<task, tries, worker, batch>>
    BY <1>8, ProcedureFrame DEF TypeOK
  <2> QED BY <2>1 DEF TasksOK, WorkerOK, AttemptsOK, ChainOK, CallOK, BatchOK
<1>9. CASE RefreshReturns
  <2>1. /\ worker # Free /\ worker.task = "refresh" /\ Succeed /\ UNCHANGED <<tries, batch>>
        /\ tx' = Idle
    BY <1>9 DEF RefreshReturns, Running, Finish
  <2> QED BY <2>1, SucceedsTasks
<1>10. CASE RefreshRaises
  BY <1>10, FailsTasks DEF RefreshRaises, Finish
<1>11. CASE WorkerLost
  BY <1>11, FailsTasks DEF WorkerLost, bronzeVars
<1>12. CASE OrphanEnds
  <2>1. tx' = Idle /\ UNCHANGED <<task, tries, worker, batch>>
    BY <1>12 DEF OrphanEnds, Finish, dagVars
  <2> QED BY <2>1 DEF TasksOK, WorkerOK, AttemptsOK, ChainOK, CallOK, BatchOK
<1>13. CASE RecordSummary \/ RecordReturns
  <2>1. worker # Free /\ worker.task = "record" /\ UNCHANGED <<tries, batch, tx>>
    BY <1>13 DEF RecordSummary, RecordReturns, Running, bronzeVars
  <2>2. tx = Idle
    BY <2>1 DEF TasksOK, CallOK
  <2>3. CASE RecordSummary
    <3>1. GoTo("return") /\ task' = task /\ "return" \in StepsOf(worker.task)
      BY <2>1, <2>3 DEF RecordSummary, StepsOf
    <3>2. BatchOK'
      BY <2>1, <3>1 DEF BatchOK, TasksOK
    <3> QED BY <2>1, <2>2, <3>1, <3>2, GoToTasks
  <2>4. CASE RecordReturns
    BY <2>1, <2>2, <2>4, SucceedsTasks DEF RecordReturns
  <2> QED BY <1>13, <2>3, <2>4
<1> QED BY <1>1, <1>2, <1>3, <1>4, <1>5, <1>6, <1>7, <1>8, <1>9, <1>10, <1>11, <1>12, <1>13
        DEF Next, Scheduler, Execution

-----------------------------------------------------------------------------
(* Every run of the DAG keeps its types and its tasks in order *)

LEMMA DagStep ==
    ASSUME IInv', DagInv, [Next]_vars
    PROVE  DagInv'
<1>1. TypeOK'
  BY TypeStep DEF IInv
<1>2. FetchIsAlone'
  BY NextFetch DEF DagInv
<1>3. TasksOK'
  BY TasksStep
<1> QED BY <1>1, <1>2, <1>3 DEF DagInv

LEMMA DagInvariance == Spec => [](IInv /\ DagInv)
<1>1. Init => DagInv
  BY InitType, InitFetch, InitTasks DEF DagInv
<1>2. IInv' /\ DagInv /\ [Next]_vars => DagInv'
  BY DagStep
<1>3. Spec => []IInv
  BY DagUsesBronze, Invariance, PTL
<1> QED BY <1>1, <1>2, <1>3, PTL DEF Spec

\* Every variable of the DAG keeps its type, whatever fails and is cleared:
\* no task is attempted more often than its retries allow.
THEOREM DagTyped == Spec => []TypeOK
<1>1. DagInv => TypeOK
  BY DEF DagInv
<1> QED BY DagInvariance, <1>1, PTL

-----------------------------------------------------------------------------
(* Publications, their summary and their event *)

SummaryInv == PublicationOK /\ EventsAreDurable /\ SummaryTruthful

LEMMA InitSummary == Init => SummaryInv
BY DEF Init, SummaryInv, PublicationOK, EventsAreDurable, SummaryTruthful, BronzeInit, Idle,
   Running, TaskNames

\* A step that makes no task succeed, no call return and no summary durable.
LEMMA QuietSummary ==
    ASSUME SummaryInv, UNCHANGED <<published, diffs, summary>>, events' \subseteq events,
           \A l \in Loads : \A t \in {"refresh", "record"} :
              task'[l][t] = "success" => task[l][t] = "success",
           Running("record", "return")' => worker' = worker,
           tx'.step = "returned" => tx' = tx
    PROVE  SummaryInv'
<1>1. PublicationOK'
  BY DEF SummaryInv, PublicationOK, Running
<1>2. EventsAreDurable'
  BY DEF SummaryInv, EventsAreDurable
<1>3. SummaryTruthful'
  BY DEF SummaryInv, SummaryTruthful
<1> QED BY <1>1, <1>2, <1>3 DEF SummaryInv

\* The effect the history records of a commit is the diff the call returns.
LEMMA CommitDiff ==
    ASSUME IInv, Commit
    PROVE  /\ tx \in Calls /\ tx.load \in Loads
           /\ tx'.load = tx.load /\ tx'.step = "returned"
           /\ tx'.diff = Diff(Within(measurements', Window[tx.load]),
                              Within(measurements, Window[tx.load]))
<1> DEFINE S == Staged(tx.load)
           B == Within(measurements, Window[tx.load])
           A == Within(measurements', Window[tx.load])
<1>1. tx \in Calls /\ tx.load \in Loads
  BY OpenCall DEF Commit, OpenSteps, Calls, IInv
<1>2. tx'.load = tx.load /\ tx'.step = "returned" /\ tx'.diff = tx.diff
  BY <1>1 DEF Commit, Calls
<1>3. tx.diff = Diff(S, B) /\ measurements' = NewMeasurements(tx.load)
  BY DEF Commit, IInv, WorkspaceOK
<1>4. CASE BronzeChanged(Diff(S, B))
  <2>1. measurements' = Outside(measurements, Window[tx.load]) \cup S
    BY <1>1, <1>3, <1>4, StampedStaged DEF NewMeasurements, Replaced, IInv, TablesTypeOK
  <2>2. A = S
    BY <2>1 DEF Outside, Within, Staged
  <2> QED BY <1>1, <1>2, <1>3, <2>2
<1>5. CASE ~BronzeChanged(Diff(S, B))
  <2>1. A = B /\ tx.diff = NoDiff
    BY <1>3, <1>5 DEF NewMeasurements, BronzeChanged
  <2>2. UniqueKeys(B)
    BY DEF IInv, BronzeUnique, UniqueKeys, Within
  <2>3. Diff(B, B) = NoDiff
    <3> HIDE DEF B
    <3>1. \A s, b \in B : s.key = b.key => s.raw = b.raw
      BY <2>2 DEF UniqueKeys
    <3> QED BY <3>1 DEF Diff, NoDiff
  <2> QED BY <1>1, <1>2, <2>1, <2>3
<1> QED BY <1>4, <1>5

LEMMA CommitSummary ==
    ASSUME IInv, DagInv, SummaryInv, ProcedureCommits
    PROVE  SummaryInv'
<1> DEFINE effect == Diff(Within(measurements', Window[tx.load]),
                          Within(measurements, Window[tx.load]))
<1>1. /\ tx \in Calls /\ tx.load \in Loads
      /\ tx'.load = tx.load /\ tx'.step = "returned" /\ tx'.diff = effect
  BY CommitDiff DEF ProcedureCommits
<1>2. published' = [published EXCEPT ![tx.load] = [batch |-> batch[tx.load], diff |-> effect]]
  BY DEF ProcedureCommits
<1> HIDE DEF effect
<1>3. UNCHANGED <<task, worker, diffs, summary, events>>
  BY DEF ProcedureCommits
<1>4. /\ published'[tx.load] # Nothing /\ published'[tx.load].diff = effect
      /\ \A l \in Loads : l # tx.load => published'[l] = published[l]
      /\ \A l \in Loads : published[l] # Nothing => published'[l] # Nothing
  BY <1>1, <1>2 DEF DagInv, TypeOK, Nothing
<1>5. task[tx.load]["refresh"] # "success" /\ task[tx.load]["record"] = "none"
  <2>1. tx # Idle
    BY <1>1 DEF Calls, Idle
  <2> QED BY <1>1, <2>1 DEF DagInv, TasksOK, CallOK, ChainOK
<1>6. PublicationOK'
  <2>1. \A l \in Loads : task'[l]["refresh"] = "success" =>
          published'[l] # Nothing /\ diffs'[l] = published'[l].diff
    BY <1>3, <1>4, <1>5 DEF SummaryInv, PublicationOK
  <2>2. Running("record", "return")' =>
          Of(summary', worker'.load) = {[load |-> worker'.load, diff |-> diffs'[worker'.load]]}
    BY <1>3 DEF SummaryInv, PublicationOK, Running
  <2> QED BY <1>1, <1>4, <2>1, <2>2 DEF PublicationOK
<1>7. EventsAreDurable'
  BY <1>3, <1>4 DEF SummaryInv, EventsAreDurable, DagInv, TypeOK
<1>8. SummaryTruthful'
  BY <1>3, <1>4, <1>5 DEF SummaryInv, SummaryTruthful
<1> QED BY <1>6, <1>7, <1>8 DEF SummaryInv

LEMMA RefreshReturnsSummary ==
    ASSUME DagInv, SummaryInv, RefreshReturns
    PROVE  SummaryInv'
<1>1. /\ worker # Free /\ worker.task = "refresh" /\ worker.load \in Loads
      /\ tx.step = "returned" /\ tx # Idle
  BY DEF RefreshReturns, Running, DagInv, TypeOK, Idle
<1>2. tx.load = worker.load
  BY <1>1 DEF DagInv, TasksOK, CallOK
<1>3. /\ tx' = Idle /\ worker' = Free /\ UNCHANGED <<published, summary, events>>
      /\ task' = [task EXCEPT ![worker.load]["refresh"] = "success"]
      /\ diffs' = [diffs EXCEPT ![worker.load] = tx.diff]
  BY <1>1 DEF RefreshReturns, Finish, Succeed
<1>4. \A l \in Loads : task'[l]["record"] = task[l]["record"]
  BY <1>1, <1>3 DEF DagInv, TypeOK, TaskNames
<1>5. PublicationOK'
  <2>1. \A l \in Loads : task'[l]["refresh"] = "success" =>
          published'[l] # Nothing /\ diffs'[l] = published'[l].diff
    BY <1>1, <1>2, <1>3 DEF SummaryInv, PublicationOK, DagInv, TypeOK, TaskNames
  <2> QED BY <1>3, <2>1 DEF PublicationOK, Running, Idle
<1>6. EventsAreDurable'
  BY <1>3 DEF SummaryInv, EventsAreDurable
<1>7. SummaryTruthful'
  BY <1>3, <1>4 DEF SummaryInv, SummaryTruthful
<1> QED BY <1>5, <1>6, <1>7 DEF SummaryInv

LEMMA RecordSummarySummary ==
    ASSUME DagInv, SummaryInv, RecordSummary
    PROVE  SummaryInv'
<1> DEFINE l == worker.load
<1>1. /\ worker \in WorkerStates /\ l \in Loads /\ worker.task = "record"
      /\ task[l]["record"] = "running"
  BY DEF RecordSummary, Running, DagInv, TypeOK, TasksOK, WorkerOK, WorkerStates
<1>2. /\ worker' = [worker EXCEPT !.step = "return"]
      /\ summary' = NotOf(summary, l) \cup {[load |-> l, diff |-> diffs[l]]}
      /\ UNCHANGED <<tx, task, diffs, events, published>>
  BY DEF RecordSummary, GoTo, SummaryMerged, bronzeVars
<1>3. worker'.load = l
  BY <1>1, <1>2 DEF WorkerStates
<1> HIDE DEF l
<1>4. /\ Of(summary', l) = {[load |-> l, diff |-> diffs[l]]}
      /\ \A k \in Loads : k # l => Of(summary', k) = Of(summary, k)
  BY <1>2 DEF Of, NotOf
<1>5. PublicationOK'
  BY <1>2, <1>3, <1>4 DEF SummaryInv, PublicationOK
<1>6. EventsAreDurable'
  BY <1>1, <1>2, <1>4 DEF SummaryInv, EventsAreDurable, DagInv, TypeOK
<1>7. SummaryTruthful'
  BY <1>1, <1>2, <1>4 DEF SummaryInv, SummaryTruthful
<1> QED BY <1>5, <1>6, <1>7 DEF SummaryInv

LEMMA RecordReturnsSummary ==
    ASSUME DagInv, SummaryInv, RecordReturns
    PROVE  SummaryInv'
<1> DEFINE l == worker.load
<1>1. /\ worker # Free /\ l \in Loads /\ worker.task = "record"
      /\ task[l]["record"] = "running"
  BY DEF RecordReturns, Running, DagInv, TypeOK, TasksOK, WorkerOK
<1>2. /\ worker' = Free /\ events' = events \cup {l}
      /\ task' = [task EXCEPT ![l]["record"] = "success"]
      /\ UNCHANGED <<tx, diffs, summary, published>>
  BY <1>1 DEF RecordReturns, Succeed, bronzeVars
<1>3. task[l]["refresh"] = "success"
  BY <1>1 DEF DagInv, TasksOK, ChainOK
<1>4. /\ published[l] # Nothing /\ diffs[l] = published[l].diff
      /\ Of(summary, l) = {[load |-> l, diff |-> diffs[l]]}
  BY <1>1, <1>3 DEF SummaryInv, PublicationOK, RecordReturns
<1> HIDE DEF l
<1>5. \A k \in Loads : /\ task'[k]["refresh"] = task[k]["refresh"]
                       /\ k # l => task'[k]["record"] = task[k]["record"]
  BY <1>1, <1>2 DEF DagInv, TypeOK, TaskNames
<1>6. PublicationOK'
  BY <1>2, <1>5 DEF SummaryInv, PublicationOK, Running
<1>7. EventsAreDurable'
  BY <1>2, <1>4 DEF SummaryInv, EventsAreDurable
<1>8. SummaryTruthful'
  BY <1>1, <1>2, <1>4, <1>5 DEF SummaryInv, SummaryTruthful
<1> QED BY <1>6, <1>7, <1>8 DEF SummaryInv

LEMMA SummaryStep ==
    ASSUME IInv, DagInv, SummaryInv, [Next]_vars
    PROVE  SummaryInv'
<1>1. CASE \/ HourPasses \/ (\E l \in Loads : Start(l)) \/ TransformStarts \/ TransformEnds
           \/ UNCHANGED vars
  <2>1. /\ UNCHANGED <<published, diffs, summary, task, worker, tx>>
        /\ events' \subseteq events
    BY <1>1 DEF HourPasses, Start, TransformStarts, TransformEnds, vars, dagVars, bronzeVars
  <2> QED BY <2>1, QuietSummary
<1>2. ASSUME NEW l \in Loads, NEW t \in TaskNames, Clear(l, t)
      PROVE  SummaryInv'
  <2>1. /\ UNCHANGED <<published, diffs, summary, events, worker, tx>>
        /\ task' = [task EXCEPT ![l] = [u \in TaskNames |->
                       IF u \in Downstream(t) THEN "none" ELSE @[u]]]
    BY <1>2 DEF Clear, bronzeVars
  <2>2. \A k \in Loads : \A u \in {"refresh", "record"} :
           task'[k][u] = "success" => task[k][u] = "success"
    BY <2>1 DEF DagInv, TypeOK, TaskNames
  <2> QED BY <2>1, <2>2, QuietSummary
<1>3. ASSUME NEW l \in Loads, NEW t \in TaskNames, Launch(l, t)
      PROVE  SummaryInv'
  <2>1. /\ UNCHANGED <<published, diffs, summary, events, tx>>
        /\ task' = [task EXCEPT ![l][t] = "running"]
        /\ worker' = [load |-> l, task |-> t, step |-> FirstStep(t)]
    BY <1>3 DEF Launch, bronzeVars
  <2>2. \A k \in Loads : \A u \in {"refresh", "record"} :
           task'[k][u] = "success" => task[k][u] = "success"
    BY <2>1 DEF DagInv, TypeOK, TaskNames
  <2>3. ~Running("record", "return")'
    BY <2>1 DEF Running, FirstStep
  <2> QED BY <2>1, <2>2, <2>3, QuietSummary
<1>4. CASE (\E b \in Batches : Collect(b)) \/ StageLocations \/ StageMeasurements
  <2>1. /\ UNCHANGED <<published, diffs, summary, events, task, tx>>
        /\ worker \in WorkerStates /\ worker.task = "fetch"
    BY <1>4 DEF Collect, StageLocations, StageMeasurements, StageStep, Running, bronzeVars,
       DeleteStagedLocations, InsertStagedLocations, DeleteStagedMeasurements,
       InsertStagedMeasurements, DagInv, TypeOK, WorkerStates
  <2>2. PICK to \in WorkerSteps : worker' = [worker EXCEPT !.step = to]
    BY <1>4 DEF Collect, StageLocations, StageMeasurements, StageStep, GoTo, WorkerSteps
  <2>3. ~Running("record", "return")'
    BY <2>1, <2>2 DEF Running, WorkerStates
  <2> QED BY <2>1, <2>3, QuietSummary
<1>5. CASE FetchReturns
  <2>1. /\ UNCHANGED <<published, diffs, summary, events, tx>>
        /\ worker' = Free
        /\ task' = [task EXCEPT ![worker.load]["fetch"] = "success"]
    BY <1>5 DEF FetchReturns, Running, Succeed, bronzeVars
  <2>2. \A k \in Loads : \A u \in {"refresh", "record"} :
           task'[k][u] = "success" => task[k][u] = "success"
    BY <2>1 DEF DagInv, TypeOK, TaskNames
  <2>3. ~Running("record", "return")'
    BY <2>1 DEF Running
  <2> QED BY <2>1, <2>2, <2>3, QuietSummary
<1>6. CASE CallProcedure
  <2>1. /\ UNCHANGED <<published, diffs, summary, events, task>> /\ tx'.step = "check"
        /\ worker \in WorkerStates /\ worker.task = "refresh"
        /\ worker' = [worker EXCEPT !.step = "wait"]
    BY <1>6 DEF CallProcedure, Running, Begin, GoTo, DagInv, TypeOK, WorkerStates
  <2>2. ~Running("record", "return")'
    BY <2>1 DEF Running, WorkerStates
  <2> QED BY <2>1, <2>2, QuietSummary
<1>7. CASE ProcedureStep \/ ProcedureFails
  <2>1. UNCHANGED <<published, diffs, summary, events, task, worker>>
    BY <1>7 DEF ProcedureStep, ProcedureFails, dagVars
  <2>2. tx \in Calls
    BY <1>7, ProcedureFrame DEF IInv
  <2>3. tx'.step # "returned"
    BY <1>7, <2>2 DEF ProcedureStep, ProcedureFails, CheckDuplicates, ComputeDiff,
       RewriteWindow, ReplaceSnapshot, StatementFails, Rollback, Calls
  <2> QED BY <2>1, <2>3, QuietSummary
<1>8. CASE RefreshRaises \/ WorkerLost
  <2>1. /\ UNCHANGED <<published, diffs, summary, events>>
        /\ worker' = Free /\ AttemptFails
        /\ tx' = tx \/ tx' = Idle
    BY <1>8 DEF RefreshRaises, WorkerLost, AttemptFails, Finish, bronzeVars
  <2>2. \A k \in Loads : \A u \in {"refresh", "record"} :
           task'[k][u] = "success" => task[k][u] = "success"
    BY <2>1 DEF AttemptFails, DagInv, TypeOK, TaskNames
  <2>3. ~Running("record", "return")' /\ Idle.step # "returned"
    BY <2>1 DEF Running, Idle
  <2> QED BY <2>1, <2>2, <2>3, QuietSummary
<1>9. CASE OrphanEnds
  <2>1. /\ UNCHANGED <<published, diffs, summary, events, task, worker>>
        /\ tx'.step # "returned"
    BY <1>9 DEF OrphanEnds, Finish, dagVars, Idle
  <2> QED BY <2>1, QuietSummary
<1>10. CASE ProcedureCommits
  BY <1>10, CommitSummary
<1>11. CASE RefreshReturns
  BY <1>11, RefreshReturnsSummary
<1>12. CASE RecordSummary
  BY <1>12, RecordSummarySummary
<1>13. CASE RecordReturns
  BY <1>13, RecordReturnsSummary
<1> QED BY <1>1, <1>2, <1>3, <1>4, <1>5, <1>6, <1>7, <1>8, <1>9, <1>10, <1>11, <1>12, <1>13,
           DagAssumption DEF Next, Scheduler, Execution

LEMMA SummaryInvariance == Spec => []SummaryInv
<1>1. IInv /\ DagInv /\ SummaryInv /\ [Next]_vars => SummaryInv'
  BY SummaryStep
<1> QED BY <1>1, InitSummary, DagInvariance, PTL DEF Spec

\* However its tasks are retried and cleared, a run that succeeded has one
\* durable summary, and it tells what the last commit of its load did.
THEOREM SummariesAreTrue == Spec => []SummaryTruthful
<1>1. SummaryInv => SummaryTruthful
  BY DEF SummaryInv
<1> QED BY <1>1, SummaryInvariance, PTL

\* No asset event outruns what it announces: its load's publication and
\* summary are durable before the transform can see it.
THEOREM EventsFollowPublication == Spec => []EventsAreDurable
<1>1. SummaryInv => EventsAreDurable
  BY DEF SummaryInv
<1> QED BY <1>1, SummaryInvariance, PTL

-----------------------------------------------------------------------------
(* What a load has staged is what it collected *)

\* The hypothesis of the theorems about what readers see: the operator clears
\* refresh_bronze only together with fetch_api_and_stage.  Cleared by itself it
\* publishes an empty load (run ingest_rerun).
CleanRerun == "refresh" \notin Clearable

LEMMA InitStaging == Init => StagingOK
BY DEF Init, StagingOK, ToBePublished, Running, BronzeInit, Idle, OpenSteps, TaskNames

\* Rows of a load show the content they were stamped from.
LEMMA ContentOfStamped ==
    ASSUME NEW l \in Loads, NEW content \in SUBSET [key : Keys, raw : Raws]
    PROVE  Content(Stamped(content, l)) = content
<1>1. \A c \in content : c = [key |-> c.key, raw |-> c.raw]
  OBVIOUS
<1> DEFINE row(c) == [key |-> c.key, raw |-> c.raw, load |-> l]
<1>2. \A c \in content : /\ row(c) \in Stamped(content, l)
                         /\ [key |-> row(c).key, raw |-> row(c).raw] = c
  BY <1>1 DEF Stamped
<1>3. content \subseteq Content(Stamped(content, l))
  BY <1>2 DEF Content
<1>4. \A r \in Stamped(content, l) : [key |-> r.key, raw |-> r.raw] \in content
  BY <1>1 DEF Stamped
<1>5. Content(Stamped(content, l)) \subseteq content
  BY <1>4 DEF Content
<1> QED BY <1>3, <1>5

\* Rows of a load carry the locations they were staged from.
LEMMA LocationsOfRows ==
    ASSUME NEW l, NEW locations
    PROVE  LocationsOf({[load |-> l, location |-> loc] : loc \in locations}) = locations
<1> DEFINE row(loc) == [load |-> l, location |-> loc]
           rows == {row(loc) : loc \in locations}
<1>1. \A loc : row(loc).location = loc
  OBVIOUS
<1> HIDE DEF row
<1>2. \A loc \in locations : row(loc) \in rows
  OBVIOUS
<1>3. \A r \in rows : \E loc \in locations : r = row(loc)
  OBVIOUS
<1> HIDE DEF rows
<1>4. LocationsOf(rows) = locations
  <2>1. LocationsOf(rows) \subseteq locations
    BY <1>1, <1>3 DEF LocationsOf
  <2>2. locations \subseteq LocationsOf(rows)
    BY <1>1, <1>2, Zenon DEF LocationsOf
  <2> QED BY <2>1, <2>2
<1> QED BY <1>4 DEF row, rows

\* A step that leaves the staged rows and the batches alone and gives no load
\* a publication to come that it had not before.
LEMMA QuietStaging ==
    ASSUME StagingOK, UNCHANGED <<staging, locationStaging, batch>>,
           \/ worker' = worker
           \/ worker' = Free
           \/ worker'.task # "fetch"
           \/ worker'.step \in {"collect", "deleteLocations"},
           \A l \in Loads : ToBePublished(l)' => ToBePublished(l)
    PROVE  StagingOK'
<1>1. \A step \in {"insertLocations", "deleteMeasurements", "insertMeasurements", "return"} :
         Running("fetch", step)' => Running("fetch", step) /\ worker' = worker
  BY DEF Running, Free
<1>2. \A l \in Loads : StagedAre(l)' = StagedAre(l)
  BY DEF StagedAre
<1> QED BY <1>1, <1>2 DEF StagingOK

\* While a load is fetched it has nothing to be published.
LEMMA FetchedNotPublished ==
    ASSUME DagInv, worker # Free, worker.task = "fetch"
    PROVE  /\ worker.load \in Loads /\ tx = Idle
           /\ ~ToBePublished(worker.load)
<1>1. worker.load \in Loads /\ tx = Idle /\ task[worker.load]["fetch"] = "running"
  BY DEF DagInv, TypeOK, FetchIsAlone, TasksOK, WorkerOK
<1> QED BY <1>1 DEF ToBePublished, Running, Idle, OpenSteps

\* A staging statement of the fetch in execution.
LEMMA StageStaging ==
    ASSUME DagInv, StagingOK, StageLocations \/ StageMeasurements
    PROVE  StagingOK'
<1> DEFINE l == worker.load
<1>1. /\ worker \in WorkerStates /\ worker # Free /\ worker.task = "fetch" /\ l \in Loads
      /\ tx = Idle /\ ~ToBePublished(l)
      /\ batch[l].content \in SUBSET [key : Keys, raw : Raws]
      /\ UNCHANGED <<batch, task, tx>>
  <2>1. /\ worker # Free /\ worker.task = "fetch" /\ worker.step # "collect"
        /\ UNCHANGED <<batch, task, tx>>
    BY DEF StageLocations, StageMeasurements, StageStep, Running,
       DeleteStagedLocations, InsertStagedLocations, DeleteStagedMeasurements,
       InsertStagedMeasurements
  <2>2. batch[l] \in Batches
    BY <2>1 DEF DagInv, FetchIsAlone
  <2> QED BY <2>1, <2>2, FetchedNotPublished DEF DagInv, TypeOK, WorkerStates, Batches, Contents
<1>2. ASSUME NEW to \in WorkerSteps, GoTo(to)
      PROVE  /\ worker' # Free /\ worker'.load = l /\ worker'.task = "fetch"
             /\ \A step \in WorkerSteps : Running("fetch", step)' => step = to
  <2>1. worker' = [worker EXCEPT !.step = to]
    BY <1>2 DEF GoTo
  <2>2. worker' # Free /\ worker'.load = l /\ worker'.task = "fetch" /\ worker'.step = to
    BY <1>1, <2>1 DEF WorkerStates, Free
  <2> QED BY <2>2 DEF Running
<1>3. ASSUME \A k \in Loads : k # l => /\ Of(staging', k) = Of(staging, k)
                                       /\ Of(locationStaging', k) = Of(locationStaging, k),
             worker' # Free, worker'.load = l, worker'.task = "fetch"
      PROVE  \A k \in Loads : ToBePublished(k)' => StagedAre(k)'
  <2>1. \A k \in Loads : ToBePublished(k)' => ToBePublished(k)
    BY <1>1, <1>3 DEF ToBePublished, Running
  <2>2. \A k \in Loads : ToBePublished(k) => k # l
    BY <1>1
  <2>3. \A k \in Loads : k # l => StagedAre(k)' = StagedAre(k)
    BY <1>1, <1>3 DEF StagedAre
  <2> QED BY <2>1, <2>2, <2>3 DEF StagingOK
<1> HIDE DEF l
<1>4. CASE StageStep("deleteLocations", "insertLocations", DeleteStagedLocations(worker.load))
  <2>1. locationStaging' = NotOf(locationStaging, l) /\ staging' = staging
        /\ GoTo("insertLocations")
    BY <1>4 DEF StageStep, DeleteStagedLocations, l
  <2>2. /\ Of(locationStaging', l) = {}
        /\ \A k \in Loads : k # l => Of(locationStaging', k) = Of(locationStaging, k)
    BY <2>1 DEF Of, NotOf
  <2>3. /\ worker' # Free /\ worker'.load = l /\ worker'.task = "fetch"
        /\ \A step \in WorkerSteps : Running("fetch", step)' => step = "insertLocations"
    BY <2>1, <1>2 DEF WorkerSteps
  <2> QED BY <1>3, <2>1, <2>2, <2>3 DEF StagingOK, WorkerSteps
<1>5. CASE StageStep("insertLocations", "deleteMeasurements",
                     InsertStagedLocations(worker.load, batch[worker.load].locations))
  <2>1. /\ locationStaging' = locationStaging
                      \cup {[load |-> l, location |-> loc] : loc \in batch[l].locations}
        /\ staging' = staging /\ GoTo("deleteMeasurements")
        /\ Of(locationStaging, l) = {}
    BY <1>5 DEF StageStep, InsertStagedLocations, StagingOK, l
  <2>2. /\ Of(locationStaging', l) = {[load |-> l, location |-> loc] : loc \in batch[l].locations}
        /\ \A k \in Loads : k # l => Of(locationStaging', k) = Of(locationStaging, k)
    BY <2>1 DEF Of
  <2>3. LocationsOf(Of(locationStaging', l)) = batch'[l].locations
    <3>1. batch' = batch
      BY <1>1
    <3>2. LocationsOf({[load |-> l, location |-> loc] : loc \in batch[l].locations})
             = batch[l].locations
      BY LocationsOfRows
    <3> QED BY <2>2, <3>1, <3>2
  <2>4. /\ worker' # Free /\ worker'.load = l /\ worker'.task = "fetch"
        /\ \A step \in WorkerSteps : Running("fetch", step)' => step = "deleteMeasurements"
    BY <2>1, <1>2 DEF WorkerSteps
  <2> QED BY <1>3, <2>1, <2>2, <2>3, <2>4 DEF StagingOK, WorkerSteps
<1>6. CASE StageStep("deleteMeasurements", "insertMeasurements",
                     DeleteStagedMeasurements(worker.load))
  <2>1. /\ staging' = NotOf(staging, l) /\ locationStaging' = locationStaging
        /\ GoTo("insertMeasurements")
        /\ LocationsOf(Of(locationStaging, l)) = batch[l].locations
    BY <1>6 DEF StageStep, DeleteStagedMeasurements, StagingOK, l
  <2>2. /\ Of(staging', l) = {}
        /\ \A k \in Loads : k # l => Of(staging', k) = Of(staging, k)
    BY <2>1 DEF Of, NotOf
  <2>3. /\ worker' # Free /\ worker'.load = l /\ worker'.task = "fetch"
        /\ \A step \in WorkerSteps : Running("fetch", step)' => step = "insertMeasurements"
    BY <2>1, <1>2 DEF WorkerSteps
  <2> QED BY <1>1, <1>3, <2>1, <2>2, <2>3 DEF StagingOK, WorkerSteps
<1>7. CASE StageStep("insertMeasurements", "return",
                     InsertStagedMeasurements(worker.load, batch[worker.load].content))
  <2>1. /\ staging' = staging \cup Stamped(batch[l].content, l)
        /\ locationStaging' = locationStaging
        /\ GoTo("return") /\ Of(staging, l) = {}
        /\ LocationsOf(Of(locationStaging, l)) = batch[l].locations
    BY <1>7 DEF StageStep, InsertStagedMeasurements, StagingOK, l
  <2>2. /\ Of(staging', l) = Stamped(batch[l].content, l)
        /\ \A k \in Loads : k # l => Of(staging', k) = Of(staging, k)
    BY <2>1 DEF Of, Stamped
  <2>3. Content(Of(staging', l)) = batch'[l].content
    BY <1>1, <2>2, ContentOfStamped
  <2>4. /\ worker' # Free /\ worker'.load = l /\ worker'.task = "fetch"
        /\ \A step \in WorkerSteps : Running("fetch", step)' => step = "return"
    BY <2>1, <1>2 DEF WorkerSteps
  <2> QED BY <1>1, <1>3, <2>1, <2>2, <2>3, <2>4 DEF StagingOK, WorkerSteps
<1> QED BY <1>4, <1>5, <1>6, <1>7 DEF StageLocations, StageMeasurements

LEMMA StagingStep ==
    ASSUME CleanRerun, IInv, DagInv, StagingOK, [Next]_vars
    PROVE  StagingOK'
<1>1. CASE \/ HourPasses \/ (\E l \in Loads : Start(l)) \/ TransformStarts \/ TransformEnds
           \/ RecordReturns \/ UNCHANGED vars
  <2>1. /\ UNCHANGED <<staging, locationStaging, batch, tx>>
        /\ \/ UNCHANGED <<task, worker>>
           \/ worker' = Free /\ RecordReturns
    BY <1>1 DEF HourPasses, Start, TransformStarts, TransformEnds, RecordReturns, Succeed,
       vars, dagVars, bronzeVars
  <2>2. \A l \in Loads : ToBePublished(l)' => ToBePublished(l)
    <3>1. CASE UNCHANGED <<task, worker>>
      BY <2>1, <3>1 DEF ToBePublished, Running
    <3>2. CASE RecordReturns
      <4>1. /\ worker' = Free /\ tx' = tx /\ worker.load \in Loads
            /\ task' = [task EXCEPT ![worker.load]["record"] = "success"]
        BY <2>1, <3>2 DEF RecordReturns, Running, Succeed, bronzeVars, DagInv, TypeOK
      <4>2. \A k \in Loads : \A t \in {"fetch", "refresh"} : task'[k][t] = task[k][t]
        BY <4>1 DEF DagInv, TypeOK, TaskNames
      <4> QED BY <4>1, <4>2 DEF ToBePublished, Running
    <3> QED BY <2>1, <3>1, <3>2
  <2> QED BY <2>1, <2>2, QuietStaging
<1>2. ASSUME NEW l \in Loads, NEW t \in TaskNames, t # "refresh", Clear(l, t)
      PROVE  StagingOK'
  <2>1. /\ UNCHANGED <<staging, locationStaging, batch, worker, tx>> /\ worker = Free
        /\ task' = [task EXCEPT ![l] = [u \in TaskNames |->
                       IF u \in Downstream(t) THEN "none" ELSE @[u]]]
    BY <1>2 DEF Clear, bronzeVars
  <2>2. \A k \in Loads : task'[k]["fetch"] = "success" =>
           task[k]["fetch"] = "success" /\ task'[k]["refresh"] = task[k]["refresh"]
    BY <1>2, <2>1 DEF DagInv, TypeOK, TaskNames, Downstream
  <2>3. \A k \in Loads : ToBePublished(k)' => ToBePublished(k)
    BY <2>1, <2>2 DEF ToBePublished, Running
  <2> QED BY <2>1, <2>3, QuietStaging
<1>3. ASSUME NEW l \in Loads, NEW t \in TaskNames, Launch(l, t)
      PROVE  StagingOK'
  <2>1. /\ UNCHANGED <<staging, locationStaging, batch, tx>> /\ tx = Idle /\ worker = Free
        /\ worker' = [load |-> l, task |-> t, step |-> FirstStep(t)]
        /\ task' = [task EXCEPT ![l][t] = "running"] /\ task[l][t] = "none"
        /\ t = "refresh" => task[l]["fetch"] = "success"
    BY <1>3 DEF Launch, UpstreamDone, Upstream, bronzeVars
  <2>2. worker'.task # "fetch" \/ worker'.step = "collect"
    BY <2>1 DEF FirstStep
  <2>3. \A k \in Loads : /\ task'[k]["fetch"] = "success" => task[k]["fetch"] = "success"
                         /\ task'[k]["refresh"] = "none" => task[k]["refresh"] = "none"
    BY <2>1 DEF DagInv, TypeOK, TaskNames
  <2>4. \A k \in Loads : Running("refresh", "call")' /\ worker'.load = k => ToBePublished(k)
    BY <2>1 DEF Running, ToBePublished
  <2>5. \A k \in Loads : ToBePublished(k)' => ToBePublished(k)
    BY <2>1, <2>3, <2>4 DEF ToBePublished
  <2> QED BY <2>1, <2>2, <2>5, QuietStaging
<1>4. ASSUME NEW b \in Batches, Collect(b)
      PROVE  StagingOK'
  <2> DEFINE l == worker.load
  <2>1. /\ worker \in WorkerStates /\ worker # Free /\ worker.task = "fetch"
        /\ l \in Loads /\ tx = Idle /\ ~ToBePublished(l)
    BY <1>4, FetchedNotPublished DEF Collect, Running, DagInv, TypeOK, WorkerStates
  <2>2. /\ worker' = [worker EXCEPT !.step = "deleteLocations"]
        /\ batch' = [batch EXCEPT ![l] = b]
        /\ UNCHANGED <<staging, locationStaging, tx, task>>
    BY <1>4 DEF Collect, GoTo, bronzeVars
  <2>3. worker'.task = "fetch" /\ worker'.step = "deleteLocations"
    BY <2>1, <2>2 DEF WorkerStates
  <2>4. \A k \in Loads : ToBePublished(k)' => ToBePublished(k) /\ k # l
    BY <2>1, <2>2, <2>3 DEF ToBePublished, Running
  <2>5. \A k \in Loads : k # l => StagedAre(k)' = StagedAre(k)
    BY <2>1, <2>2 DEF StagedAre, DagInv, TypeOK
  <2> QED BY <2>3, <2>4, <2>5 DEF StagingOK, Running
<1>5. CASE StageLocations \/ StageMeasurements
  BY <1>5, StageStaging
<1>6. CASE FetchReturns
  <2> DEFINE l == worker.load
  <2>1. /\ worker' = Free /\ l \in Loads /\ tx' = tx /\ tx = Idle
        /\ task' = [task EXCEPT ![l]["fetch"] = "success"]
        /\ UNCHANGED <<staging, locationStaging, batch>>
        /\ StagedAre(l)
    BY <1>6 DEF FetchReturns, Running, Succeed, bronzeVars, DagInv, TypeOK, FetchIsAlone,
       StagingOK, StagedAre
  <2>2. \A k \in Loads : ToBePublished(k)' => k = l \/ ToBePublished(k)
    BY <2>1 DEF ToBePublished, Running, DagInv, TypeOK, TaskNames
  <2>3. \A k \in Loads : StagedAre(k)' = StagedAre(k)
    BY <2>1 DEF StagedAre
  <2> QED BY <2>1, <2>2, <2>3 DEF StagingOK, Running
<1>7. CASE CallProcedure
  <2>1. /\ worker \in WorkerStates /\ worker.task = "refresh" /\ Running("refresh", "call")
        /\ worker' = [worker EXCEPT !.step = "wait"]
        /\ tx'.load = worker.load
        /\ UNCHANGED <<staging, locationStaging, batch, task>>
    BY <1>7 DEF CallProcedure, Running, Begin, GoTo, DagInv, TypeOK, WorkerStates
  <2>2. worker'.task = "refresh" /\ worker'.step = "wait"
    BY <2>1 DEF WorkerStates
  <2>3. \A k \in Loads : ToBePublished(k)' => ToBePublished(k)
    BY <2>1, <2>2 DEF ToBePublished, Running
  <2> QED BY <2>1, <2>2, <2>3, QuietStaging
<1>8. CASE ProcedureStep \/ ProcedureFails
  <2>1. /\ tx.step \in OpenSteps /\ tx'.load = tx.load
        /\ UNCHANGED <<task, worker, batch, staging, locationStaging>>
    <3>1. UNCHANGED <<staging, locationStaging>>
      BY <1>8 DEF ProcedureStep, ProcedureFails, CheckDuplicates, ComputeDiff,
         RewriteWindow, ReplaceSnapshot, StatementFails, Rollback
    <3> QED BY <1>8, <3>1, ProcedureFrame DEF IInv
  <2>2. \A k \in Loads : ToBePublished(k)' => ToBePublished(k)
    BY <2>1 DEF ToBePublished, Running
  <2> QED BY <2>1, <2>2, QuietStaging
<1>9. CASE ProcedureCommits
  <2>1. /\ tx \in Calls /\ tx.load \in Loads /\ tx # Idle /\ tx'.step = "returned"
        /\ UNCHANGED <<task, worker, batch>>
        /\ staging' = NotOf(staging, tx.load)
        /\ locationStaging' = NotOf(locationStaging, tx.load)
    BY <1>9, ProcedureFrame, CommitDiff DEF IInv, ProcedureCommits, Commit
  <2>2. /\ task[tx.load]["refresh"] # "none"
        /\ worker # Free => worker.task = "refresh" /\ worker.step = "wait"
    BY <2>1 DEF DagInv, TasksOK, CallOK
  <2>3. \A k \in Loads : ToBePublished(k)' => k # tx.load /\ ToBePublished(k)
    BY <2>1, <2>2 DEF ToBePublished, Running, OpenSteps
  <2>4. \A k \in Loads : k # tx.load => StagedAre(k)' = StagedAre(k)
    <3>1. \A k \in Loads : k # tx.load => /\ Of(staging', k) = Of(staging, k)
                                          /\ Of(locationStaging', k) = Of(locationStaging, k)
      BY <2>1 DEF Of, NotOf
    <3> QED BY <2>1, <3>1 DEF StagedAre
  <2> QED BY <2>1, <2>2, <2>3, <2>4 DEF StagingOK, Running
<1>10. CASE RefreshReturns \/ RefreshRaises \/ OrphanEnds
  <2>1. /\ tx' = Idle /\ tx # Idle /\ worker' = Free
        /\ UNCHANGED <<batch, staging, locationStaging>>
    BY <1>10 DEF RefreshReturns, RefreshRaises, OrphanEnds, Finish, Succeed, AttemptFails,
       dagVars, Idle, ClosedSteps
  <2>2. \A k \in Loads : \A t \in {"fetch", "refresh"} :
           task'[k][t] = task[k][t] \/ (t = "refresh" /\ task'[k][t] # "none")
    <3>1. CASE OrphanEnds
      BY <3>1 DEF OrphanEnds, dagVars
    <3>2. CASE RefreshReturns
      <4>1. task' = [task EXCEPT ![worker.load]["refresh"] = "success"]
        BY <3>2 DEF RefreshReturns, Running, Succeed
      <4> QED BY <4>1 DEF DagInv, TypeOK, TaskNames
    <3>3. CASE RefreshRaises
      <4>1. /\ tries[worker.load]["refresh"] >= 1 /\ tries[worker.load]["refresh"] \in 0..2
            /\ task' = [task EXCEPT ![worker.load]["refresh"] =
                    IF tries[worker.load]["refresh"] < Attempts("refresh")
                    THEN "none" ELSE "failed"]
        BY <3>3 DEF RefreshRaises, Running, AttemptFails, DagInv, TypeOK, TasksOK, WorkerOK,
           TaskNames
      <4>2. ~(tries[worker.load]["refresh"] < Attempts("refresh"))
        BY <4>1 DEF Attempts
      <4> QED BY <4>1, <4>2 DEF DagInv, TypeOK, TaskNames
    <3> QED BY <1>10, <3>1, <3>2, <3>3
  <2>3. \A k \in Loads : ToBePublished(k)' => ToBePublished(k)
    BY <2>1, <2>2 DEF ToBePublished, Running, Idle, OpenSteps
  <2> QED BY <2>1, <2>3, QuietStaging
<1>11. CASE WorkerLost
  <2> DEFINE l == worker.load
             t == worker.task
  <2>1. /\ worker' = Free /\ UNCHANGED <<tx, batch, staging, locationStaging>>
        /\ l \in Loads /\ t \in TaskNames
        /\ tries[l][t] >= 1 /\ tries[l][t] \in 0..2
        /\ task' = [task EXCEPT ![l][t] =
                      IF tries[l][t] < Attempts(t) THEN "none" ELSE "failed"]
    BY <1>11 DEF WorkerLost, AttemptFails, bronzeVars, DagInv, TypeOK, TasksOK, WorkerOK
  <2> HIDE DEF l, t
  <2>2. t # "record" => task' = [task EXCEPT ![l][t] = "failed"]
    <3>1. t # "record" => ~(tries[l][t] < Attempts(t))
      BY <2>1 DEF Attempts
    <3> QED BY <2>1, <3>1
  <2>3. \A k \in Loads : \A u \in {"fetch", "refresh"} :
           task'[k][u] = task[k][u] \/ task'[k][u] = "failed"
    BY <2>1, <2>2 DEF DagInv, TypeOK, TaskNames
  <2>4. \A k \in Loads : ToBePublished(k)' => ToBePublished(k)
    BY <2>1, <2>3 DEF ToBePublished, Running
  <2> QED BY <2>1, <2>4, QuietStaging
<1>12. CASE RecordSummary
  <2>1. /\ worker \in WorkerStates /\ worker.task = "record"
        /\ worker' = [worker EXCEPT !.step = "return"]
        /\ UNCHANGED <<staging, locationStaging, batch, task, tx>>
    BY <1>12 DEF RecordSummary, Running, GoTo, bronzeVars, DagInv, TypeOK, WorkerStates
  <2>2. worker'.task = "record"
    BY <2>1 DEF WorkerStates
  <2>3. \A k \in Loads : ToBePublished(k)' => ToBePublished(k)
    BY <2>1, <2>2 DEF ToBePublished, Running
  <2> QED BY <2>1, <2>2, <2>3, QuietStaging
<1> QED BY <1>1, <1>2, <1>3, <1>4, <1>5, <1>6, <1>7, <1>8, <1>9, <1>10, <1>11, <1>12,
           DagAssumption DEF Next, Scheduler, Execution, CleanRerun

LEMMA StagingInvariance == ASSUME CleanRerun PROVE Spec => []StagingOK
<1>1. CleanRerun
  OBVIOUS
<1>2. IInv /\ DagInv /\ StagingOK /\ [Next]_vars => StagingOK'
  BY <1>1, StagingStep
<1> QED BY <1>2, InitStaging, DagInvariance, PTL DEF Spec

-----------------------------------------------------------------------------
(* What readers see is what was collected *)

LastPublished == last # Nothing => last \in Loads /\ published[last] # Nothing

ReadersInv == LastPublished /\ PublishedAsCollected

\* The window a commit leaves and the snapshot it writes are the batch.
LEMMA CommitShowsBatch ==
    ASSUME IInv, DagInv, StagingOK, Commit
    PROVE  LET l == tx.load IN
           /\ Content(Staged(l)) = batch[l].content
           /\ Content(Within(measurements', Window[l])) = batch[l].content
           /\ LocationsOf(Of(snapshots', l)) = batch[l].locations
           /\ \A k \in Loads : k # l => Of(snapshots', k) = Of(snapshots, k)
<1> DEFINE l == tx.load
           S == Staged(l)
           B == Within(measurements, Window[l])
<1>1. /\ tx \in Calls /\ l \in Loads
      /\ tx.measurements = NewMeasurements(l)
      /\ tx.snapshots = Resnapped(snapshots, l)
      /\ UniqueKeys(S) /\ UniqueKeys(B)
      /\ S \in SUBSET MeasurementRows /\ B \in SUBSET MeasurementRows
  <2>1. tx \in Calls /\ l \in Loads
    BY OpenCall DEF Commit, OpenSteps, Calls, IInv
  <2>2. UniqueKeys(B) /\ B \in SUBSET MeasurementRows
    BY DEF IInv, BronzeUnique, UniqueKeys, Within, TablesTypeOK
  <2>3. S \in SUBSET MeasurementRows
    BY <2>1, StampedStaged DEF IInv, TablesTypeOK
  <2> QED BY <2>1, <2>2, <2>3 DEF Commit, IInv, WorkspaceOK
<1>2. measurements' = NewMeasurements(l) /\ snapshots' = Resnapped(snapshots, l)
  BY <1>1 DEF Commit
<1>3. StagedAre(l)
  BY <1>1 DEF StagingOK, ToBePublished, Commit, OpenSteps
<1>4. batch[l] \in Batches /\ \A r \in batch[l].content : r.key \in Window[l]
  <2>1. task[l]["refresh"] # "none"
    BY <1>1 DEF DagInv, TasksOK, CallOK, Calls, Idle
  <2> QED BY <1>1, <2>1 DEF DagInv, TasksOK, ChainOK, BatchOK
<1>5. S = Of(staging, l)
  <2>1. ASSUME NEW r \in Of(staging, l)
        PROVE  r.key \in Window[l]
    <3>1. [key |-> r.key, raw |-> r.raw] \in batch[l].content
      BY <1>3 DEF StagedAre, Content
    <3>2. [key |-> r.key, raw |-> r.raw].key \in Window[l]
      BY <1>4, <3>1
    <3> QED BY <3>2
  <2> QED BY <2>1 DEF Staged, Within
<1>6. Content(S) = batch[l].content
  BY <1>3, <1>5 DEF StagedAre
<1>7. Content(Within(measurements', Window[l])) = Content(S)
  <2>1. CASE BronzeChanged(Diff(S, B))
    <3>1. measurements' = Outside(measurements, Window[l]) \cup S
      BY <1>1, <1>2, <2>1, StampedStaged DEF NewMeasurements, Replaced, IInv, TablesTypeOK
    <3>2. Within(measurements', Window[l]) = S
      BY <3>1 DEF Outside, Within, Staged
    <3> QED BY <3>2
  <2>2. CASE ~BronzeChanged(Diff(S, B))
    <3>1. measurements' = measurements
      BY <1>2, <2>2 DEF NewMeasurements
    <3>2. Content(S) = Content(B)
      BY <1>1, <2>2, DiffTellsContent
    <3> QED BY <3>1, <3>2
  <2> QED BY <2>1, <2>2
<1>8. /\ Of(snapshots', l) = Of(locationStaging, l)
      /\ \A k \in Loads : k # l => Of(snapshots', k) = Of(snapshots, k)
  BY <1>2 DEF Resnapped, Of, NotOf
<1> QED BY <1>3, <1>6, <1>7, <1>8 DEF StagedAre

LEMMA InitReaders == Init => ReadersInv
BY DEF Init, BronzeInit, ReadersInv, LastPublished, PublishedAsCollected, Of

LEMMA CommitReaders ==
    ASSUME IInv, DagInv, StagingOK, ReadersInv, ProcedureCommits
    PROVE  ReadersInv'
<1> DEFINE l == tx.load
           effect == Diff(Within(measurements', Window[tx.load]),
                          Within(measurements, Window[tx.load]))
<1>1. tx \in Calls /\ l \in Loads
  BY CommitDiff DEF ProcedureCommits
<1>2. /\ Content(Within(measurements', Window[l])) = batch[l].content
      /\ LocationsOf(Of(snapshots', l)) = batch[l].locations
      /\ \A k \in Loads : k # l => Of(snapshots', k) = Of(snapshots, k)
  BY CommitShowsBatch DEF ProcedureCommits
<1>3. last' = l /\ published' = [published EXCEPT ![l] = [batch |-> batch[l], diff |-> effect]]
  BY DEF ProcedureCommits
<1> HIDE DEF effect, l
<1>4. /\ published'[l] # Nothing /\ published'[l].batch = batch[l]
      /\ \A k \in Loads : k # l => published'[k] = published[k]
  BY <1>1, <1>3 DEF DagInv, TypeOK, Nothing
<1>5. LastPublished'
  BY <1>1, <1>3, <1>4 DEF LastPublished
<1>6. Content(Within(measurements', Window[last'])) = published'[last'].batch.content
  BY <1>2, <1>3, <1>4
<1>7. \A k \in Loads : LocationsOf(Of(snapshots', k)) =
          IF published'[k] = Nothing THEN {} ELSE published'[k].batch.locations
  BY <1>2, <1>4 DEF ReadersInv, PublishedAsCollected, LocationsOf
<1>8. PublishedAsCollected'
  BY <1>6, <1>7 DEF PublishedAsCollected, LocationsOf
<1> QED BY <1>5, <1>8 DEF ReadersInv

LEMMA ReadersStep ==
    ASSUME IInv, DagInv, StagingOK, ReadersInv, [Next]_vars
    PROVE  ReadersInv'
<1>1. CASE ProcedureCommits
  BY <1>1, CommitReaders
<1>2. CASE UNCHANGED <<measurements, snapshots, published, last>>
  BY <1>2 DEF ReadersInv, LastPublished, PublishedAsCollected
<1>3. ProcedureCommits \/ UNCHANGED <<measurements, snapshots, published, last>>
  <2>1. CASE Scheduler \/ WorkerLost \/ TransformStarts \/ TransformEnds \/ UNCHANGED vars
    BY <2>1 DEF Scheduler, HourPasses, Start, Clear, WorkerLost, TransformStarts,
       TransformEnds, vars, dagVars, bronzeVars
  <2>2. CASE (\E l \in Loads, t \in TaskNames : Launch(l, t)) \/ (\E b \in Batches : Collect(b))
    BY <2>2 DEF Launch, Collect, bronzeVars
  <2>3. CASE StageLocations \/ StageMeasurements
    BY <2>3 DEF StageLocations, StageMeasurements, StageStep, tables, DeleteStagedLocations,
       InsertStagedLocations, DeleteStagedMeasurements, InsertStagedMeasurements
  <2>4. CASE FetchReturns \/ RecordSummary \/ RecordReturns
    BY <2>4 DEF FetchReturns, RecordSummary, RecordReturns, bronzeVars
  <2>5. CASE CallProcedure \/ RefreshReturns \/ RefreshRaises \/ OrphanEnds
    BY <2>5 DEF CallProcedure, RefreshReturns, RefreshRaises, OrphanEnds, Begin, Finish,
       tables, dagVars
  <2>6. CASE ProcedureStep \/ ProcedureFails
    BY <2>6 DEF ProcedureStep, ProcedureFails, CheckDuplicates, ComputeDiff, RewriteWindow,
       ReplaceSnapshot, StatementFails, Rollback, tables, dagVars
  <2> QED BY <2>1, <2>2, <2>3, <2>4, <2>5, <2>6 DEF Next, Execution
<1> QED BY <1>1, <1>2, <1>3

LEMMA ReadersInvariance == ASSUME CleanRerun PROVE Spec => []ReadersInv
<1>1. IInv /\ DagInv /\ StagingOK /\ ReadersInv /\ [Next]_vars => ReadersInv'
  BY ReadersStep
<1>2. Spec => []StagingOK
  BY StagingInvariance
<1> QED BY <1>1, <1>2, InitReaders, DagInvariance, PTL DEF Spec

\* As long as nobody clears refresh_bronze without the fetch before it,
\* readers of bronze see in the window refreshed last, and in every load's
\* snapshot, exactly what its run collected.
THEOREM ReadersSeeTheBatch == ASSUME CleanRerun PROVE Spec => []PublishedAsCollected
<1>1. ReadersInv => PublishedAsCollected
  BY DEF ReadersInv
<1>2. Spec => []ReadersInv
  BY ReadersInvariance
<1> QED BY <1>1, <1>2, PTL

\* Rows of a load's snapshot are told apart by their location alone.
LEMMA SnapshotOfLocations ==
    ASSUME NEW l \in Loads, NEW R \in SUBSET LocationRows, NEW Q \in SUBSET LocationRows,
           LocationsOf(Of(R, l)) = LocationsOf(Of(Q, l))
    PROVE  Of(R, l) = Of(Q, l)
<1>1. ASSUME NEW X \in SUBSET LocationRows, NEW Y \in SUBSET LocationRows,
             LocationsOf(Of(X, l)) = LocationsOf(Of(Y, l)), NEW r \in Of(X, l)
      PROVE  r \in Of(Y, l)
  <2>1. r.location \in LocationsOf(Of(Y, l))
    <3>1. r.location \in LocationsOf(Of(X, l))
      BY DEF LocationsOf
    <3> QED BY <1>1, <3>1
  <2>2. PICK q \in Of(Y, l) : q.location = r.location
    BY <2>1 DEF LocationsOf
  <2>3. q = [load |-> l, location |-> q.location] /\ r = [load |-> l, location |-> r.location]
    BY DEF Of, LocationRows
  <2> QED BY <2>2, <2>3
<1> QED BY <1>1

LEMMA RerunChangesNothing ==
    ASSUME IInv, IInv', DagInv, StagingOK, ReadersInv,
           Commit, last = tx.load, published[last].batch = batch[last]
    PROVE  Content(measurements') = Content(measurements) /\ snapshots' = snapshots
<1> DEFINE l == tx.load
           S == Staged(l)
           B == Within(measurements, Window[l])
<1>1. /\ tx \in Calls /\ l \in Loads
      /\ tx.measurements = NewMeasurements(l)
      /\ UniqueKeys(S) /\ UniqueKeys(B)
      /\ S \in SUBSET MeasurementRows /\ B \in SUBSET MeasurementRows
  <2>1. tx \in Calls /\ l \in Loads
    BY OpenCall DEF Commit, OpenSteps, Calls, IInv
  <2>2. UniqueKeys(B) /\ B \in SUBSET MeasurementRows
    BY DEF IInv, BronzeUnique, UniqueKeys, Within, TablesTypeOK
  <2>3. S \in SUBSET MeasurementRows
    BY <2>1, StampedStaged DEF IInv, TablesTypeOK
  <2> QED BY <2>1, <2>2, <2>3 DEF Commit, IInv, WorkspaceOK
<1>2. last = l /\ l # Nothing /\ published[l] # Nothing
  BY <1>1, DagAssumption DEF ReadersInv, LastPublished
<1>3. /\ Content(B) = batch[l].content
      /\ LocationsOf(Of(snapshots, l)) = batch[l].locations
  BY <1>1, <1>2 DEF ReadersInv, PublishedAsCollected, LocationsOf
<1>4. /\ Content(S) = batch[l].content
      /\ LocationsOf(Of(snapshots', l)) = batch[l].locations
      /\ \A k \in Loads : k # l => Of(snapshots', k) = Of(snapshots, k)
  BY CommitShowsBatch
<1>5. measurements' = measurements
  <2>1. ~BronzeChanged(Diff(S, B))
    BY <1>1, <1>3, <1>4, DiffTellsContent
  <2> QED BY <1>1, <2>1 DEF Commit, NewMeasurements
<1>6. snapshots' = snapshots
  <2>1. snapshots \in SUBSET LocationRows /\ snapshots' \in SUBSET LocationRows
    BY DEF IInv, TablesTypeOK
  <2>2. Of(snapshots', l) = Of(snapshots, l)
    BY <1>1, <1>3, <1>4, <2>1, SnapshotOfLocations
  <2>3. \A k \in Loads : Of(snapshots', k) = Of(snapshots, k)
    BY <1>4, <2>2
  <2>4. \A r \in LocationRows : r \in snapshots' <=> r \in snapshots
    BY <2>3 DEF Of, LocationRows
  <2> QED BY <2>1, <2>4
<1> QED BY <1>5, <1>6

\* Re-running a measurement window is idempotent (ADR-0008), as long as
\* nobody clears refresh_bronze without the fetch before it.
THEOREM RerunsAreIdempotent == ASSUME CleanRerun PROVE Spec => RerunIsIdempotent
<1> DEFINE Idempotent ==
        Commit /\ last = tx.load /\ published[last].batch = batch[last]
          => Content(measurements') = Content(measurements) /\ snapshots' = snapshots
<1>1. IInv /\ IInv' /\ DagInv /\ StagingOK /\ ReadersInv /\ [Next]_vars => [Idempotent]_vars
  BY RerunChangesNothing
<1>2. Spec => []StagingOK
  BY StagingInvariance
<1>3. Spec => []ReadersInv
  BY ReadersInvariance
<1> QED BY <1>1, <1>2, <1>3, DagInvariance, PTL DEF Spec, RerunIsIdempotent
=============================================================================
