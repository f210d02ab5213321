------------------------ MODULE IngestCollectProofs ------------------------
(***************************************************************************)
(* Proofs about IngestCollect, for any locations, sensors and measurement  *)
(* answers.                                                                *)
(***************************************************************************)
EXTENDS IngestCollect, SensorSelectionProofs, FunctionTheorems, FiniteSetTheorems

-----------------------------------------------------------------------------
(* The inductive invariant *)

\* Unless a measurement could not be parsed, every one has an instant, and the
\* batch has those that lie in the window.
StagedOK ==
    phase # "bad measurement" =>
        /\ \A i \in DOMAIN answers :
              answers[i].rows # ServerError => ToSet(answers[i].rows) \subseteq DOMAIN InstantOf
        /\ \A m \in Measurements :
              m \in ToSet(staged) <=> AnsweredBy(m.sensor, m.text) /\ m.text \in Inside

\* Every target sensor of a production location is still to be asked, or was.
AskedOK ==
    phase \in {"sensors", "returned"} =>
        \A i \in DOMAIN locations : \A s \in ToSet(locations[i].sensors) :
            locations[i].provider \in Providers /\ s.parameter \in TargetParameters =>
                s \in ToSet(sensors) \/ \E j \in DOMAIN answers : answers[j].sensor = s.id

FailedAnswers == {j \in DOMAIN answers : answers[j].rows = ServerError}
FailuresOK == serverErrorSensorCount = Cardinality(FailedAnswers)

ReturnedOK == phase = "returned" => sensors = <<>> /\ IsInjective(staged)

IInv == TypeOK /\ StagedOK /\ AskedOK /\ FailuresOK /\ ReturnedOK

-----------------------------------------------------------------------------
(* Constants and types *)

LEMMA Constants ==
    /\ DOMAIN InstantOf \subseteq Texts /\ MaxLocations \in Nat /\ MaxRows \in Nat
    /\ \A loc \in LocationRecords : loc.sensors \in Seq(Sensors)
    /\ \A loc \in LocationRecords : \A s \in ToSet(loc.sensors) : s \in Sensors
    /\ \A s \in Sensors : s.id \in SensorIds
<1>1. /\ DOMAIN InstantOf \subseteq Texts /\ MaxLocations \in Nat /\ MaxRows \in Nat
      /\ \A loc \in LocationRecords : loc.sensors \in Seq(ToSet(loc.sensors))
  BY CollectAssumption
<1>2. \A loc \in LocationRecords : ToSet(loc.sensors) \subseteq Sensors
  BY DEF Sensors
<1>3. ASSUME NEW loc \in LocationRecords PROVE loc.sensors \in Seq(Sensors)
  <2>1. loc.sensors \in Seq(ToSet(loc.sensors)) /\ ToSet(loc.sensors) \subseteq Sensors
    BY <1>1, <1>2, <1>3
  <2>2. PICK s, S : s = loc.sensors /\ S = ToSet(loc.sensors)
    OBVIOUS
  <2>3. s \in Seq(S) /\ S \subseteq Sensors
    BY <2>1, <2>2
  <2>4. s \in Seq(Sensors)
    BY ONLY <2>3
  <2> QED BY <2>2, <2>4
<1> QED BY <1>1, <1>2, <1>3 DEF SensorIds

LEMMA RowsTyped ==
    ASSUME NEW rows \in Rows
    PROVE  rows \in Seq(Texts) /\ Len(rows) \in Nat /\ Len(rows) <= MaxRows /\ rows # ServerError
<1>1. PICK n \in 0..MaxRows : rows \in [1..n -> Texts]
  BY DEF Rows
<1>2. MaxRows \in Nat /\ n \in Nat /\ n <= MaxRows
  BY Constants
<1>3. rows \in Seq(Texts) /\ Len(rows) = n
  BY <1>1, <1>2
<1>4. rows # ServerError
  <2> SUFFICES ASSUME rows = ServerError PROVE FALSE
    OBVIOUS
  <2>1. Len(rows) = 1
    BY DEF ServerError
  <2>2. rows[1] = "server error"
    BY DEF ServerError
  <2>3. rows[1] \in Texts
    BY ONLY <1>3, <2>1
  <2> QED BY <2>2, <2>3, CollectAssumption
<1> QED BY <1>2, <1>3, <1>4

LEMMA Types ==
    ASSUME TypeOK
    PROVE  /\ locations \in Seq(LocationRecords) /\ Len(locations) \in Nat
           /\ sensors \in Seq(Sensors) /\ staged \in Seq(Measurements) /\ answers \in Seq(Answers)
           /\ Len(answers) \in Nat /\ DOMAIN answers = 1..Len(answers)
           /\ apiRecordCount \in Nat /\ apiRecordCount <= MaxRows * Len(answers)
           /\ excludedRecordCount \in Nat /\ excludedRecordCount <= MaxRows * Len(answers)
           /\ serverErrorSensorCount \in Nat /\ serverErrorSensorCount <= Len(answers)
<1>1. /\ locations \in Seq(LocationRecords) /\ sensors \in Seq(Sensors)
      /\ staged \in Seq(Measurements) /\ answers \in Seq(Answers)
      /\ apiRecordCount \in 0..(MaxRows * Len(answers))
      /\ excludedRecordCount \in 0..(MaxRows * Len(answers))
      /\ serverErrorSensorCount \in 0..Len(answers)
  BY DEF TypeOK
<1>2. Len(answers) \in Nat /\ DOMAIN answers = 1..Len(answers) /\ Len(locations) \in Nat
  BY <1>1
<1>3. MaxRows * Len(answers) \in Nat
  BY <1>2, Constants
<1> QED BY <1>1, <1>2, <1>3

\* The sensors to ask are the target sensors of the production locations.
LEMMA SensorsToAskAre ==
    ASSUME NEW found \in Seq(LocationRecords)
    PROVE  /\ SensorsToAsk(found) \in Seq(Sensors)
           /\ \A i \in DOMAIN found : \A s \in ToSet(found[i].sensors) :
                found[i].provider \in Providers /\ s.parameter \in TargetParameters =>
                    s \in ToSet(SensorsToAsk(found))
<1> DEFINE ss == [i \in DOMAIN found |->
                    IF found[i].provider \in Providers THEN TargetSensors(found[i]) ELSE <<>>]
<1>1. /\ Len(found) \in Nat /\ DOMAIN found = 1..Len(found)
      /\ \A i \in 1..Len(found) : found[i] \in LocationRecords
  OBVIOUS
<1>2. \A i \in 1..Len(found) : /\ TargetSensors(found[i]) \in Seq(Sensors)
                               /\ ToSet(TargetSensors(found[i])) =
                                    {s \in ToSet(found[i].sensors) : s.parameter \in TargetParameters}
  BY <1>1, Constants, TargetsKept
<1>3. ss \in Seq(Seq(Sensors)) /\ Len(ss) = Len(found)
  <2>1. \A i \in 1..Len(found) : ss[i] \in Seq(Sensors)
    <3>1. <<>> \in Seq(Sensors)
      OBVIOUS
    <3> QED BY <1>1, <1>2, <3>1
  <2>2. ss \in [1..Len(found) -> Seq(Sensors)]
    BY <1>1, <2>1
  <2> HIDE DEF ss
  <2> QED BY <1>1, <2>2
<1>4. SensorsToAsk(found) = FlattenSeq(ss)
  BY DEF SensorsToAsk
<1>5. \A i \in 1..Len(found) :
        ss[i] = IF found[i].provider \in Providers THEN TargetSensors(found[i]) ELSE <<>>
  BY <1>1
<1> HIDE DEF ss
<1>6. /\ FlattenSeq(ss) \in Seq(Sensors)
      /\ ToSet(FlattenSeq(ss)) = UNION {ToSet(ss[i]) : i \in 1..Len(found)}
  BY <1>3, Flattened
<1>7. ASSUME NEW i \in 1..Len(found), NEW s \in ToSet(found[i].sensors),
             found[i].provider \in Providers, s.parameter \in TargetParameters
      PROVE  s \in ToSet(FlattenSeq(ss))
  <2>1. s \in ToSet(ss[i])
    BY <1>2, <1>5, <1>7
  <2> QED BY <1>6, <2>1
<1> QED BY <1>1, <1>4, <1>6, <1>7

LEMMA AppendedAnswer ==
    ASSUME TypeOK, NEW x \in SensorIds, NEW r \in Rows \cup {ServerError},
           answers' = Append(answers, [sensor |-> x, rows |-> r])
    PROVE  /\ answers' \in Seq(Answers) /\ Len(answers') = Len(answers) + 1
           /\ \A i \in 1..Len(answers) : answers'[i] = answers[i]
           /\ answers'[Len(answers) + 1].sensor = x /\ answers'[Len(answers) + 1].rows = r
           /\ DOMAIN answers' = 1..(Len(answers) + 1)
           /\ \A i \in 1..(Len(answers) + 1) : i \in 1..Len(answers) \/ i = Len(answers) + 1
<1>1. answers \in Seq(Answers) /\ Len(answers) \in Nat
  BY Types
<1>2. PICK a : a = [sensor |-> x, rows |-> r]
  OBVIOUS
<1>3. a \in Answers /\ a.sensor = x /\ a.rows = r
  BY <1>2 DEF Answers
<1>4. answers' = Append(answers, a)
  BY <1>2
<1>5. /\ Append(answers, a) \in Seq(Answers)
      /\ Len(Append(answers, a)) = Len(answers) + 1
      /\ \A i \in 1..Len(answers) : Append(answers, a)[i] = answers[i]
      /\ Append(answers, a)[Len(answers) + 1] = a
  BY <1>1, <1>3, AppendProperties
<1>6. \A i \in 1..(Len(answers) + 1) : i \in 1..Len(answers) \/ i = Len(answers) + 1
  BY <1>1
<1>7. DOMAIN answers' = 1..(Len(answers) + 1)
  BY <1>4, <1>5
<1> QED BY <1>3, <1>4, <1>5, <1>6, <1>7

\* What the sensors have answered once one more has.
LEMMA AnswersGrow ==
    ASSUME TypeOK, NEW x \in SensorIds, NEW r \in Rows \cup {ServerError},
           answers' = Append(answers, [sensor |-> x, rows |-> r]), NEW id, NEW text
    PROVE  AnsweredBy(id, text)' <=>
             AnsweredBy(id, text) \/ (x = id /\ r # ServerError /\ text \in ToSet(r))
<1>1. /\ \A i \in 1..Len(answers) : answers'[i] = answers[i]
      /\ answers'[Len(answers) + 1].sensor = x /\ answers'[Len(answers) + 1].rows = r
      /\ DOMAIN answers' = 1..(Len(answers) + 1)
      /\ \A i \in 1..(Len(answers) + 1) : i \in 1..Len(answers) \/ i = Len(answers) + 1
  BY AppendedAnswer
<1>2. Len(answers) \in Nat /\ DOMAIN answers = 1..Len(answers)
  BY Types
<1>3. 1..Len(answers) \subseteq 1..(Len(answers) + 1) /\ Len(answers) + 1 \in 1..(Len(answers) + 1)
  BY <1>2
<1>4. AnsweredBy(id, text)' <=>
        \E i \in 1..(Len(answers) + 1) : /\ answers'[i].sensor = id
                                         /\ answers'[i].rows # ServerError
                                         /\ text \in ToSet(answers'[i].rows)
  BY <1>1 DEF AnsweredBy
<1>5. AnsweredBy(id, text) <=>
        \E i \in 1..Len(answers) : /\ answers[i].sensor = id
                                   /\ answers[i].rows # ServerError
                                   /\ text \in ToSet(answers[i].rows)
  BY <1>2 DEF AnsweredBy
<1> QED BY ONLY <1>1, <1>3, <1>4, <1>5

\* The first of a list of sensors, and the others.
LEMMA NextSensor ==
    ASSUME TypeOK, sensors # <<>>
    PROVE  /\ Head(sensors) \in Sensors /\ Head(sensors).id \in SensorIds
           /\ Tail(sensors) \in Seq(Sensors)
           /\ \A s \in ToSet(sensors) : s = Head(sensors) \/ s \in ToSet(Tail(sensors))
<1>1. sensors \in Seq(Sensors) /\ Len(sensors) \in Nat
  BY Types
<1>2. Head(sensors) \in Sensors /\ Head(sensors) = sensors[1]
  BY <1>1, HeadTailProperties
<1>3. /\ Tail(sensors) \in Seq(Sensors) /\ Len(Tail(sensors)) = Len(sensors) - 1
      /\ \A i \in 1..Len(Tail(sensors)) : Tail(sensors)[i] = sensors[i + 1]
  BY <1>1, HeadTailProperties
<1>4. PICK t : t = Tail(sensors)
  OBVIOUS
<1>5. ASSUME NEW i \in 1..Len(sensors)
      PROVE  sensors[i] = Head(sensors) \/ sensors[i] \in ToSet(t)
  <2>1. DOMAIN t = 1..(Len(sensors) - 1)
    BY <1>3, <1>4
  <2>2. CASE i # 1
    <3>1. i - 1 \in 1..(Len(sensors) - 1) /\ (i - 1) + 1 = i
      BY <1>1, <2>2
    <3>2. t[i - 1] = sensors[i]
      BY <1>3, <1>4, <3>1
    <3> QED BY <2>1, <3>1, <3>2 DEF ToSet
  <2> QED BY <1>2, <2>2
<1>6. DOMAIN sensors = 1..Len(sensors)
  BY <1>1
<1>7. \A s \in ToSet(sensors) : s = Head(sensors) \/ s \in ToSet(t)
  BY <1>5, <1>6 DEF ToSet
<1> QED BY <1>2, <1>3, <1>4, <1>7, Constants

-----------------------------------------------------------------------------
(* The steps *)

LEMMA InitInvariant == Init => IInv
<1> SUFFICES ASSUME Init PROVE IInv
  OBVIOUS
<1>1. /\ phase = "discover" /\ locations = <<>> /\ sensors = <<>> /\ staged = <<>> /\ answers = <<>>
      /\ apiRecordCount = 0 /\ excludedRecordCount = 0 /\ serverErrorSensorCount = 0
  BY DEF Init
<1>2. /\ Len(<<>>) = 0 /\ DOMAIN <<>> = {} /\ ToSet(<<>>) = {}
      /\ \A S : <<>> \in Seq(S)
  BY DEF ToSet
<1>3. TypeOK
  <2>1. locations \in Seq(LocationRecords) /\ Len(locations) <= MaxLocations
    BY <1>1, <1>2, Constants
  <2>2. sensors \in Seq(Sensors) /\ staged \in Seq(Measurements) /\ answers \in Seq(Answers)
    BY <1>1, <1>2
  <2>3. MaxRows * Len(answers) = 0
    BY <1>1, <1>2, Constants
  <2>4. /\ {apiRecordCount, excludedRecordCount} \subseteq 0..(MaxRows * Len(answers))
        /\ serverErrorSensorCount \in 0..Len(answers)
    BY <1>1, <1>2, <2>3
  <2> QED BY <1>1, <2>1, <2>2, <2>4 DEF TypeOK
<1>4. StagedOK
  BY <1>1, <1>2 DEF StagedOK, AnsweredBy
<1>5. FailuresOK
  <2>1. FailedAnswers = {}
    BY <1>1, <1>2 DEF FailedAnswers
  <2> QED BY <1>1, <2>1, FS_EmptySet DEF FailuresOK
<1>6. AskedOK /\ ReturnedOK
  BY <1>1 DEF AskedOK, ReturnedOK
<1> QED BY <1>3, <1>4, <1>5, <1>6 DEF IInv

\* A measurement of sensor id with one of these texts.
FiledUnder(id, texts) == [i \in DOMAIN texts |-> [sensor |-> id, text |-> texts[i]]]

LEMMA Filed ==
    ASSUME NEW id \in SensorIds, NEW texts \in Seq(Texts)
    PROVE  /\ FiledUnder(id, texts) \in Seq(Measurements)
           /\ Len(FiledUnder(id, texts)) = Len(texts)
           /\ \A m \in Measurements : m \in ToSet(FiledUnder(id, texts)) <=>
                                        m.sensor = id /\ m.text \in ToSet(texts)
<1>1. PICK n \in Nat : n = Len(texts)
  OBVIOUS
<1>2. DOMAIN texts = 1..n /\ \A i \in 1..n : texts[i] \in Texts
  BY <1>1
<1>3. PICK f : f = FiledUnder(id, texts)
  OBVIOUS
<1>4. f = [i \in 1..n |-> [sensor |-> id, text |-> texts[i]]]
  BY <1>2, <1>3 DEF FiledUnder
<1>5. \A i \in 1..n : /\ f[i] \in Measurements /\ f[i].sensor = id /\ f[i].text = texts[i]
                      /\ f[i] = [sensor |-> id, text |-> texts[i]]
  BY <1>2, <1>4 DEF Measurements
<1>6. f \in Seq(Measurements) /\ Len(f) = n /\ DOMAIN f = 1..n
  <2>1. f \in [1..n -> Measurements]
    BY <1>4, <1>5
  <2> QED BY <2>1
<1>7. ToSet(f) = {f[i] : i \in 1..n} /\ ToSet(texts) = {texts[i] : i \in 1..n}
  BY <1>2, <1>6 DEF ToSet
<1>8. ASSUME NEW m \in Measurements
      PROVE  m \in ToSet(f) <=> m.sensor = id /\ m.text \in ToSet(texts)
  <2>1. m = [sensor |-> m.sensor, text |-> m.text]
    BY DEF Measurements
  <2>2. ASSUME NEW i \in 1..n, m.sensor = id, m.text = texts[i]
        PROVE  m = f[i]
    BY <1>5, <2>1, <2>2
  <2>3. m \in ToSet(f) => m.sensor = id /\ m.text \in ToSet(texts)
    <3> SUFFICES ASSUME m \in ToSet(f) PROVE m.sensor = id /\ m.text \in ToSet(texts)
      OBVIOUS
    <3>1. PICK i \in 1..n : m = f[i]
      BY <1>7
    <3>2. texts[i] \in ToSet(texts)
      BY <1>7
    <3> QED BY <1>5, <3>1, <3>2
  <2>4. m.sensor = id /\ m.text \in ToSet(texts) => m \in ToSet(f)
    BY ONLY <1>7, <2>2
  <2> QED BY <2>3, <2>4
<1> QED BY <1>1, <1>3, <1>6, <1>8

\* What taking the rows of one sensor does to the batch and to the counters.
LEMMA TakenRows ==
    ASSUME TypeOK, NEW rows \in Rows, TakeRows(rows)
    PROVE  /\ staged' \in Seq(Measurements)
           /\ \A m \in Measurements : m \in ToSet(staged') <=>
                \/ m \in ToSet(staged)
                \/ m.sensor = Head(sensors).id /\ m.text \in ToSet(rows) /\ m.text \in Inside
           /\ apiRecordCount' = apiRecordCount + Len(rows)
           /\ \E n \in Nat : /\ n <= Len(rows)
                             /\ excludedRecordCount' = excludedRecordCount + Len(rows) - n
<1> PICK inside : inside = Keeping(rows, Inside)
  OBVIOUS
<1>1. rows \in Seq(Texts) /\ Len(rows) \in Nat
  BY RowsTyped
<1>2. /\ inside \in Seq(Texts) /\ ToSet(inside) = ToSet(rows) \cap Inside
      /\ Len(inside) <= Len(rows)
  BY <1>1, Kept
<1>3. /\ sensors # <<>>
      /\ staged' = staged \o FiledUnder(Head(sensors).id, inside)
      /\ apiRecordCount' = apiRecordCount + Len(rows)
      /\ excludedRecordCount' = excludedRecordCount + Len(rows) - Len(inside)
  BY DEF TakeRows, Answered, FiledUnder
<1>4. Head(sensors).id \in SensorIds
  BY <1>3, NextSensor
<1>5. PICK new : new = FiledUnder(Head(sensors).id, inside)
  OBVIOUS
<1>6. /\ new \in Seq(Measurements)
      /\ \A m \in Measurements : m \in ToSet(new) <=>
           m.sensor = Head(sensors).id /\ m.text \in ToSet(inside)
  BY <1>2, <1>4, <1>5, Filed
<1>7. staged \in Seq(Measurements)
  BY Types
<1>8. staged \o new \in Seq(Measurements) /\ ToSet(staged \o new) = ToSet(staged) \cup ToSet(new)
  BY <1>6, <1>7, Concatenated
<1>9. Len(inside) \in Nat
  BY <1>2
<1> QED BY <1>2, <1>3, <1>5, <1>6, <1>8, <1>9

LEMMA TypeStep ==
    ASSUME TypeOK, [Next]_vars
    PROVE  TypeOK'
<1>0. /\ locations \in Seq(LocationRecords) /\ Len(locations) <= MaxLocations
      /\ sensors \in Seq(Sensors) /\ staged \in Seq(Measurements) /\ answers \in Seq(Answers)
      /\ {apiRecordCount, excludedRecordCount} \subseteq 0..(MaxRows * Len(answers))
      /\ serverErrorSensorCount \in 0..Len(answers)
  BY DEF TypeOK
<1>1. ASSUME NEW n \in 0..MaxLocations, NEW found \in [1..n -> LocationRecords], Discover(found)
      PROVE  TypeOK'
  <2>1. n \in Nat /\ n <= MaxLocations
    BY Constants
  <2>2. found \in Seq(LocationRecords) /\ Len(found) = n
    BY <2>1
  <2>3. SensorsToAsk(found) \in Seq(Sensors)
    BY <2>2, SensorsToAskAre
  <2>4. /\ phase' = "sensors" /\ locations' = found /\ sensors' = SensorsToAsk(found)
        /\ UNCHANGED <<staged, apiRecordCount, excludedRecordCount, serverErrorSensorCount, answers>>
    BY <1>1 DEF Discover, counters
  <2>5. Len(locations') <= MaxLocations
    BY <2>1, <2>2, <2>4
  <2> QED BY <1>0, <2>2, <2>3, <2>4, <2>5 DEF TypeOK
<1>2. ASSUME NEW rows \in Rows \cup {ServerError}, Answered(rows)
      PROVE  /\ sensors # <<>> /\ answers' \in Seq(Answers) /\ Len(answers') = Len(answers) + 1
             /\ Tail(sensors) \in Seq(Sensors)
  BY <1>2, AppendedAnswer, NextSensor DEF Answered
<1>3. ASSUME NEW n \in Nat, NEW m \in Nat, n <= MaxRows * Len(answers), m <= MaxRows,
             Len(answers') = Len(answers) + 1
      PROVE  n + m \in 0..(MaxRows * Len(answers')) /\ n \in 0..(MaxRows * Len(answers'))
  <2>1. PICK k \in Nat : k = Len(answers)
    BY Types
  <2>2. MaxRows * (k + 1) = MaxRows * k + MaxRows /\ MaxRows * k \in Nat /\ MaxRows \in Nat
    BY <2>1, Constants
  <2> QED BY <1>3, <2>1, <2>2
<1>4. ASSUME Len(answers') = Len(answers) + 1
      PROVE  /\ serverErrorSensorCount \in 0..Len(answers')
             /\ serverErrorSensorCount + 1 \in 0..Len(answers')
  BY <1>4, Types
<1>5. ASSUME NEW rows \in Rows, TakeRows(rows)
      PROVE  TypeOK'
  <2>1. /\ Answered(rows) /\ sensors' = Tail(sensors)
        /\ UNCHANGED <<phase, locations, serverErrorSensorCount>>
    BY <1>5 DEF TakeRows
  <2>2. answers' \in Seq(Answers) /\ Len(answers') = Len(answers) + 1 /\ sensors' \in Seq(Sensors)
    BY <1>2, <2>1
  <2>3. staged' \in Seq(Measurements)
    BY <1>5, TakenRows
  <2>4. Len(rows) \in Nat /\ Len(rows) <= MaxRows
    BY RowsTyped
  <2>5. apiRecordCount' \in 0..(MaxRows * Len(answers'))
    <3>1. apiRecordCount' = apiRecordCount + Len(rows)
      BY <1>5, TakenRows
    <3> QED BY <1>3, <2>2, <2>4, <3>1, Types
  <2>6. excludedRecordCount' \in 0..(MaxRows * Len(answers'))
    <3>1. PICK n \in Nat : /\ n <= Len(rows)
                           /\ excludedRecordCount' = excludedRecordCount + Len(rows) - n
      BY <1>5, TakenRows
    <3>2. /\ Len(rows) - n \in Nat /\ Len(rows) - n <= MaxRows
          /\ excludedRecordCount' = excludedRecordCount + (Len(rows) - n)
      <4>1. PICK l \in Nat, e \in Nat : l = Len(rows) /\ e = excludedRecordCount
        BY <2>4, Types
      <4>2. l <= MaxRows /\ n <= l /\ MaxRows \in Nat
        BY <2>4, <3>1, <4>1, Constants
      <4>3. l - n \in Nat /\ l - n <= MaxRows /\ e + l - n = e + (l - n)
        BY <4>2
      <4> QED BY <3>1, <4>1, <4>3
    <3> QED BY <1>3, <2>2, <3>2, Types
  <2>7. serverErrorSensorCount' \in 0..Len(answers')
    BY <1>4, <2>1, <2>2
  <2>8. {apiRecordCount', excludedRecordCount'} \subseteq 0..(MaxRows * Len(answers'))
    BY <2>5, <2>6
  <2> QED BY <1>0, <2>1, <2>2, <2>3, <2>7, <2>8 DEF TypeOK
<1>6. ASSUME NEW rows \in Rows \cup {ServerError}, Answered(rows),
             BadMeasurement(rows) \/ (rows = ServerError /\ SkipSensor)
      PROVE  TypeOK'
  <2>1. answers' \in Seq(Answers) /\ Len(answers') = Len(answers) + 1 /\ Tail(sensors) \in Seq(Sensors)
    BY <1>2, <1>6
  <2>2. {apiRecordCount, excludedRecordCount} \subseteq 0..(MaxRows * Len(answers'))
    <3>1. 0 \in Nat /\ 0 <= MaxRows
      BY Constants
    <3>2. apiRecordCount \in 0..(MaxRows * Len(answers'))
      BY <1>3, <2>1, <3>1, Types
    <3>3. excludedRecordCount \in 0..(MaxRows * Len(answers'))
      BY <1>3, <2>1, <3>1, Types
    <3> QED BY <3>2, <3>3
  <2>3. /\ serverErrorSensorCount \in 0..Len(answers')
        /\ serverErrorSensorCount + 1 \in 0..Len(answers')
    BY <1>4, <2>1
  <2>4. CASE BadMeasurement(rows)
    <3>1. /\ phase' = "bad measurement"
          /\ UNCHANGED <<locations, sensors, staged, apiRecordCount, excludedRecordCount,
                         serverErrorSensorCount>>
      BY <2>4 DEF BadMeasurement, counters
    <3> QED BY <1>0, <2>1, <2>2, <2>3, <3>1 DEF TypeOK, Ends
  <2>5. CASE SkipSensor
    <3>1. /\ serverErrorSensorCount' = serverErrorSensorCount + 1 /\ sensors' = Tail(sensors)
          /\ UNCHANGED <<phase, locations, staged, apiRecordCount, excludedRecordCount>>
      BY <2>5 DEF SkipSensor
    <3> QED BY <1>0, <2>1, <2>2, <2>3, <3>1 DEF TypeOK
  <2> QED BY <1>6, <2>4, <2>5
<1>7. CASE DiscoveryFails \/ SensorFails \/ RejectDuplicateIdentities
  <2>1. /\ UNCHANGED <<locations, sensors, staged, apiRecordCount, excludedRecordCount,
                       serverErrorSensorCount, answers>>
        /\ phase' \in Ends
    BY <1>7 DEF DiscoveryFails, SensorFails, RejectDuplicateIdentities, counters, Ends
  <2> QED BY <1>0, <2>1 DEF TypeOK
<1>8. CASE UNCHANGED vars
  BY <1>0, <1>8 DEF vars, counters, TypeOK
<1>9. ASSUME NEW rows \in Rows, BadMeasurement(rows) PROVE TypeOK'
  <2>1. Answered(rows) /\ rows \in Rows \cup {ServerError}
    BY <1>9 DEF BadMeasurement
  <2> QED BY <1>6, <1>9, <2>1
<1>10. CASE SkipSensor
  <2>1. Answered(ServerError) /\ ServerError \in Rows \cup {ServerError}
    BY <1>10 DEF SkipSensor
  <2> QED BY <1>6, <1>10, <2>1
<1> QED BY <1>1, <1>5, <1>7, <1>8, <1>9, <1>10 DEF Next

LEMMA StagedStep ==
    ASSUME TypeOK, StagedOK, [Next]_vars
    PROVE  StagedOK'
<1>0. answers \in Seq(Answers) /\ Len(answers) \in Nat /\ DOMAIN answers = 1..Len(answers)
  BY Types
<1>1. ASSUME NEW x \in SensorIds, NEW r \in Rows \cup {ServerError},
             answers' = Append(answers, [sensor |-> x, rows |-> r]),
             phase # "bad measurement", r # ServerError => ToSet(r) \subseteq DOMAIN InstantOf
      PROVE  \A i \in DOMAIN answers' :
               answers'[i].rows # ServerError => ToSet(answers'[i].rows) \subseteq DOMAIN InstantOf
  <2>1. /\ \A i \in 1..Len(answers) : answers'[i] = answers[i]
        /\ answers'[Len(answers) + 1].rows = r
        /\ DOMAIN answers' = 1..(Len(answers) + 1)
        /\ \A i \in 1..(Len(answers) + 1) : i \in 1..Len(answers) \/ i = Len(answers) + 1
    BY <1>1, AppendedAnswer
  <2>2. \A i \in 1..Len(answers) :
          answers[i].rows # ServerError => ToSet(answers[i].rows) \subseteq DOMAIN InstantOf
    BY <1>0, <1>1 DEF StagedOK
  <2>3. r # ServerError => ToSet(r) \subseteq DOMAIN InstantOf
    BY <1>1
  <2> QED BY ONLY <2>1, <2>2, <2>3
<1>2. ASSUME NEW rows \in Rows, TakeRows(rows)
      PROVE  StagedOK'
  <2>1. /\ phase' = phase /\ sensors # <<>> /\ ToSet(rows) \subseteq DOMAIN InstantOf
        /\ answers' = Append(answers, [sensor |-> Head(sensors).id, rows |-> rows])
    BY <1>2 DEF TakeRows, Answered
  <2>2. SUFFICES ASSUME phase # "bad measurement" PROVE StagedOK'
    BY <2>1 DEF StagedOK
  <2>3. Head(sensors).id \in SensorIds /\ rows # ServerError
    BY <2>1, NextSensor, RowsTyped
  <2>4. \A i \in DOMAIN answers' :
          answers'[i].rows # ServerError => ToSet(answers'[i].rows) \subseteq DOMAIN InstantOf
    BY <1>1, <2>1, <2>2, <2>3
  <2>5. ASSUME NEW m \in Measurements
        PROVE  m \in ToSet(staged') <=> AnsweredBy(m.sensor, m.text)' /\ m.text \in Inside
    <3>1. AnsweredBy(m.sensor, m.text)' <=>
            AnsweredBy(m.sensor, m.text) \/ (Head(sensors).id = m.sensor /\ m.text \in ToSet(rows))
      BY <2>1, <2>3, AnswersGrow
    <3>2. m \in ToSet(staged) <=> AnsweredBy(m.sensor, m.text) /\ m.text \in Inside
      BY <2>2 DEF StagedOK
    <3>3. m \in ToSet(staged') <=>
            \/ m \in ToSet(staged)
            \/ m.sensor = Head(sensors).id /\ m.text \in ToSet(rows) /\ m.text \in Inside
      BY <1>2, TakenRows
    <3> QED BY ONLY <3>1, <3>2, <3>3
  <2> QED BY <2>4, <2>5 DEF StagedOK
<1>3. CASE SkipSensor
  <2>1. /\ phase' = phase /\ sensors # <<>> /\ staged' = staged
        /\ answers' = Append(answers, [sensor |-> Head(sensors).id, rows |-> ServerError])
    BY <1>3 DEF SkipSensor, Answered
  <2>2. SUFFICES ASSUME phase # "bad measurement" PROVE StagedOK'
    BY <2>1 DEF StagedOK
  <2>3. Head(sensors).id \in SensorIds
    BY <2>1, NextSensor
  <2>4. \A i \in DOMAIN answers' :
          answers'[i].rows # ServerError => ToSet(answers'[i].rows) \subseteq DOMAIN InstantOf
    BY <1>1, <2>1, <2>2, <2>3
  <2>5. ASSUME NEW m \in Measurements
        PROVE  m \in ToSet(staged') <=> AnsweredBy(m.sensor, m.text)' /\ m.text \in Inside
    <3>1. AnsweredBy(m.sensor, m.text)' <=> AnsweredBy(m.sensor, m.text)
      BY <2>1, <2>3, AnswersGrow
    <3>2. m \in ToSet(staged) <=> AnsweredBy(m.sensor, m.text) /\ m.text \in Inside
      BY <2>2 DEF StagedOK
    <3> QED BY <2>1, <3>1, <3>2
  <2> QED BY <2>4, <2>5 DEF StagedOK
<1>4. ASSUME NEW rows \in Rows, BadMeasurement(rows)
      PROVE  StagedOK'
  BY <1>4 DEF BadMeasurement, StagedOK
<1>5. ASSUME UNCHANGED <<staged, answers>>, phase' = "bad measurement" \/ phase # "bad measurement"
      PROVE  StagedOK'
  BY <1>5 DEF StagedOK, AnsweredBy
<1>6. ASSUME NEW n \in 0..MaxLocations, NEW found \in [1..n -> LocationRecords], Discover(found)
      PROVE  StagedOK'
  BY <1>5, <1>6 DEF Discover
<1>7. CASE DiscoveryFails \/ SensorFails \/ RejectDuplicateIdentities
  BY <1>5, <1>7 DEF DiscoveryFails, SensorFails, RejectDuplicateIdentities
<1>8. CASE UNCHANGED vars
  BY <1>5, <1>8 DEF vars
<1> QED BY <1>2, <1>3, <1>4, <1>6, <1>7, <1>8 DEF Next

LEMMA AskedStep ==
    ASSUME TypeOK, AskedOK, [Next]_vars
    PROVE  AskedOK'
<1>0. answers \in Seq(Answers) /\ Len(answers) \in Nat /\ DOMAIN answers = 1..Len(answers)
  BY Types
<1>1. ASSUME NEW r \in Rows \cup {ServerError}, Answered(r), phase' = phase, locations' = locations,
             sensors' = Tail(sensors)
      PROVE  AskedOK'
  <2>1. /\ phase = "sensors" /\ sensors # <<>>
        /\ answers' = Append(answers, [sensor |-> Head(sensors).id, rows |-> r])
    BY <1>1 DEF Answered
  <2>2. Head(sensors).id \in SensorIds
    BY <2>1, NextSensor
  <2>3. /\ \A i \in 1..Len(answers) : answers'[i] = answers[i]
        /\ answers'[Len(answers) + 1].sensor = Head(sensors).id
        /\ DOMAIN answers' = 1..(Len(answers) + 1)
    BY <2>1, <2>2, AppendedAnswer
  <2>4. 1..Len(answers) \subseteq 1..(Len(answers) + 1) /\ Len(answers) + 1 \in 1..(Len(answers) + 1)
    BY <1>0
  <2>5. ASSUME NEW s, s \in ToSet(sensors) \/ \E j \in DOMAIN answers : answers[j].sensor = s.id
        PROVE  s \in ToSet(sensors') \/ \E j \in DOMAIN answers' : answers'[j].sensor = s.id
    <3>1. CASE \E j \in DOMAIN answers : answers[j].sensor = s.id
      BY <1>0, <2>3, <2>4, <3>1
    <3>2. CASE s \in ToSet(sensors)
      <4>1. s = Head(sensors) \/ s \in ToSet(Tail(sensors))
        BY <2>1, <3>2, NextSensor
      <4> QED BY <1>1, <2>3, <2>4, <4>1
    <3> QED BY <2>5, <3>1, <3>2
  <2> QED BY <1>1, <2>1, <2>5 DEF AskedOK
<1>2. ASSUME NEW rows \in Rows, TakeRows(rows)
      PROVE  AskedOK'
  <2>1. /\ Answered(rows) /\ phase' = phase /\ locations' = locations /\ sensors' = Tail(sensors)
        /\ rows \in Rows \cup {ServerError}
    BY <1>2 DEF TakeRows
  <2> QED BY <1>1, <2>1
<1>3. CASE SkipSensor
  <2>1. /\ Answered(ServerError) /\ phase' = phase /\ locations' = locations
        /\ sensors' = Tail(sensors) /\ ServerError \in Rows \cup {ServerError}
    BY <1>3 DEF SkipSensor
  <2> QED BY <1>1, <2>1
<1>4. ASSUME NEW n \in 0..MaxLocations, NEW found \in [1..n -> LocationRecords], Discover(found)
      PROVE  AskedOK'
  <2>1. found \in Seq(LocationRecords)
    <3>1. n \in Nat
      BY Constants
    <3> QED BY <3>1
  <2>2. locations' = found /\ sensors' = SensorsToAsk(found)
    BY <1>4 DEF Discover
  <2>3. \A i \in DOMAIN found : \A s \in ToSet(found[i].sensors) :
          found[i].provider \in Providers /\ s.parameter \in TargetParameters =>
              s \in ToSet(SensorsToAsk(found))
    BY <2>1, SensorsToAskAre
  <2> QED BY <2>2, <2>3 DEF AskedOK
<1>5. ASSUME NEW rows \in Rows, BadMeasurement(rows)
      PROVE  AskedOK'
  BY <1>5 DEF BadMeasurement, AskedOK
<1>6. CASE RejectDuplicateIdentities
  BY <1>6 DEF RejectDuplicateIdentities, AskedOK
<1>7. CASE DiscoveryFails \/ SensorFails
  BY <1>7 DEF DiscoveryFails, SensorFails, AskedOK
<1>8. CASE UNCHANGED vars
  BY <1>8 DEF vars, AskedOK
<1> QED BY <1>2, <1>3, <1>4, <1>5, <1>6, <1>7, <1>8 DEF Next

LEMMA FailuresStep ==
    ASSUME TypeOK, FailuresOK, [Next]_vars
    PROVE  FailuresOK'
<1>0. answers \in Seq(Answers) /\ Len(answers) \in Nat /\ DOMAIN answers = 1..Len(answers)
  BY Types
<1>1. IsFiniteSet(FailedAnswers) /\ Len(answers) + 1 \notin FailedAnswers
  <2>1. IsFiniteSet(1..Len(answers))
    BY <1>0, FS_Interval
  <2>2. FailedAnswers \in SUBSET (1..Len(answers))
    BY <1>0 DEF FailedAnswers
  <2>3. Len(answers) + 1 \notin 1..Len(answers)
    BY <1>0
  <2> QED BY <2>1, <2>2, <2>3, FS_Subset
<1>2. ASSUME NEW r \in Rows \cup {ServerError}, Answered(r)
      PROVE  FailedAnswers' = FailedAnswers \cup (IF r = ServerError THEN {Len(answers) + 1} ELSE {})
  <2>1. /\ sensors # <<>>
        /\ answers' = Append(answers, [sensor |-> Head(sensors).id, rows |-> r])
    BY <1>2 DEF Answered
  <2>2. Head(sensors).id \in SensorIds
    BY <2>1, NextSensor
  <2>3. /\ \A i \in 1..Len(answers) : answers'[i] = answers[i]
        /\ answers'[Len(answers) + 1].rows = r
        /\ DOMAIN answers' = 1..(Len(answers) + 1)
        /\ \A i \in 1..(Len(answers) + 1) : i \in 1..Len(answers) \/ i = Len(answers) + 1
    BY <2>1, <2>2, AppendedAnswer
  <2>4. 1..Len(answers) \subseteq 1..(Len(answers) + 1) /\ Len(answers) + 1 \in 1..(Len(answers) + 1)
    BY <1>0
  <2>5. FailedAnswers = {j \in 1..Len(answers) : answers[j].rows = ServerError}
    BY <1>0 DEF FailedAnswers
  <2>6. FailedAnswers' = {j \in 1..(Len(answers) + 1) : answers'[j].rows = ServerError}
    BY <2>3 DEF FailedAnswers
  <2> QED BY ONLY <2>3, <2>4, <2>5, <2>6
<1>3. CASE SkipSensor
  <2>1. FailedAnswers' = FailedAnswers \cup {Len(answers) + 1}
    BY <1>2, <1>3 DEF SkipSensor
  <2>2. serverErrorSensorCount' = serverErrorSensorCount + 1
    BY <1>3 DEF SkipSensor
  <2>3. Cardinality(FailedAnswers \cup {Len(answers) + 1}) = Cardinality(FailedAnswers) + 1
    BY <1>1, FS_AddElement
  <2> QED BY <2>1, <2>2, <2>3 DEF FailuresOK
<1>4. ASSUME NEW rows \in Rows, Answered(rows), serverErrorSensorCount' = serverErrorSensorCount
      PROVE  FailuresOK'
  <2>1. rows # ServerError
    BY RowsTyped
  <2>2. FailedAnswers' = FailedAnswers
    BY <1>2, <1>4, <2>1
  <2> QED BY <1>4, <2>2 DEF FailuresOK
<1>5. ASSUME NEW rows \in Rows, TakeRows(rows) \/ BadMeasurement(rows)
      PROVE  FailuresOK'
  BY <1>4, <1>5 DEF TakeRows, BadMeasurement, counters
<1>6. ASSUME NEW n \in 0..MaxLocations, NEW found \in [1..n -> LocationRecords], Discover(found)
      PROVE  FailuresOK'
  BY <1>6 DEF Discover, counters, FailuresOK, FailedAnswers
<1>7. CASE DiscoveryFails \/ SensorFails \/ RejectDuplicateIdentities
  BY <1>7 DEF DiscoveryFails, SensorFails, RejectDuplicateIdentities, counters, FailuresOK, FailedAnswers
<1>8. CASE UNCHANGED vars
  BY <1>8 DEF vars, counters, FailuresOK, FailedAnswers
<1> QED BY <1>3, <1>5, <1>6, <1>7, <1>8 DEF Next

LEMMA ReturnedStep ==
    ASSUME TypeOK, ReturnedOK, [Next]_vars
    PROVE  ReturnedOK'
<1>1. CASE RejectDuplicateIdentities
  BY <1>1 DEF RejectDuplicateIdentities, ReturnedOK, Duplicated
<1>2. ASSUME NEW n \in 0..MaxLocations, NEW found \in [1..n -> LocationRecords], Discover(found)
      PROVE  ReturnedOK'
  BY <1>2 DEF Discover, ReturnedOK
<1>3. ASSUME NEW rows \in Rows, TakeRows(rows) \/ BadMeasurement(rows)
      PROVE  ReturnedOK'
  BY <1>3 DEF TakeRows, BadMeasurement, Answered, ReturnedOK
<1>4. CASE SkipSensor \/ SensorFails \/ DiscoveryFails
  BY <1>4 DEF SkipSensor, SensorFails, DiscoveryFails, Answered, ReturnedOK
<1>5. CASE UNCHANGED vars
  BY <1>5 DEF vars, ReturnedOK
<1> QED BY <1>1, <1>2, <1>3, <1>4, <1>5 DEF Next

-----------------------------------------------------------------------------
(* Theorems *)

\* A list without repetitions has as many members as entries.
LEMMA InjectiveLists ==
    ASSUME NEW S, NEW s \in Seq(S), IsInjective(s)
    PROVE  Cardinality(ToSet(s)) = Len(s)
<1>1. Len(s) \in Nat /\ DOMAIN s = 1..Len(s) /\ s \in [1..Len(s) -> S]
  OBVIOUS
<1>2. ToSet(s) = {s[i] : i \in 1..Len(s)}
  BY <1>1 DEF ToSet
<1>3. s \in Bijection(1..Len(s), ToSet(s))
  <2>1. s \in [1..Len(s) -> ToSet(s)]
    BY <1>1, <1>2
  <2>2. \A i, j \in 1..Len(s) : s[i] = s[j] => i = j
    BY <1>1 DEF IsInjective
  <2>3. \A x \in ToSet(s) : \E i \in 1..Len(s) : s[i] = x
    BY <1>2
  <2> QED BY ONLY <2>1, <2>2, <2>3, Fun_IsBij
<1>4. IsFiniteSet(1..Len(s)) /\ Cardinality(1..Len(s)) = Len(s)
  <2>1. 1 \in Int /\ Len(s) \in Int /\ Len(s) >= 0
    BY <1>1
  <2>2. /\ IsFiniteSet(1..Len(s))
        /\ Cardinality(1..Len(s)) = IF 1 > Len(s) THEN 0 ELSE Len(s) - 1 + 1
    BY <2>1, FS_Interval
  <2> QED BY <2>1, <2>2
<1> QED BY <1>3, <1>4, FS_Bijection DEF ExistsBijection

LEMMA StepInvariant == IInv /\ [Next]_vars => IInv'
<1> SUFFICES ASSUME IInv, [Next]_vars PROVE IInv'
  OBVIOUS
<1>1. TypeOK /\ StagedOK /\ AskedOK /\ FailuresOK /\ ReturnedOK
  BY DEF IInv
<1>2. TypeOK'
  BY <1>1, TypeStep
<1>3. StagedOK'
  BY <1>1, StagedStep
<1>4. AskedOK'
  BY <1>1, AskedStep
<1>5. FailuresOK'
  BY <1>1, FailuresStep
<1>6. ReturnedOK'
  BY <1>1, ReturnedStep
<1> QED BY <1>2, <1>3, <1>4, <1>5, <1>6 DEF IInv

LEMMA Invariance == Spec => []IInv
<1>1. Init => IInv
  BY InitInvariant
<1>2. IInv /\ [Next]_vars => IInv'
  BY StepInvariant
<1> QED BY <1>1, <1>2, PTL DEF Spec

\* Every variable of the collection stays in its type; the counters never
\* exceed what was answered.
THEOREM CollectionTyped == Spec => []TypeOK
<1>1. IInv => TypeOK
  BY DEF IInv
<1> QED BY <1>1, Invariance, PTL

\* A batch that is returned is the window of the sensors that answered, each
\* measurement once: the loop over the sensors, the half-open filter and
\* _reject_duplicate_identities together.
THEOREM BatchesAreTheWindow == Spec => []BatchIsTheWindow
<1>1. IInv => BatchIsTheWindow
  <2> SUFFICES ASSUME IInv, phase = "returned" PROVE BatchIsTheWindow
    BY DEF BatchIsTheWindow
  <2>1. staged \in Seq(Measurements) /\ IsInjective(staged)
    BY Types DEF IInv, ReturnedOK
  <2>2. ToSet(staged) \subseteq Measurements
    <3>1. DOMAIN staged = 1..Len(staged) /\ \A i \in 1..Len(staged) : staged[i] \in Measurements
      BY <2>1
    <3> QED BY <3>1 DEF ToSet
  <2>3. ASSUME NEW m \in Measurements
        PROVE  m \in ToSet(staged) <=>
                 AnsweredBy(m.sensor, m.text) /\ InstantOf[m.text] \in Window
    <3>1. m \in ToSet(staged) <=> AnsweredBy(m.sensor, m.text) /\ m.text \in Inside
      BY DEF IInv, StagedOK
    <3>2. AnsweredBy(m.sensor, m.text) => m.text \in DOMAIN InstantOf
      <4> SUFFICES ASSUME NEW i \in DOMAIN answers, answers[i].rows # ServerError,
                          m.text \in ToSet(answers[i].rows)
                   PROVE  m.text \in DOMAIN InstantOf
        BY DEF AnsweredBy
      <4>1. ToSet(answers[i].rows) \subseteq DOMAIN InstantOf
        BY DEF IInv, StagedOK
      <4> QED BY <4>1
    <3> QED BY <3>1, <3>2 DEF Inside
  <2>4. ToSet(staged) = {m \in Measurements :
            AnsweredBy(m.sensor, m.text) /\ InstantOf[m.text] \in Window}
    BY <2>2, <2>3
  <2>5. Cardinality(ToSet(staged)) = Len(staged)
    BY <2>1, InjectiveLists
  <2> QED BY <2>4, <2>5 DEF BatchIsTheWindow
<1> QED BY <1>1, Invariance, PTL

\* A batch that is returned has asked every target sensor of the production
\* locations, and server_error_sensor_count is the number of those that failed.
THEOREM EverySensorIsAsked == Spec => []SensorsAsked
<1>1. IInv => SensorsAsked
  <2> SUFFICES ASSUME IInv, phase = "returned" PROVE SensorsAsked
    BY DEF SensorsAsked
  <2>1. ToSet(sensors) = {}
    BY DEF IInv, ReturnedOK, ToSet
  <2>2. \A i \in DOMAIN locations : \A s \in ToSet(locations[i].sensors) :
          locations[i].provider \in Providers /\ s.parameter \in TargetParameters
              => \E j \in DOMAIN answers : answers[j].sensor = s.id
    BY <2>1 DEF IInv, AskedOK
  <2>3. serverErrorSensorCount =
          Cardinality({j \in DOMAIN answers : answers[j].rows = ServerError})
    BY DEF IInv, FailuresOK, FailedAnswers
  <2> QED BY <2>2, <2>3 DEF SensorsAsked
<1> QED BY <1>1, Invariance, PTL

=============================================================================
