------------------------- MODULE SourceAuditProofs -------------------------
(***************************************************************************)
(* Proofs about SourceAudit, for any locations, sensors and answers, and   *)
(* any failures and clears.                                                *)
(***************************************************************************)
EXTENDS SourceAudit, SensorSelectionProofs

-----------------------------------------------------------------------------
(* The inductive invariant *)

\* A result is of this sensor of the discovery.
OfTarget(result, target) ==
    result.location = target.location /\ result.sensor = target.sensor

\* A result has the class and the count of what its sensor answered.
ClassOK(result, answer) ==
    /\ result.audit_result = "error" <=> answer.failed
    /\ result.audit_result = "empty" <=> ~answer.failed /\ answer.rows = <<>>
    /\ result.record_count = Len(answer.rows)

\* A row has it too, with instants of that answer, the bounds of all of them if
\* the texts sort as the instants do.
RowTrueOf(result, answer) ==
    LET texts == MeasurementTimes(answer.rows)
        instants == {InstantOf[text] : text \in texts}
    IN /\ ClassOK(result, answer)
       /\ {result.oldest, result.newest} \subseteq IF texts = {} THEN {NoTime} ELSE instants
       /\ InTimeOrder(texts) =>
              \A time \in instants : result.oldest <= time /\ time <= result.newest

\* A result, still of texts, says what its sensor answered.
TrueOf(result, answer) ==
    /\ ClassOK(result, answer)
    /\ answer \in AnswerRecords
    /\ \A time \in MeasurementTimes(answer.rows) : result.oldest <= time /\ time <= result.newest
    /\ {result.oldest, result.newest} \subseteq
           IF MeasurementTimes(answer.rows) = {} THEN {NoTime} ELSE MeasurementTimes(answer.rows)

\* Before the sensors are asked, the attempt has nothing.
StartOK ==
    phase \in {"parse", "discover"} =>
        results = <<>> /\ answers[attempt] = <<>> /\ stored[attempt] = <<>>

\* While they are asked, the results and the sensors left are the sensors of
\* the discovery, one by one.
LoopOK ==
    phase = "sensors" =>
        /\ stored[attempt] = <<>>
        /\ Len(targets[attempt]) = Len(results) + Len(sensors)
        /\ Len(answers[attempt]) = Len(results)
        /\ \A i \in 1..Len(results) : /\ OfTarget(results[i], targets[attempt][i])
                                      /\ TrueOf(results[i], answers[attempt][i])
        /\ \A i \in 1..Len(sensors) : sensors[i] = targets[attempt][Len(results) + i]

\* What an attempt has stored is one true result for every sensor.
StoredOK ==
    /\ \A a \in 1..attempt : stored[a] # <<>> =>
          /\ Len(stored[a]) = Len(targets[a])
          /\ \A i \in 1..Len(stored[a]) : /\ OfTarget(stored[a][i].result, targets[a][i])
                                          /\ RowTrueOf(stored[a][i].result, answers[a][i])
                                          /\ stored[a][i].clears = a - 1
    /\ phase \in {"return", "success"} => Len(stored[attempt]) = Len(targets[attempt])

IInv == TypeOK /\ StartOK /\ LoopOK /\ StoredOK

-----------------------------------------------------------------------------
(* Constants and types *)

LEMMA Constants ==
    /\ \A loc \in LocationRecords : loc.sensors \in Seq(Sensors) /\ loc.id \in LocationIds
    /\ \A s \in Sensors : s.id \in SensorIds
    /\ \A rows \in Answers : rows \in Seq(Int \cup {NoTime})
    /\ NoTime \notin Int /\ MaxLocations \in Nat /\ MaxClears \in Nat
    /\ InstantOf \in [TimeTexts -> Int]
<1>1. /\ \A loc \in LocationRecords : loc.sensors \in Seq(ToSet(loc.sensors))
      /\ \A rows \in Answers : rows \in Seq(Int \cup {NoTime})
      /\ NoTime \notin Int /\ MaxLocations \in Nat /\ MaxClears \in Nat
      /\ InstantOf \in [TimeTexts -> Int]
  BY AuditAssumption
<1>2. ASSUME NEW loc \in LocationRecords
      PROVE  loc.sensors \in Seq(Sensors) /\ loc.id \in LocationIds
  <2>1. PICK s, S : s = loc.sensors /\ S = ToSet(loc.sensors)
    OBVIOUS
  <2>2. s \in Seq(S) /\ S \subseteq Sensors
    BY <1>1, <2>1 DEF Sensors
  <2>3. s \in Seq(Sensors)
    BY ONLY <2>2
  <2> QED BY <2>1, <2>3 DEF LocationIds
<1> QED BY <1>1, <1>2 DEF SensorIds

LEMMA Types ==
    ASSUME TypeOK
    PROVE  /\ sensors \in Seq(Targets) /\ Len(sensors) \in Nat
           /\ results \in Seq(Results) /\ Len(results) \in Nat
           /\ clears \in 0..MaxClears /\ attempt = clears + 1
           /\ attempt \in Nat /\ attempt \in 1..attempt
           /\ stored \in [1..attempt -> Seq(Rows)]
           /\ targets \in [1..attempt -> Seq(Targets)]
           /\ answers \in [1..attempt -> Seq(AnswerRecords)]
<1>1. /\ sensors \in Seq(Targets) /\ results \in Seq(Results)
      /\ clears \in 0..MaxClears /\ attempt = clears + 1
      /\ stored \in [1..attempt -> Seq(Rows)]
      /\ targets \in [1..attempt -> Seq(Targets)]
      /\ answers \in [1..attempt -> Seq(AnswerRecords)]
  BY DEF TypeOK
<1>2. Len(sensors) \in Nat /\ Len(results) \in Nat
  BY <1>1
<1>3. attempt \in Nat /\ attempt \in 1..attempt
  BY <1>1, Constants
<1> QED BY <1>1, <1>2, <1>3

LEMMA AsFunction ==
    ASSUME NEW T, NEW s \in Seq(T), NEW n \in Nat, Len(s) = n
    PROVE  s \in [1..n -> T]
OBVIOUS

LEMMA OneList ==
    ASSUME NEW T, NEW e \in T
    PROVE  <<e>> \in [1..1 -> T] /\ <<e>>[1] = e
<1>1. <<e>> \in Seq(T) /\ Len(<<e>>) = 1 /\ 1 \in Nat /\ <<e>>[1] = e
  OBVIOUS
<1> QED BY <1>1, AsFunction

\* One list of an attempt more.
LEMMA NextAttempt ==
    ASSUME NEW n \in Nat, NEW S, NEW f \in [1..n -> Seq(S)]
    PROVE  /\ Append(f, <<>>) \in [1..(n + 1) -> Seq(S)]
           /\ \A a \in 1..n : Append(f, <<>>)[a] = f[a]
           /\ Append(f, <<>>)[n + 1] = <<>>
           /\ \A a \in 1..(n + 1) : a \in 1..n \/ a = n + 1
<1>1. f \in Seq(Seq(S)) /\ Len(f) = n /\ <<>> \in Seq(S)
  OBVIOUS
<1>2. PICK e : e = <<>> /\ e \in Seq(S)
  BY <1>1
<1>3. /\ Append(f, e) \in Seq(Seq(S)) /\ Len(Append(f, e)) = n + 1
      /\ \A a \in 1..n : Append(f, e)[a] = f[a]
      /\ Append(f, e)[n + 1] = e
  BY <1>1, <1>2, AppendProperties
<1>4. Append(f, e) \in [1..(n + 1) -> Seq(S)]
  <2>1. PICK g : g = Append(f, e) /\ g \in Seq(Seq(S)) /\ Len(g) = n + 1
    BY <1>3
  <2>2. PICK T : T = Seq(S)
    OBVIOUS
  <2>3. g \in Seq(T) /\ n + 1 \in Nat
    BY <2>1, <2>2
  <2>4. g \in [1..(n + 1) -> T]
    BY <2>1, <2>3, AsFunction
  <2> QED BY <2>1, <2>2, <2>4
<1>5. \A a \in 1..(n + 1) : a \in 1..n \/ a = n + 1
  OBVIOUS
<1> QED BY <1>2, <1>3, <1>4, <1>5

\* The first of a list, and the others.
LEMMA NextOf ==
    ASSUME NEW S, NEW s \in Seq(S), s # <<>>
    PROVE  /\ Head(s) \in S /\ Head(s) = s[1] /\ Len(s) >= 1
           /\ Tail(s) \in Seq(S) /\ Len(Tail(s)) = Len(s) - 1
           /\ \A i \in 1..(Len(s) - 1) : Tail(s)[i] = s[i + 1]
<1>1. Head(s) \in S /\ Head(s) = s[1] /\ Len(s) \in Nat /\ Len(s) # 0
  OBVIOUS
<1>2. /\ Tail(s) \in Seq(S) /\ Len(Tail(s)) = Len(s) - 1
      /\ \A i \in 1..Len(Tail(s)) : Tail(s)[i] = s[i + 1]
  BY HeadTailProperties
<1> QED BY <1>1, <1>2

LEMMA Appended ==
    ASSUME NEW S, NEW s \in Seq(S), NEW e \in S
    PROVE  /\ Append(s, e) \in Seq(S) /\ Len(Append(s, e)) = Len(s) + 1
           /\ \A i \in 1..Len(s) : Append(s, e)[i] = s[i]
           /\ Append(s, e)[Len(s) + 1] = e
           /\ Len(s) \in Nat /\ \A i \in 1..(Len(s) + 1) : i \in 1..Len(s) \/ i = Len(s) + 1
<1>1. Len(s) \in Nat
  OBVIOUS
<1>2. \A i \in 1..(Len(s) + 1) : i \in 1..Len(s) \/ i = Len(s) + 1
  BY <1>1
<1> QED BY <1>1, <1>2, AppendProperties

LEMMA AuditTargets ==
    ASSUME NEW found \in Seq(LocationRecords)
    PROVE  SensorsToAudit(found) \in Seq(Targets)
<1> DEFINE Pairs(i) == [k \in DOMAIN TargetSensors(found[i]) |->
                         [location |-> found[i].id, sensor |-> TargetSensors(found[i])[k].id]]
           ss == [i \in DOMAIN found |-> Pairs(i)]
<1>1. /\ Len(found) \in Nat /\ DOMAIN found = 1..Len(found)
      /\ \A i \in 1..Len(found) : found[i] \in LocationRecords
  OBVIOUS
<1>2. ASSUME NEW i \in 1..Len(found)
      PROVE  Pairs(i) \in Seq(Targets)
  <2>1. TargetSensors(found[i]) \in Seq(Sensors) /\ found[i].id \in LocationIds
    BY <1>1, Constants, TargetsKept
  <2>2. PICK wanted : wanted = TargetSensors(found[i]) /\ wanted \in Seq(Sensors)
    BY <2>1
  <2>3. PICK n \in Nat : n = Len(wanted) /\ DOMAIN wanted = 1..n
    BY <2>2
  <2>4. \A k \in 1..n : [location |-> found[i].id, sensor |-> wanted[k].id] \in Targets
    <3>1. \A k \in 1..n : wanted[k] \in Sensors
      BY <2>2, <2>3
    <3> QED BY <2>1, <3>1, Constants DEF Targets
  <2>5. Pairs(i) = [k \in 1..n |-> [location |-> found[i].id, sensor |-> wanted[k].id]]
    BY <2>2, <2>3
  <2> HIDE DEF Pairs
  <2>6. Pairs(i) \in [1..n -> Targets]
    BY <2>4, <2>5
  <2> QED BY <2>6
<1>3. ss \in Seq(Seq(Targets))
  <2>1. ss = [i \in 1..Len(found) |-> Pairs(i)]
    BY <1>1
  <2> HIDE DEF Pairs, ss
  <2>2. ss \in [1..Len(found) -> Seq(Targets)]
    BY <1>2, <2>1
  <2> QED BY <1>1, <2>2
<1>4. SensorsToAudit(found) = FlattenSeq(ss)
  BY DEF SensorsToAudit
<1> HIDE DEF ss
<1> QED BY <1>3, <1>4, Flattened

-----------------------------------------------------------------------------
(* The times of an answer *)

HasExtremes(S) ==
    S # {} => /\ \E x \in S : \A y \in S : x <= y
              /\ \E x \in S : \A y \in S : x >= y

LEMMA OneMore ==
    ASSUME NEW S \in SUBSET Int, HasExtremes(S), NEW t \in Int
    PROVE  HasExtremes(S \cup {t})
<1>1. CASE S = {}
  <2>1. S \cup {t} = {t}
    BY <1>1
  <2> QED BY <2>1 DEF HasExtremes
<1>2. CASE S # {}
  <2>1. PICK a \in S : \A y \in S : a <= y
    BY <1>2 DEF HasExtremes
  <2>2. PICK b \in S : \A y \in S : b >= y
    BY <1>2 DEF HasExtremes
  <2>3. PICK c \in S \cup {t} : \A y \in S \cup {t} : c <= y
    <3>1. CASE a <= t
      BY <2>1, <3>1
    <3>2. CASE t < a
      <4>1. \A y \in S : t <= y
        BY <2>1, <3>2
      <4> QED BY <4>1
    <3> QED BY <3>1, <3>2
  <2>4. PICK d \in S \cup {t} : \A y \in S \cup {t} : d >= y
    <3>1. CASE b >= t
      BY <2>2, <3>1
    <3>2. CASE t > b
      <4>1. \A y \in S : t >= y
        BY <2>2, <3>2
      <4> QED BY <4>1
    <3> QED BY <3>1, <3>2
  <2> QED BY <2>3, <2>4 DEF HasExtremes
<1> QED BY <1>1, <1>2

LEMMA TimesHaveExtremes ==
    ASSUME NEW rows \in Seq(Int \cup {NoTime})
    PROVE  MeasurementTimes(rows) \subseteq Int /\ HasExtremes(MeasurementTimes(rows))
<1> DEFINE P(i) == {rows[k] : k \in 1..i} \ {NoTime}
<1>1. PICK n \in Nat : n = Len(rows) /\ DOMAIN rows = 1..n
  OBVIOUS
<1>2. \A k \in 1..n : rows[k] \in Int \cup {NoTime}
  BY <1>1
<1>3. MeasurementTimes(rows) = P(n)
  BY <1>1 DEF MeasurementTimes, ToSet
<1>4. \A i \in 1..n : P(i) \subseteq Int
  <2> TAKE i \in 1..n
  <2>1. \A k \in 1..i : k \in 1..n
    OBVIOUS
  <2> QED BY <1>2, <2>1
<1>5. CASE n = 0
  <2>1. P(n) = {}
    <3>1. 1..n = {}
      BY <1>5
    <3> QED BY <3>1
  <2> QED BY <1>3, <2>1 DEF HasExtremes
<1>6. CASE n # 0
  <2> DEFINE G == {i \in 1..n : HasExtremes(P(i))}
  <2>1. 1 \in G
    <3>1. 1 \in 1..n
      BY <1>6
    <3>2. P(1) = {rows[1]} \ {NoTime}
      <4>1. \A k : k \in 1..1 <=> k = 1
        OBVIOUS
      <4> QED BY <4>1
    <3>3. P(1) = {} \/ (P(1) = {rows[1]} /\ rows[1] \in Int)
      BY <1>2, <3>1, <3>2
    <3> HIDE DEF P
    <3>4. HasExtremes(P(1))
      BY <3>3 DEF HasExtremes
    <3> QED BY <3>1, <3>4
  <2>2. ASSUME NEW i \in 1..n, i \in G, i + 1 <= n
        PROVE  i + 1 \in G
    <3>1. i + 1 \in 1..n /\ \A k : k \in 1..(i + 1) <=> k \in 1..i \/ k = i + 1
      BY <2>2
    <3>2. P(i + 1) = P(i) \cup ({rows[i + 1]} \ {NoTime})
      BY ONLY <3>1
    <3>3. P(i + 1) = P(i) \/ (P(i + 1) = P(i) \cup {rows[i + 1]} /\ rows[i + 1] \in Int)
      BY <1>2, <3>1, <3>2
    <3>4. P(i) \subseteq Int /\ HasExtremes(P(i))
      BY <1>4, <2>2
    <3> HIDE DEF P
    <3>5. HasExtremes(P(i + 1))
      BY <3>3, <3>4, OneMore
    <3> QED BY <3>1, <3>5
  <2> HIDE DEF G
  <2>3. n \in G
    <3>1. \A i \in 1..n : i \in G
      BY <2>1, <2>2, UpTo
    <3> QED BY <1>6, <3>1
  <2>4. HasExtremes(P(n)) /\ P(n) \subseteq Int
    BY <1>4, <1>6, <2>3 DEF G
  <2> HIDE DEF P
  <2> QED BY <1>3, <2>4
<1> QED BY <1>5, <1>6

LEMMA Bounds ==
    ASSUME NEW S \in SUBSET Int, HasExtremes(S), S # {}
    PROVE  /\ Min(S) \in S /\ Max(S) \in S
           /\ \A t \in S : Min(S) <= t /\ t <= Max(S)
<1>1. Min(S) \in S /\ \A y \in S : Min(S) <= y
  BY DEF HasExtremes, Min
<1>2. Max(S) \in S /\ \A y \in S : Max(S) >= y
  BY DEF HasExtremes, Max
<1>3. \A y \in S : y <= Max(S)
  BY <1>2
<1> QED BY <1>1, <1>2, <1>3

-----------------------------------------------------------------------------
(* The steps *)

LEMMA InitInvariant == Init => IInv
<1> SUFFICES ASSUME Init PROVE IInv
  OBVIOUS
<1>1. /\ params \in [{"from", "to"} -> Texts] /\ phase = "parse" /\ sensors = <<>> /\ results = <<>>
      /\ stored = << <<>> >> /\ targets = << <<>> >> /\ answers = << <<>> >>
  BY DEF Init
<1>2. attempt = 1 /\ clears = 0
  BY DEF Init
<1>3. /\ \A S : << <<>> >> \in [1..1 -> Seq(S)]
      /\ << <<>> >>[1] = <<>>
  <2>1. << <<>> >>[1] = <<>>
    OBVIOUS
  <2>2. ASSUME NEW S PROVE << <<>> >> \in [1..1 -> Seq(S)]
    <3>1. <<>> \in Seq(S)
      OBVIOUS
    <3> QED BY <3>1, OneList
  <2> QED BY <2>1, <2>2
<1>4. clears \in 0..MaxClears /\ attempt = clears + 1
  BY <1>2, Constants
<1>5. \A S : <<>> \in Seq(S)
  OBVIOUS
<1>6. TypeOK
  BY <1>1, <1>2, <1>3, <1>4, <1>5 DEF TypeOK, Running
<1>7. StartOK /\ LoopOK
  BY <1>1, <1>2, <1>3 DEF StartOK, LoopOK
<1>8. StoredOK
  <2>1. \A a \in 1..1 : a = 1
    OBVIOUS
  <2> QED BY <1>1, <1>2, <1>3, <2>1 DEF StoredOK
<1> QED BY <1>6, <1>7, <1>8 DEF IInv

LEMMA TextsTyped ==
    ASSUME NEW rows \in Answers \cup {<<>>}
    PROVE  MeasurementTimes(rows) \subseteq TimeTexts
<1>1. CASE rows = <<>>
  <2>1. MeasurementTimes(rows) = {}
    BY <1>1 DEF MeasurementTimes, ToSet
  <2> QED BY <2>1
<1>2. CASE rows \in Answers
  <2>1. PICK T : T = ToSet(rows)
    OBVIOUS
  <2>2. T \in {ToSet(r) : r \in Answers}
    BY <1>2, <2>1
  <2>3. PICK U : U = UNION {ToSet(r) : r \in Answers}
    OBVIOUS
  <2>4. T \subseteq U
    BY <2>2, <2>3
  <2>5. MeasurementTimes(rows) = T \ {NoTime} /\ TimeTexts = U \ {NoTime}
    BY <2>1, <2>3 DEF MeasurementTimes, TimeTexts
  <2> QED BY <2>4, <2>5
<1> QED BY <1>1, <1>2

\* What a recorded result is worth.
LEMMA ResultIsTrue ==
    ASSUME TypeOK, sensors # <<>>, Identified, NEW class, NEW rows \in Answers \cup {<<>>},
           \/ class = Class(rows)
           \/ class = "error" /\ rows = <<>>
    PROVE  /\ Result(class, rows) \in Results
           /\ OfTarget(Result(class, rows), Head(sensors))
           /\ TrueOf(Result(class, rows), [failed |-> class = "error", rows |-> rows])
           /\ [failed |-> class = "error", rows |-> rows] \in AnswerRecords
<1> DEFINE times == MeasurementTimes(rows)
           result == Result(class, rows)
<1>1. Head(sensors) \in Targets
  BY Types, NextOf
<1>2. Head(sensors).location \in LocationIds \ {Missing} /\ Head(sensors).sensor \in SensorIds \ {Missing}
  BY <1>1 DEF Identified, Targets
<1>3. rows \in Seq(Int \cup {NoTime})
  <2>1. <<>> \in Seq(Int \cup {NoTime})
    OBVIOUS
  <2> QED BY <2>1, Constants
<1>4. Len(rows) \in Nat
  BY <1>3
<1>5. times \subseteq Int /\ HasExtremes(times)
  BY <1>3, TimesHaveExtremes
<1>6. times \subseteq TimeTexts
  BY TextsTyped
<1>7. /\ result.location = Head(sensors).location /\ result.sensor = Head(sensors).sensor
      /\ result.audit_result = class /\ result.record_count = Len(rows)
      /\ result.oldest = (IF times = {} THEN NoTime ELSE Min(times))
      /\ result.newest = (IF times = {} THEN NoTime ELSE Max(times))
  BY DEF Result
<1>8. class \in {"data", "empty", "error"}
  BY DEF Class
<1> HIDE DEF times
<1>9. /\ times # {} => Min(times) \in times /\ Max(times) \in times
      /\ \A t \in times : Min(times) <= t /\ t <= Max(times)
  BY <1>5, Bounds
<1>10. result \in Results
  <2>1. result.oldest \in TimeTexts \cup {NoTime} /\ result.newest \in TimeTexts \cup {NoTime}
    BY <1>6, <1>7, <1>9
  <2> QED BY <1>2, <1>4, <1>7, <1>8, <2>1 DEF Result, Results, ResultsWith
<1>11. OfTarget(result, Head(sensors))
  BY <1>7 DEF OfTarget
<1>12. PICK failed \in BOOLEAN : failed <=> class = "error"
  OBVIOUS
<1>13. failed = (class = "error")
  BY <1>12
<1> HIDE DEF result
<1>14. TrueOf(result, [failed |-> failed, rows |-> rows])
  <2>1. result.audit_result = "error" <=> failed
    BY <1>7, <1>12
  <2>2. result.audit_result = "empty" <=> ~failed /\ rows = <<>>
    BY <1>7, <1>12 DEF Class
  <2>3. \A t \in times : result.oldest <= t /\ t <= result.newest
    BY <1>7, <1>9
  <2>4. {result.oldest, result.newest} \subseteq IF times = {} THEN {NoTime} ELSE times
    BY <1>7, <1>9
  <2>5. [failed |-> failed, rows |-> rows] \in AnswerRecords
    BY DEF AnswerRecords
  <2> QED BY <1>7, <2>1, <2>2, <2>3, <2>4, <2>5 DEF TrueOf, ClassOK, times
<1>15. [failed |-> failed, rows |-> rows] \in AnswerRecords
  BY DEF AnswerRecords
<1> QED BY <1>10, <1>11, <1>13, <1>14, <1>15 DEF result

\* The row of a true result is true: the table keeps the instants its texts name.
LEMMA RowIsTrue ==
    ASSUME NEW result \in Results, NEW target, NEW answer,
           OfTarget(result, target), TrueOf(result, answer)
    PROVE  /\ AsRow(result).result \in ResultsWith(Instants)
           /\ AsRow(result).clears = clears
           /\ OfTarget(AsRow(result).result, target)
           /\ RowTrueOf(AsRow(result).result, answer)
<1> DEFINE row == AsRow(result).result
           texts == MeasurementTimes(answer.rows)
           instants == {InstantOf[text] : text \in texts}
<1>1. /\ row.location = result.location /\ row.sensor = result.sensor
      /\ row.audit_result = result.audit_result /\ row.record_count = result.record_count
      /\ row.oldest = AsTimestamp(result.oldest) /\ row.newest = AsTimestamp(result.newest)
      /\ row = [location |-> row.location, sensor |-> row.sensor,
                audit_result |-> row.audit_result, record_count |-> row.record_count,
                oldest |-> row.oldest, newest |-> row.newest]
  BY DEF AsRow, Results, ResultsWith
<1>2. AsRow(result).clears = clears
  BY DEF AsRow
<1>3. /\ result.location \in LocationIds \ {Missing} /\ result.sensor \in SensorIds \ {Missing}
      /\ result.audit_result \in {"data", "empty", "error"} /\ result.record_count \in Nat
      /\ result.oldest \in TimeTexts \cup {NoTime} /\ result.newest \in TimeTexts \cup {NoTime}
  BY DEF Results, ResultsWith
<1> HIDE DEF row
<1>4. \A text \in TimeTexts \cup {NoTime} : AsTimestamp(text) \in Instants \cup {NoTime}
  BY DEF AsTimestamp, Instants
<1>5. row \in ResultsWith(Instants)
  <2>1. row.oldest \in Instants \cup {NoTime} /\ row.newest \in Instants \cup {NoTime}
    BY <1>1, <1>3, <1>4
  <2>2. /\ row.location \in LocationIds \ {Missing} /\ row.sensor \in SensorIds \ {Missing}
        /\ row.audit_result \in {"data", "empty", "error"} /\ row.record_count \in Nat
    BY <1>1, <1>3
  <2> QED BY <1>1, <2>1, <2>2 DEF ResultsWith
<1>6. OfTarget(row, target)
  BY <1>1 DEF OfTarget
<1>7. ClassOK(row, answer)
  BY <1>1 DEF TrueOf, ClassOK
<1>8. texts \subseteq TimeTexts /\ texts \subseteq Int /\ NoTime \notin texts
  <2>1. answer.rows \in Answers \cup {<<>>}
    BY DEF TrueOf, AnswerRecords
  <2>2. texts \subseteq TimeTexts
    BY <2>1, TextsTyped
  <2>3. answer.rows \in Seq(Int \cup {NoTime})
    <3>1. <<>> \in Seq(Int \cup {NoTime})
      OBVIOUS
    <3> QED BY <2>1, <3>1, Constants
  <2>4. texts \subseteq Int
    BY <2>3, TimesHaveExtremes
  <2> QED BY <2>2, <2>4, Constants
<1>9. /\ \A t \in texts : result.oldest <= t /\ t <= result.newest
      /\ texts = {} => result.oldest = NoTime /\ result.newest = NoTime
      /\ texts # {} => result.oldest \in texts /\ result.newest \in texts
  BY DEF TrueOf
<1> HIDE DEF texts
<1>10. texts # {} => row.oldest = InstantOf[result.oldest] /\ row.newest = InstantOf[result.newest]
  BY <1>1, <1>8, <1>9 DEF AsTimestamp
<1>11. {row.oldest, row.newest} \subseteq IF texts = {} THEN {NoTime} ELSE instants
  <2>1. CASE texts = {}
    BY <1>1, <1>9, <2>1 DEF AsTimestamp
  <2>2. CASE texts # {}
    BY <1>9, <1>10, <2>2
  <2> QED BY <2>1, <2>2
<1>12. ASSUME InTimeOrder(texts), NEW time \in instants
       PROVE  row.oldest <= time /\ time <= row.newest
  <2>1. PICK t \in texts : time = InstantOf[t]
    BY <1>12
  <2>2. /\ result.oldest \in texts /\ result.newest \in texts
        /\ result.oldest <= t /\ t <= result.newest
    BY <1>9, <2>1
  <2>3. InstantOf[result.oldest] <= InstantOf[t] /\ InstantOf[t] <= InstantOf[result.newest]
    BY <1>12, <2>2 DEF InTimeOrder
  <2> QED BY <1>10, <2>1, <2>3
<1>13. RowTrueOf(row, answer)
  BY <1>7, <1>11, <1>12 DEF RowTrueOf, texts
<1> QED BY <1>2, <1>5, <1>6, <1>13 DEF row

\* A step of the loop adds a true result for the next sensor.
LEMMA RecordedStep ==
    ASSUME TypeOK, LoopOK, NEW class, NEW rows \in Answers \cup {<<>>},
           class = Class(rows) \/ (class = "error" /\ rows = <<>>),
           Recorded(class, rows), sensors' = Tail(sensors)
    PROVE  TypeOK' /\ LoopOK'
<1> PICK result, answer :
      result = Result(class, rows) /\ answer = [failed |-> class = "error", rows |-> rows]
  OBVIOUS
<1>1. /\ phase = "sensors" /\ sensors # <<>> /\ Identified
      /\ results' = Append(results, result)
      /\ answers' = [answers EXCEPT ![attempt] = Append(@, answer)]
      /\ UNCHANGED <<params, phase, stored, attempt, clears, targets>>
  BY DEF Recorded, Ask
<1>2. /\ result \in Results /\ answer \in AnswerRecords
      /\ OfTarget(result, Head(sensors)) /\ TrueOf(result, answer)
  BY <1>1, ResultIsTrue
<1>3. /\ sensors \in Seq(Targets) /\ Len(sensors) \in Nat
      /\ results \in Seq(Results) /\ Len(results) \in Nat
      /\ attempt \in 1..attempt
      /\ answers \in [1..attempt -> Seq(AnswerRecords)]
  BY Types
<1>4. /\ Head(sensors) = sensors[1] /\ Len(sensors) >= 1
      /\ Tail(sensors) \in Seq(Targets) /\ Len(Tail(sensors)) = Len(sensors) - 1
      /\ \A i \in 1..(Len(sensors) - 1) : Tail(sensors)[i] = sensors[i + 1]
  BY <1>1, <1>3, NextOf
<1>5. /\ stored[attempt] = <<>>
      /\ Len(targets[attempt]) = Len(results) + Len(sensors)
      /\ Len(answers[attempt]) = Len(results)
      /\ \A i \in 1..Len(results) : /\ OfTarget(results[i], targets[attempt][i])
                                    /\ TrueOf(results[i], answers[attempt][i])
      /\ \A i \in 1..Len(sensors) : sensors[i] = targets[attempt][Len(results) + i]
  BY <1>1 DEF LoopOK
<1>6. PICK n \in Nat, m \in Nat : n = Len(results) /\ m = Len(sensors) /\ m >= 1
  BY <1>3, <1>4
<1>7. PICK old : old = answers[attempt] /\ old \in Seq(AnswerRecords) /\ Len(old) = n
  BY <1>3, <1>5, <1>6
<1>8. /\ Append(old, answer) \in Seq(AnswerRecords) /\ Len(Append(old, answer)) = n + 1
      /\ \A i \in 1..n : Append(old, answer)[i] = old[i]
      /\ Append(old, answer)[n + 1] = answer
  BY <1>2, <1>7, Appended
<1>9. answers'[attempt] = Append(old, answer) /\ answers' \in [1..attempt -> Seq(AnswerRecords)]
  BY <1>1, <1>3, <1>7, <1>8
<1>10. /\ results' \in Seq(Results) /\ Len(results') = n + 1
       /\ \A i \in 1..n : results'[i] = results[i]
       /\ results'[n + 1] = result
       /\ \A i \in 1..(n + 1) : i \in 1..n \/ i = n + 1
  BY <1>1, <1>2, <1>3, <1>6, Appended
<1>11. sensors' \in Seq(Targets) /\ Len(sensors') = m - 1
  BY <1>4, <1>6
<1>12. Len(targets'[attempt]) = Len(results') + Len(sensors')
  BY <1>1, <1>5, <1>6, <1>10, <1>11
<1>13. TypeOK'
  BY <1>1, <1>9, <1>10, <1>11, <1>12 DEF TypeOK
<1>14. ASSUME NEW i \in 1..(n + 1)
       PROVE  /\ OfTarget(results'[i], targets[attempt][i])
              /\ TrueOf(results'[i], answers'[attempt][i])
  <2>1. CASE i \in 1..n
    BY <1>5, <1>6, <1>7, <1>8, <1>9, <1>10, <2>1
  <2>2. CASE i = n + 1
    <3>1. 1 \in 1..m
      BY <1>6
    <3>2. Head(sensors) = targets[attempt][n + 1]
      BY <1>4, <1>5, <1>6, <3>1
    <3> QED BY <1>2, <1>8, <1>9, <1>10, <2>2, <3>2
  <2> QED BY <1>10, <2>1, <2>2
<1>15. ASSUME NEW i \in 1..(m - 1)
       PROVE  sensors'[i] = targets[attempt][(n + 1) + i]
  <2>1. i + 1 \in 1..m /\ n + (i + 1) = (n + 1) + i
    BY <1>6
  <2>2. sensors'[i] = sensors[i + 1]
    BY <1>4, <1>6
  <2> QED BY <1>5, <1>6, <2>1, <2>2
<1>16. LoopOK'
  <2>1. Len(answers'[attempt]) = Len(results')
    BY <1>8, <1>9, <1>10
  <2>2. \A i \in 1..Len(results') : /\ OfTarget(results'[i], targets[attempt][i])
                                    /\ TrueOf(results'[i], answers'[attempt][i])
    BY <1>10, <1>14
  <2>3. \A i \in 1..Len(sensors') : sensors'[i] = targets[attempt][Len(results') + i]
    BY <1>10, <1>11, <1>15
  <2> QED BY <1>1, <1>5, <1>12, <2>1, <2>2, <2>3 DEF LoopOK
<1> QED BY <1>13, <1>16

-----------------------------------------------------------------------------
(* Preservation, action by action *)

\* Only the phase moves, and not into the loop.
LEMMA PhaseStep ==
    ASSUME IInv, UNCHANGED <<params, sensors, results, stored, attempt, clears, targets, answers>>,
           \/ phase = "parse" /\ phase' = "discover"
           \/ phase = "return" /\ phase' = "success"
           \/ phase' = phase
    PROVE  IInv'
<1>1. TypeOK /\ StartOK /\ LoopOK /\ StoredOK
  BY DEF IInv
<1>2. TypeOK'
  BY <1>1 DEF TypeOK, Running
<1>3. StartOK'
  BY <1>1 DEF StartOK
<1>4. LoopOK'
  BY <1>1 DEF LoopOK
<1>5. StoredOK'
  BY <1>1 DEF StoredOK
<1> QED BY <1>2, <1>3, <1>4, <1>5 DEF IInv

LEMMA DiscoverStep ==
    ASSUME IInv, NEW n \in Nat, NEW found \in [1..n -> LocationRecords], Discover(found)
    PROVE  IInv'
<1>1. TypeOK /\ StartOK /\ LoopOK /\ StoredOK
  BY DEF IInv
<1>2. PICK L : L = SensorsToAudit(found) /\ L \in Seq(Targets)
  <2>1. found \in Seq(LocationRecords)
    OBVIOUS
  <2> QED BY <2>1, AuditTargets
<1>3. /\ phase = "discover" /\ phase' = "sensors" /\ sensors' = L
      /\ targets' = [targets EXCEPT ![attempt] = L]
      /\ UNCHANGED <<params, results, stored, attempt, clears, answers>>
  BY <1>2 DEF Discover
<1>4. /\ attempt \in 1..attempt
      /\ targets \in [1..attempt -> Seq(Targets)]
  BY <1>1, Types
<1>5. /\ targets' \in [1..attempt -> Seq(Targets)] /\ targets'[attempt] = L
      /\ \A a \in 1..attempt : a # attempt => targets'[a] = targets[a]
  BY <1>2, <1>3, <1>4
<1>6. results = <<>> /\ answers[attempt] = <<>> /\ stored[attempt] = <<>>
  BY <1>1, <1>3 DEF StartOK
<1>7. Len(results) = 0 /\ Len(answers[attempt]) = 0
  BY <1>6
<1>8. PICK m \in Nat : m = Len(L)
  BY <1>2
<1>9. Len(targets'[attempt]) = Len(results') + Len(sensors')
  BY <1>3, <1>5, <1>7, <1>8
<1>10. TypeOK'
  BY <1>1, <1>2, <1>3, <1>5, <1>9 DEF TypeOK, Running
<1>11. StartOK'
  BY <1>3 DEF StartOK
<1>12. LoopOK'
  <2>1. \A i \in 1..m : 0 + i = i
    OBVIOUS
  <2>2. \A i \in 1..Len(sensors') : sensors'[i] = targets'[attempt][Len(results') + i]
    BY <1>3, <1>5, <1>7, <1>8, <2>1
  <2>3. 1..Len(results') = {}
    BY <1>3, <1>7
  <2> QED BY <1>3, <1>6, <1>7, <1>9, <2>2, <2>3 DEF LoopOK
<1>13. StoredOK'
  BY <1>1, <1>3, <1>5, <1>6 DEF StoredOK
<1> QED BY <1>10, <1>11, <1>12, <1>13 DEF IInv

LEMMA AnswerStep ==
    ASSUME IInv, NEW class, NEW rows \in Answers \cup {<<>>},
           class = Class(rows) \/ (class = "error" /\ rows = <<>>),
           Recorded(class, rows), sensors' = Tail(sensors)
    PROVE  IInv'
<1>1. TypeOK /\ StartOK /\ LoopOK /\ StoredOK
  BY DEF IInv
<1>2. TypeOK' /\ LoopOK'
  BY <1>1, RecordedStep
<1>3. PICK answer : answers' = [answers EXCEPT ![attempt] = Append(@, answer)]
  BY DEF Recorded
<1>4. phase = "sensors" /\ UNCHANGED <<params, phase, stored, attempt, clears, targets>>
  BY DEF Recorded, Ask
<1>5. /\ answers \in [1..attempt -> Seq(AnswerRecords)]
      /\ attempt \in 1..attempt
  BY <1>1, Types
<1>6. \A a \in 1..attempt : a # attempt => answers'[a] = answers[a]
  BY <1>3, <1>5
<1>7. stored[attempt] = <<>>
  BY <1>1, <1>4 DEF LoopOK
<1>8. StoredOK'
  BY <1>1, <1>4, <1>6, <1>7 DEF StoredOK
<1>9. StartOK'
  BY <1>4 DEF StartOK
<1> QED BY <1>2, <1>8, <1>9 DEF IInv

LEMMA InsertStep == IInv /\ Insert => IInv'
<1> SUFFICES ASSUME IInv, Insert PROVE IInv'
  OBVIOUS
<1>1. TypeOK /\ StartOK /\ LoopOK /\ StoredOK
  BY DEF IInv
<1>2. /\ phase = "sensors" /\ sensors = <<>> /\ phase' = "return"
      /\ stored' = [stored EXCEPT ![attempt] =
           @ \o [i \in DOMAIN results |-> AsRow(results[i])]]
      /\ UNCHANGED <<params, sensors, results, attempt, clears, targets, answers>>
  BY DEF Insert
<1>3. /\ results \in Seq(Results) /\ clears \in 0..MaxClears /\ attempt = clears + 1
      /\ attempt \in 1..attempt
      /\ stored \in [1..attempt -> Seq(Rows)]
  BY <1>1, Types
<1>4. /\ stored[attempt] = <<>>
      /\ Len(targets[attempt]) = Len(results) + Len(sensors)
      /\ \A i \in 1..Len(results) : /\ OfTarget(results[i], targets[attempt][i])
                                    /\ TrueOf(results[i], answers[attempt][i])
  BY <1>1, <1>2 DEF LoopOK
<1>5. PICK n \in Nat : n = Len(results) /\ DOMAIN results = 1..n /\ Len(targets[attempt]) = n
  <2>1. Len(sensors) = 0
    BY <1>2
  <2> QED BY <1>3, <1>4, <2>1
<1>6. PICK rows : rows = [i \in 1..n |-> AsRow(results[i])]
  OBVIOUS
<1>7. \A i \in 1..n : /\ rows[i] \in Rows /\ rows[i].clears = clears
                       /\ OfTarget(rows[i].result, targets[attempt][i])
                       /\ RowTrueOf(rows[i].result, answers[attempt][i])
  <2> TAKE i \in 1..n
  <2>1. results[i] \in Results
    BY <1>3, <1>5
  <2>2. /\ AsRow(results[i]).result \in ResultsWith(Instants)
        /\ AsRow(results[i]).clears = clears
        /\ OfTarget(AsRow(results[i]).result, targets[attempt][i])
        /\ RowTrueOf(AsRow(results[i]).result, answers[attempt][i])
    BY <1>4, <1>5, <2>1, RowIsTrue
  <2>3. AsRow(results[i]) \in Rows
    BY <1>3, <2>2 DEF AsRow, Rows
  <2> QED BY <1>6, <2>2, <2>3
<1>8. rows \in Seq(Rows) /\ Len(rows) = n
  <2>1. rows \in [1..n -> Rows]
    BY <1>6, <1>7
  <2> QED BY <2>1
<1>9. stored'[attempt] = rows
  <2>1. <<>> \o rows = rows
    BY <1>8
  <2>2. stored'[attempt] = <<>> \o rows
    BY <1>2, <1>3, <1>4, <1>5, <1>6
  <2> QED BY <2>1, <2>2
<1>10. /\ stored' \in [1..attempt -> Seq(Rows)]
       /\ \A a \in 1..attempt : a # attempt => stored'[a] = stored[a]
  BY <1>2, <1>3, <1>8, <1>9
<1>11. TypeOK'
  BY <1>1, <1>2, <1>10 DEF TypeOK, Running
<1>12. StartOK' /\ LoopOK'
  BY <1>2 DEF StartOK, LoopOK
<1>13. StoredOK'
  <2>1. clears = attempt - 1
    BY <1>3
  <2>2. \A i \in 1..n : /\ OfTarget(rows[i].result, targets[attempt][i])
                        /\ RowTrueOf(rows[i].result, answers[attempt][i])
                        /\ rows[i].clears = attempt - 1
    BY <1>7, <2>1
  <2>3. ASSUME NEW a \in 1..attempt, stored'[a] # <<>>
        PROVE  /\ Len(stored'[a]) = Len(targets[a])
               /\ \A i \in 1..Len(stored'[a]) : /\ OfTarget(stored'[a][i].result, targets[a][i])
                                                /\ RowTrueOf(stored'[a][i].result, answers[a][i])
                                                /\ stored'[a][i].clears = a - 1
    <3>1. CASE a = attempt
      BY <1>5, <1>8, <1>9, <2>2, <3>1
    <3>2. CASE a # attempt
      BY <1>1, <1>10, <2>3, <3>2 DEF StoredOK
    <3> QED BY <3>1, <3>2
  <2>4. Len(stored'[attempt]) = Len(targets[attempt])
    BY <1>5, <1>8, <1>9
  <2> QED BY <1>2, <2>3, <2>4 DEF StoredOK
<1> QED BY <1>11, <1>12, <1>13 DEF IInv

LEMMA FailsStep == IInv /\ Fails => IInv'
<1> SUFFICES ASSUME IInv, Fails PROVE IInv'
  OBVIOUS
<1>1. TypeOK /\ StoredOK
  BY DEF IInv
<1>2. /\ phase' = "failed" /\ sensors' = <<>> /\ results' = <<>>
      /\ UNCHANGED <<params, stored, attempt, clears, targets, answers>>
  BY DEF Fails
<1>3. <<>> \in Seq(Targets) /\ <<>> \in Seq(Results)
  OBVIOUS
<1>4. TypeOK'
  BY <1>1, <1>2, <1>3 DEF TypeOK
<1>5. StartOK' /\ LoopOK'
  BY <1>2 DEF StartOK, LoopOK
<1>6. StoredOK'
  BY <1>1, <1>2 DEF StoredOK
<1> QED BY <1>4, <1>5, <1>6 DEF IInv

LEMMA ClearStep == IInv /\ Clear => IInv'
<1> SUFFICES ASSUME IInv, Clear PROVE IInv'
  OBVIOUS
<1>1. TypeOK /\ StoredOK
  BY DEF IInv
<1>2. /\ phase' = "parse" /\ sensors' = <<>> /\ results' = <<>> /\ params' = params
      /\ stored' = Append(stored, <<>>) /\ targets' = Append(targets, <<>>)
      /\ answers' = Append(answers, <<>>)
  BY DEF Clear, Restarts
<1>3. clears < MaxClears /\ clears' = clears + 1 /\ attempt' = attempt + 1
  BY DEF Clear, Restarts
<1>4. /\ clears \in 0..MaxClears /\ attempt = clears + 1 /\ attempt \in Nat
      /\ stored \in [1..attempt -> Seq(Rows)]
      /\ targets \in [1..attempt -> Seq(Targets)]
      /\ answers \in [1..attempt -> Seq(AnswerRecords)]
  BY <1>1, Types
<1>5. clears' \in 0..MaxClears /\ attempt' = clears' + 1
  BY <1>3, <1>4, Constants
<1>6. PICK n \in Nat : n = attempt /\ attempt' = n + 1
  BY <1>3, <1>4
<1>7. /\ stored' \in [1..(n + 1) -> Seq(Rows)] /\ stored'[n + 1] = <<>>
      /\ \A a \in 1..n : stored'[a] = stored[a]
      /\ \A a \in 1..(n + 1) : a \in 1..n \/ a = n + 1
  <2>1. stored \in [1..n -> Seq(Rows)] /\ stored' = Append(stored, <<>>)
    BY <1>2, <1>4, <1>6
  <2> QED BY <2>1, NextAttempt
<1>8. /\ targets' \in [1..(n + 1) -> Seq(Targets)]
      /\ \A a \in 1..n : targets'[a] = targets[a]
  <2>1. targets \in [1..n -> Seq(Targets)] /\ targets' = Append(targets, <<>>)
    BY <1>2, <1>4, <1>6
  <2> QED BY <2>1, NextAttempt
<1>9. /\ answers' \in [1..(n + 1) -> Seq(AnswerRecords)] /\ answers'[n + 1] = <<>>
      /\ \A a \in 1..n : answers'[a] = answers[a]
  <2>1. answers \in [1..n -> Seq(AnswerRecords)] /\ answers' = Append(answers, <<>>)
    BY <1>2, <1>4, <1>6
  <2> QED BY <2>1, NextAttempt
<1>10. <<>> \in Seq(Targets) /\ <<>> \in Seq(Results)
  OBVIOUS
<1>11. TypeOK'
  BY <1>1, <1>2, <1>5, <1>6, <1>7, <1>8, <1>9, <1>10 DEF TypeOK, Running
<1>12. StartOK' /\ LoopOK'
  BY <1>2, <1>6, <1>7, <1>9 DEF StartOK, LoopOK
<1>13. StoredOK'
  <2>1. ASSUME NEW a \in 1..(n + 1), stored'[a] # <<>>
        PROVE  /\ Len(stored'[a]) = Len(targets'[a])
               /\ \A i \in 1..Len(stored'[a]) : /\ OfTarget(stored'[a][i].result, targets'[a][i])
                                                /\ RowTrueOf(stored'[a][i].result, answers'[a][i])
                                                /\ stored'[a][i].clears = a - 1
    <3>1. a \in 1..n
      BY <1>7, <2>1
    <3> QED BY <1>1, <1>6, <1>7, <1>8, <1>9, <2>1, <3>1 DEF StoredOK
  <2> QED BY <1>2, <1>6, <2>1 DEF StoredOK
<1> QED BY <1>11, <1>12, <1>13 DEF IInv

LEMMA StepInvariant == IInv /\ [Next]_vars => IInv'
<1> SUFFICES ASSUME IInv, [Next]_vars PROVE IInv'
  OBVIOUS
<1>1. CASE ParseWindow
  BY <1>1, PhaseStep DEF ParseWindow
<1>2. CASE \E n \in 0..MaxLocations : \E found \in [1..n -> LocationRecords] : Discover(found)
  <2>1. PICK n \in 0..MaxLocations : \E found \in [1..n -> LocationRecords] : Discover(found)
    BY <1>2
  <2>2. n \in Nat
    BY Constants
  <2> QED BY <2>1, <2>2, DiscoverStep
<1>3. ASSUME NEW rows \in Answers, Measured(rows)
      PROVE  IInv'
  <2>1. PICK class : class = Class(rows)
    OBVIOUS
  <2>2. Recorded(class, rows) /\ sensors' = Tail(sensors)
    BY <1>3, <2>1 DEF Measured
  <2> QED BY <2>1, <2>2, AnswerStep
<1>4. CASE Erred
  <2>1. Recorded("error", <<>>) /\ sensors' = Tail(sensors)
    BY <1>4 DEF Erred
  <2> QED BY <2>1, AnswerStep
<1>5. CASE Return
  BY <1>5, PhaseStep DEF Return
<1>6. CASE UNCHANGED vars
  BY <1>6, PhaseStep DEF vars
<1> QED BY <1>1, <1>2, <1>3, <1>4, <1>5, <1>6, InsertStep, FailsStep, ClearStep DEF Next

LEMMA Invariance == Spec => []IInv
BY InitInvariant, StepInvariant, PTL DEF Spec

-----------------------------------------------------------------------------
(* The theorems *)

\* The types of the model.
THEOREM AuditTyped == Spec => []TypeOK
<1>1. IInv => TypeOK
  BY DEF IInv
<1> QED BY <1>1, Invariance, PTL

\* _insert_audit_results (openaq_audit.py) runs once, behind the loop, and in
\* one statement: an attempt leaves nothing, or one row for every target sensor
\* it discovered, in order, however many there are and wherever it fails.
THEOREM AuditsAreWhole == Spec => []WholeAudits
<1>1. IInv => WholeAudits
  <2> SUFFICES ASSUME IInv, NEW a \in 1..attempt
               PROVE  /\ \/ stored[a] = <<>>
                         \/ /\ Len(stored[a]) = Len(targets[a])
                            /\ \A i \in DOMAIN targets[a] :
                                  /\ stored[a][i].result.location = targets[a][i].location
                                  /\ stored[a][i].result.sensor = targets[a][i].sensor
                      /\ (a = attempt /\ phase = "success" => Len(stored[a]) = Len(targets[a]))
    BY DEF WholeAudits
  <2>1. TypeOK /\ StoredOK
    BY DEF IInv
  <2>2. PICK T : T = targets[a] /\ T \in Seq(Targets)
    BY <2>1, Types
  <2>3. DOMAIN targets[a] = 1..Len(targets[a])
    BY <2>2
  <2>4. a = attempt /\ phase = "success" => Len(stored[a]) = Len(targets[a])
    BY <2>1 DEF StoredOK
  <2>5. CASE stored[a] # <<>>
    BY <2>1, <2>3, <2>4, <2>5 DEF StoredOK, OfTarget
  <2> QED BY <2>4, <2>5
<1> QED BY <1>1, Invariance, PTL

\* summarize_audit_result and the handler of OpenAQError (audit.py): what is
\* stored of a sensor is what that sensor answered in that attempt, for any
\* measurements.  Its two times are instants of that answer; they are the first
\* and the last if the texts, which the audit sorts as texts, sort as their
\* instants do, and nothing is claimed of their order otherwise.
THEOREM AuditResultsAreTrue == Spec => []ResultsTrue
<1>1. IInv => ResultsTrue
  <2> SUFFICES ASSUME IInv, NEW a \in 1..attempt, NEW i \in DOMAIN stored[a]
               PROVE  RowTrueOf(stored[a][i].result, answers[a][i])
    BY DEF ResultsTrue, RowTrueOf, ClassOK
  <2>1. TypeOK /\ StoredOK
    BY DEF IInv
  <2>2. PICK rows : rows = stored[a] /\ rows \in Seq(Rows)
    BY <2>1, Types
  <2>3. i \in 1..Len(rows) /\ rows # <<>>
    BY <2>2
  <2> QED BY <2>1, <2>2, <2>3 DEF StoredOK
<1> QED BY <1>1, Invariance, PTL

\* "Stores one result per sensor" (README.md:93), for any number of clears:
\* two rows of one sensor under one AUDIT_ID are of two attempts, the operator's
\* doing, or of a discovery that listed the sensor twice.
THEOREM RepeatsAreExplained == Spec => []RepeatsExplained
<1>1. IInv => RepeatsExplained
  <2> SUFFICES ASSUME IInv, NEW a \in 1..attempt, NEW b \in 1..attempt,
                      NEW i \in DOMAIN stored[a], NEW j \in DOMAIN stored[b],
                      a < b \/ (a = b /\ i < j),
                      stored[a][i].result.sensor = stored[b][j].result.sensor
               PROVE  \/ stored[a][i].clears < stored[b][j].clears
                      \/ \E k, l \in DOMAIN targets[a] :
                            /\ k # l
                            /\ targets[a][k].sensor = stored[a][i].result.sensor
                            /\ targets[a][l].sensor = stored[a][i].result.sensor
    BY DEF RepeatsExplained
  <2>1. TypeOK /\ StoredOK
    BY DEF IInv
  <2>2. PICK A, B : A = stored[a] /\ A \in Seq(Rows) /\ B = stored[b] /\ B \in Seq(Rows)
    BY <2>1, Types
  <2>3. i \in 1..Len(A) /\ A # <<>> /\ j \in 1..Len(B) /\ B # <<>>
    BY <2>2
  <2>4. /\ Len(A) = Len(targets[a]) /\ A[i].clears = a - 1
        /\ A[i].result.sensor = targets[a][i].sensor
    BY <2>1, <2>2, <2>3 DEF StoredOK, OfTarget
  <2>5. B[j].clears = b - 1 /\ B[j].result.sensor = targets[b][j].sensor
    BY <2>1, <2>2, <2>3 DEF StoredOK, OfTarget
  <2>6. CASE a < b
    <3>1. a - 1 < b - 1
      BY <2>6
    <3> QED BY <2>2, <2>4, <2>5, <3>1
  <2>7. CASE a = b /\ i < j
    <3>1. PICK T : T = targets[a] /\ T \in Seq(Targets)
      BY <2>1, Types
    <3>2. i \in DOMAIN T /\ j \in DOMAIN T /\ i # j
      BY <2>2, <2>3, <2>4, <2>7, <3>1
    <3> QED BY <2>2, <2>4, <2>5, <2>7, <3>1, <3>2
  <2> QED BY <2>6, <2>7
<1> QED BY <1>1, Invariance, PTL
=============================================================================
