------------------------ MODULE OpenAQRequestProofs ------------------------
(***************************************************************************)
(* Proofs about OpenAQRequest, for any number of attempts, any back-off    *)
(* and any header values.                                                  *)
(***************************************************************************)
EXTENDS OpenAQRequest, TLAPS

Steps == {"acquire", "get", "failed", "returned", "raised"}
Waiting == {"acquire", "get"}
Decided == {"failed", "returned", "raised"}

\* Every iteration before this one took a permit and met a transient answer.
LoopOK ==
    LET n == Len(answers)
    IN  /\ \A i \in 1..(n - 1) : Transient(i)
        /\ step \in Waiting => n = attempt /\ (n > 0 => Transient(n))
        /\ step \in Decided => n = attempt + 1
        /\ step = "failed" => Transient(n) /\ error = answers[n].response
        /\ step = "returned" => answers[n].response.class = "payload"
        /\ step = "raised" => IF Transient(n)
                              THEN n = MaxAttempts /\ error = answers[n].response
                              ELSE answers[n].response.class \in Permanent
        /\ slots = IF step = "get" THEN n + 1 ELSE n

\* The moment an answer allows the next GET at: the server's, or the cap's.
Due(answer) == Min({Asked(answer), answer.at + Cap})

\* After an answer the loop waits long enough, and no longer than the cap.
WaitOK ==
    answers # <<>> =>
        /\ step = "failed" => clock = LastAnswer.at
        /\ step = "acquire" => clock <= LastAnswer.at + Cap
        /\ step = "get" => clock <= LastAnswer.at + Cap + MaxPacing
        /\ step \in Waiting /\ LastAnswer.response.class = "OpenAQRateLimitError" =>
             clock >= Due(LastAnswer)

IInv == TypeOK /\ LoopOK /\ WaitOK

-----------------------------------------------------------------------------
LEMMA Bounds ==
    /\ MaxAttempts \in Nat /\ MaxAttempts >= 1
    /\ Base \in Nat /\ Cap \in Nat /\ Threshold \in Nat /\ MaxPacing \in Nat
    /\ HeaderValues \subseteq Int
BY RequestAssumption

USE Bounds

LEMMA MinOfTwo ==
    ASSUME NEW a \in Int, NEW b \in Int
    PROVE  Min({a, b}) = IF a <= b THEN a ELSE b
<1>1. \E x \in {a, b} : \A y \in {a, b} : x <= y
  OBVIOUS
<1> QED BY <1>1 DEF Min

LEMMA MaxOfTwo ==
    ASSUME NEW a \in Int, NEW b \in Int
    PROVE  Max({a, b}) = IF a >= b THEN a ELSE b
<1>1. \E x \in {a, b} : \A y \in {a, b} : x >= y
  OBVIOUS
<1> QED BY <1>1 DEF Max

\* A 429 has two hint headers, integers here.
LEMMA HintTypes ==
    ASSUME NEW r \in Responses, r.class = "OpenAQRateLimitError"
    PROVE  r.headers.retryAfter \in Int /\ r.headers.reset \in Int
BY DEF Responses, Headers, Retryable, Permanent

LEMMA Types ==
    ASSUME TypeOK
    PROVE  /\ clock \in Nat /\ step \in Steps
           /\ attempt \in Nat /\ attempt <= MaxAttempts - 1
           /\ slots \in Nat /\ slots <= MaxAttempts
           /\ answers \in Seq(Answer) /\ Len(answers) \in Nat
           /\ \A i \in 1..Len(answers) : /\ answers[i] \in Answer
                                          /\ answers[i].response \in Responses
                                          /\ answers[i].at \in Nat
<1>1. clock \in Nat /\ step \in Steps
  BY DEF TypeOK, Steps
<1>2. attempt \in 0..(MaxAttempts - 1) /\ slots \in 0..MaxAttempts
  BY DEF TypeOK
<1>3. answers \in Seq(Answer)
  BY DEF TypeOK
<1>4. Len(answers) \in Nat
  BY <1>3
<1>5. \A i \in 1..Len(answers) : answers[i] \in Answer
  BY <1>3
<1>6. \A i \in 1..Len(answers) : answers[i].response \in Responses /\ answers[i].at \in Nat
  BY <1>5 DEF Answer
<1> QED BY <1>1, <1>2, <1>3, <1>4, <1>5, <1>6

LEMMA InitIInv == Init => IInv
<1> SUFFICES ASSUME Init PROVE IInv
  OBVIOUS
<1>1. TypeOK
  BY DEF Init, TypeOK
<1>2. Len(answers) = 0 /\ answers = <<>>
  BY DEF Init
<1>3. LoopOK /\ WaitOK
  BY <1>2 DEF Init, LoopOK, WaitOK, Waiting, Decided
<1> QED BY <1>1, <1>3 DEF IInv

-----------------------------------------------------------------------------
(* The delay before a retry *)

LEMMA RelativeTypes ==
    ASSUME TypeOK, NEW v \in Int
    PROVE  Relative(v) \in Int
<1>1. clock \in Nat
  BY Types
<1> QED BY <1>1 DEF Relative

LEMMA HintIsAsked ==
    ASSUME TypeOK, NEW a \in Answer,
           a.response.class = "OpenAQRateLimitError", clock = a.at
    PROVE  /\ RetryAfter(a.response.headers) \in Nat
           /\ Asked(a) \in Int
           /\ RetryAfter(a.response.headers) > 0 => Asked(a) = clock + RetryAfter(a.response.headers)
           /\ RetryAfter(a.response.headers) = 0 => Asked(a) <= clock
<1> DEFINE ra == a.response.headers.retryAfter
           rs == a.response.headers.reset
           first == Relative(ra)
           second == Relative(rs)
<1>1. ra \in Int /\ rs \in Int /\ clock \in Nat
  BY HintTypes, Types DEF Answer
<1>2. first \in Int /\ second \in Int
  BY <1>1, RelativeTypes
<1>3. /\ (IF ra >= Threshold THEN ra ELSE a.at + ra) = clock + first
      /\ (IF rs >= Threshold THEN rs ELSE a.at + rs) = clock + second
  BY <1>1 DEF Relative
<1>4. Asked(a) = IF clock + first > clock THEN clock + first ELSE clock + second
  <2> HIDE DEF first, second
  <2> QED BY <1>3 DEF Asked
<1>5. RetryAfter(a.response.headers) = IF first > 0 THEN first ELSE Max({second, 0})
  BY DEF RetryAfter
<1>6. Max({second, 0}) = IF second >= 0 THEN second ELSE 0
  BY <1>2, MaxOfTwo
<1> HIDE DEF first, second
<1> QED BY <1>1, <1>2, <1>4, <1>5, <1>6

\* Whatever the pause is, it is no longer than the cap and reaches the moment
\* the server has named, or the cap's.
LEMMA DelayReaches ==
    ASSUME IInv, step = "failed", NEW delay \in BackoffDelays
    PROVE  /\ delay \in Nat /\ delay <= Cap
           /\ LastAnswer.response.class = "OpenAQRateLimitError" => clock + delay >= Due(LastAnswer)
<1>1. /\ LastAnswer \in Answer /\ clock \in Nat
      /\ error = LastAnswer.response /\ clock = LastAnswer.at
  <2>1. Len(answers) = attempt + 1 /\ error = answers[Len(answers)].response
    BY DEF IInv, LoopOK, Decided
  <2>2. Len(answers) \in 1..Len(answers) /\ answers # <<>>
    BY <2>1, Types DEF IInv
  <2>3. answers[Len(answers)] \in Answer
    BY <2>2, Types DEF IInv
  <2> QED BY <2>1, <2>2, <2>3, Types DEF IInv, WaitOK, LastAnswer
<1>2. CASE error.class = "OpenAQRateLimitError"
  <2> DEFINE hint == RetryAfter(error.headers)
             asked == Asked(LastAnswer)
  <2>1. /\ hint \in Nat /\ asked \in Int
        /\ hint > 0 => asked = clock + hint
        /\ hint = 0 => asked <= clock
    BY <1>1, <1>2, HintIsAsked DEF IInv
  <2>2. Due(LastAnswer) = IF asked <= clock + Cap THEN asked ELSE clock + Cap
    <3>1. clock + Cap \in Int
      BY <1>1
    <3> HIDE DEF asked
    <3> QED BY <1>1, <2>1, <3>1, MinOfTwo DEF Due, asked
  <2>3. CASE hint > 0
    <3>1. delay = Min({hint, Cap})
      BY <1>2, <2>3 DEF BackoffDelays
    <3>2. delay = IF hint <= Cap THEN hint ELSE Cap
      BY <2>1, <3>1, MinOfTwo
    <3> HIDE DEF hint, asked
    <3> QED BY <1>1, <2>1, <2>2, <2>3, <3>2
  <2>4. CASE hint = 0
    <3>1. delay \in 0..Cap
      BY <2>4 DEF BackoffDelays, Jitter
    <3> HIDE DEF hint, asked
    <3> QED BY <1>1, <2>1, <2>2, <2>4, <3>1
  <2> HIDE DEF hint
  <2> QED BY <2>1, <2>3, <2>4
<1>3. CASE error.class # "OpenAQRateLimitError"
  <2>1. delay \in 0..Cap
    BY <1>3 DEF BackoffDelays, Jitter
  <2> QED BY <1>1, <1>3, <2>1
<1> QED BY <1>2, <1>3

-----------------------------------------------------------------------------
(* The retry loop *)

LEMMA ClassesDiffer ==
    /\ Retryable \cap Permanent = {} /\ "payload" \notin Retryable \cup Permanent
BY DEF Retryable, Permanent

LEMMA DueTyped ==
    ASSUME NEW a \in Answer,
           a.response.class = "OpenAQRateLimitError"
    PROVE  Due(a) \in Int
<1>1. /\ a.response.headers.retryAfter \in Int /\ a.response.headers.reset \in Int
      /\ a.at \in Nat
  BY HintTypes DEF Answer
<1>2. Asked(a) \in Int /\ a.at + Cap \in Int
  BY <1>1 DEF Asked
<1> QED BY <1>2, MinOfTwo DEF Due

LEMMA AcquireStep ==
    ASSUME IInv, Acquire
    PROVE  IInv'
<1>1. /\ clock \in Nat /\ attempt \in Nat /\ attempt <= MaxAttempts - 1
      /\ Len(answers) \in Nat
  BY Types DEF IInv
<1>2. PICK paced \in 0..MaxPacing : clock' = clock + paced
  BY DEF Acquire
<1>3. /\ step = "acquire" /\ step' = "get" /\ slots' = slots + 1
      /\ UNCHANGED <<attempt, error, answers>>
  BY DEF Acquire
<1>4. Len(answers) = attempt /\ slots = Len(answers)
  BY <1>3 DEF IInv, LoopOK, Waiting
<1>5. TypeOK'
  <2>1. clock' \in Nat /\ slots' \in 0..MaxAttempts
    BY <1>1, <1>2, <1>3, <1>4
  <2> QED BY <1>3, <2>1 DEF IInv, TypeOK
<1>6. LoopOK'
  BY <1>1, <1>3, <1>4 DEF IInv, LoopOK, Waiting, Decided, Transient
<1>7. WaitOK'
  <2> SUFFICES ASSUME answers # <<>>
               PROVE  /\ clock' <= LastAnswer.at + Cap + MaxPacing
                      /\ LastAnswer.response.class = "OpenAQRateLimitError" =>
                           clock' >= Due(LastAnswer)
    BY <1>3 DEF WaitOK, LastAnswer, Due, Asked
  <2>1. LastAnswer \in Answer
    BY Types DEF IInv, LastAnswer
  <2>2. /\ clock <= LastAnswer.at + Cap
        /\ LastAnswer.response.class = "OpenAQRateLimitError" => clock >= Due(LastAnswer)
    BY <1>3 DEF IInv, WaitOK, Waiting
  <2>3. LastAnswer.response.class = "OpenAQRateLimitError" => Due(LastAnswer) \in Int
    BY <2>1, DueTyped
  <2>4. LastAnswer.at \in Nat
    BY <2>1 DEF Answer
  <2> QED BY <1>1, <1>2, <2>2, <2>3, <2>4
<1> QED BY <1>5, <1>6, <1>7 DEF IInv

LEMMA GetStep ==
    ASSUME IInv, NEW r \in Responses, Get(r)
    PROVE  IInv'
<1> DEFINE a == [response |-> r, at |-> clock]
<1>1. /\ clock \in Nat /\ attempt \in Nat /\ attempt <= MaxAttempts - 1
      /\ answers \in Seq(Answer) /\ Len(answers) \in Nat
  BY Types DEF IInv
<1> PICK n \in Nat : n = Len(answers)
  BY <1>1
<1>2. /\ step = "get" /\ answers' = Append(answers, a)
      /\ UNCHANGED <<clock, attempt, slots>>
      /\ \/ r.class = "payload" /\ step' = "returned" /\ UNCHANGED error
         \/ r.class \in Permanent /\ step' = "raised" /\ UNCHANGED error
         \/ r.class \in Retryable /\ step' = "failed" /\ error' = r
  BY DEF Get
<1>3. a \in Answer /\ a.response = r /\ a.at = clock
  BY <1>1 DEF Answer
<1>4. /\ answers' \in Seq(Answer) /\ Len(answers') = n + 1
      /\ answers'[n + 1] = a /\ \A i \in 1..n : answers'[i] = answers[i]
  <2> HIDE DEF a
  <2> QED BY <1>1, <1>2, <1>3
<1>5. n = attempt /\ slots = n + 1 /\ (n > 0 => Transient(n)) /\ \A i \in 1..(n - 1) : Transient(i)
  BY <1>2 DEF IInv, LoopOK, Waiting
<1> HIDE DEF a
<1>6. TypeOK'
  <2>1. error' \in {x \in Responses : x.class \in Retryable} \cup {NoError}
    BY <1>2 DEF IInv, TypeOK
  <2>2. step' \in {"acquire", "get", "failed", "returned", "raised"}
    BY <1>2
  <2> QED BY <1>2, <1>4, <2>1, <2>2 DEF IInv, TypeOK
<1>7. LoopOK'
  <2>1. \A i \in 1..n : Transient(i)
    <3>1. \A i \in 1..n : i \in 1..(n - 1) \/ i = n
      OBVIOUS
    <3> QED BY <1>5, <3>1
  <2>2. \A i \in 1..n : Transient(i)'
    BY <1>4, <2>1 DEF Transient
  <2>3. Transient(n + 1)' <=> r.class \in Retryable
    BY <1>3, <1>4 DEF Transient
  <2>4. step' \in Decided /\ step' \notin Waiting /\ step' # "get"
    BY <1>2 DEF Decided, Waiting
  <2>5. (n + 1) - 1 = n /\ Len(answers') = attempt' + 1 /\ slots' = Len(answers')
    BY <1>2, <1>4, <1>5
  <2>6. /\ step' = "failed" => r.class \in Retryable /\ error' = r
        /\ step' = "returned" => r.class = "payload"
        /\ step' = "raised" => r.class \in Permanent
    BY <1>2
  <2>7. answers'[n + 1].response = r
    BY <1>3, <1>4
  <2> QED BY <1>4, <2>2, <2>3, <2>4, <2>5, <2>6, <2>7, ClassesDiffer DEF LoopOK
<1>8. WaitOK'
  <2>1. step' \in Decided /\ step' \notin Waiting /\ step' \notin {"acquire", "get"}
    BY <1>2 DEF Decided, Waiting
  <2>2. LastAnswer'.at = clock'
    BY <1>2, <1>3, <1>4 DEF LastAnswer
  <2> QED BY <2>1, <2>2 DEF WaitOK
<1> QED BY <1>6, <1>7, <1>8 DEF IInv

LEMMA GiveUpStep ==
    ASSUME IInv, GiveUp
    PROVE  IInv'
<1>1. /\ step = "failed" /\ attempt = MaxAttempts - 1 /\ step' = "raised"
      /\ UNCHANGED <<clock, attempt, error, slots, answers>>
  BY DEF GiveUp
<1>2. /\ Len(answers) = attempt + 1 /\ Transient(Len(answers))
      /\ error = answers[Len(answers)].response
  BY <1>1 DEF IInv, LoopOK, Decided
<1>3. Len(answers) = MaxAttempts
  BY <1>1, <1>2
<1>4. TypeOK' /\ WaitOK'
  BY <1>1 DEF IInv, TypeOK, WaitOK, Waiting
<1>5. LoopOK'
  BY <1>1, <1>2, <1>3 DEF IInv, LoopOK, Decided, Waiting, Transient
<1> QED BY <1>4, <1>5 DEF IInv

LEMMA RetryStep ==
    ASSUME IInv, Retry
    PROVE  IInv'
<1>1. /\ clock \in Nat /\ attempt \in Nat /\ Len(answers) \in Nat
  BY Types DEF IInv
<1>2. /\ step = "failed" /\ attempt < MaxAttempts - 1 /\ step' = "acquire"
      /\ attempt' = attempt + 1 /\ UNCHANGED <<error, slots, answers>>
  BY DEF Retry
<1>3. PICK delay \in BackoffDelays : clock' = clock + delay
  BY DEF Retry
<1>4. /\ delay \in Nat /\ delay <= Cap
      /\ LastAnswer.response.class = "OpenAQRateLimitError" => clock + delay >= Due(LastAnswer)
  BY <1>2, DelayReaches
<1>5. /\ Len(answers) = attempt + 1 /\ Transient(Len(answers)) /\ slots = Len(answers)
      /\ answers # <<>> => clock = LastAnswer.at
  BY <1>2 DEF IInv, LoopOK, WaitOK, Decided
<1>6. TypeOK'
  <2>1. clock' \in Nat /\ attempt' \in 0..(MaxAttempts - 1)
    BY <1>1, <1>2, <1>3, <1>4
  <2> QED BY <1>2, <2>1 DEF IInv, TypeOK
<1>7. LoopOK'
  BY <1>2, <1>5 DEF IInv, LoopOK, Waiting, Decided, Transient
<1>8. WaitOK'
  <2> SUFFICES ASSUME answers # <<>>
               PROVE  /\ clock' <= LastAnswer.at + Cap
                      /\ LastAnswer.response.class = "OpenAQRateLimitError" =>
                           clock' >= Due(LastAnswer)
    BY <1>2 DEF WaitOK, LastAnswer, Due, Asked
  <2> QED BY <1>1, <1>3, <1>4, <1>5
<1> QED BY <1>6, <1>7, <1>8 DEF IInv

LEMMA Invariance == Spec => []IInv
<1>1. IInv /\ UNCHANGED vars => IInv'
  BY DEF vars, IInv, TypeOK, LoopOK, WaitOK, LastAnswer, Due, Asked, Transient
<1>2. IInv /\ [Next]_vars => IInv'
  BY <1>1, AcquireStep, GetStep, GiveUpStep, RetryStep DEF Next
<1> QED BY InitIInv, <1>2, PTL DEF Spec

-----------------------------------------------------------------------------
\* The loop's variables have their types: attempts and permits stay within
\* max_attempts (client.py:357).
THEOREM RequestTyped == Spec => []TypeOK
<1>1. IInv => TypeOK
  BY DEF IInv
<1> QED BY <1>1, Invariance, PTL

\* A request returns what the first answer that is not transient says, or
\* raises the last error after max_attempts transient ones.
THEOREM DecisiveAnswerWins == Spec => []FirstDecisiveAnswerWins
<1>1. IInv => FirstDecisiveAnswerWins
  <2> SUFFICES ASSUME IInv PROVE FirstDecisiveAnswerWins
    OBVIOUS
  <2>1. Len(answers) <= MaxAttempts
    <3>1. Len(answers) = attempt \/ Len(answers) = attempt + 1
      BY Types DEF IInv, LoopOK, Waiting, Decided, Steps
    <3> QED BY <3>1, Types DEF IInv
  <2> QED BY <2>1 DEF IInv, LoopOK, FirstDecisiveAnswerWins
<1> QED BY <1>1, Invariance, PTL

\* Every GET has a permit of its own, and a finished request has used them all.
THEOREM PermitsMatchGets == Spec => []EveryGetIsPaced
<1>1. IInv => EveryGetIsPaced
  BY Types DEF IInv, LoopOK, EveryGetIsPaced
<1> QED BY <1>1, Invariance, PTL

\* After a 429 the next GET leaves no earlier than the server said, or than
\* the cap, and no answer delays it beyond the cap and the limiter.
THEOREM HintsAreKept == Spec => RetriesWhenAsked
<1>1. IInv /\ [Next]_vars =>
        [\A r \in Responses :
            Get(r) /\ answers # <<>> =>
                /\ clock <= LastAnswer.at + Cap + MaxPacing
                /\ LastAnswer.response.class = "OpenAQRateLimitError" =>
                     clock >= Min({Asked(LastAnswer), LastAnswer.at + Cap})]_vars
  BY DEF IInv, WaitOK, Get, Waiting, Due
<1> QED BY <1>1, Invariance, PTL DEF Spec, RetriesWhenAsked

=============================================================================
