--------------------------- MODULE OpenAQRequest ---------------------------
(***************************************************************************)
(* One request of include/openaq/client.py: the retry loop of _request,    *)
(* the classes of answer _decode tells apart and the pause before a retry. *)
(* Time is in seconds; the limiter of RateLimiter.tla is one step that     *)
(* takes up to MaxPacing of them.                                          *)
(***************************************************************************)
EXTENDS Integers, Sequences, FiniteSetsExt

CONSTANTS
    MaxAttempts,   \* max_attempts
    Base, Cap,     \* backoff_base, backoff_cap
    Threshold,     \* _EPOCH_THRESHOLD: larger header values are Unix timestamps
    HeaderValues,  \* what a hint header may hold; one that is absent, no
                   \* number or not positive is passed over: 0 or less here
    MaxPacing      \* bound: seconds the limiter takes

ASSUME RequestAssumption ==
    /\ MaxAttempts \in Nat \ {0}
    /\ {Base, Cap, Threshold, MaxPacing} \subseteq Nat
    /\ HeaderValues \subseteq Int

VARIABLES
    clock,    \* time.time()
    step,     \* where the loop stands
    attempt,  \* attempt, from 0
    error,    \* the retryable error of this attempt
    slots,    \* history: permits the limiter granted
    answers   \* history: every GET's answer with the time it was given

vars == <<clock, step, attempt, error, slots, answers>>

\* _decode and the transport errors of session.get: the class of error
\* an answer raises; OpenAQRateLimitError is retryable too.
Retryable == {"OpenAQTransportError", "OpenAQServerError",
              "OpenAQInvalidJSONResponseError", "OpenAQRateLimitError"}
Permanent == {"OpenAQAuthError", "OpenAQRequestError", "OpenAQResponseError"}

Headers == [retryAfter : HeaderValues, reset : HeaderValues]
Responses == [class : {"payload"} \cup (Retryable \ {"OpenAQRateLimitError"}) \cup Permanent]
               \cup [class : {"OpenAQRateLimitError"}, headers : Headers]
NoError == [class |-> "none"]
Answer == [response : Responses, at : Nat]

TypeOK ==
    /\ clock \in Nat
    /\ step \in {"acquire", "get", "failed", "returned", "raised"}
    /\ attempt \in 0..(MaxAttempts - 1)
    /\ error \in {r \in Responses : r.class \in Retryable} \cup {NoError}
    /\ slots \in 0..MaxAttempts
    /\ answers \in Seq(Answer)

Init ==
    /\ clock = Threshold
    /\ step = "acquire"
    /\ attempt = 0
    /\ error = NoError
    /\ slots = 0
    /\ answers = <<>>

-----------------------------------------------------------------------------
(* _parse_retry_after, _backoff_delay *)

\* Seconds from now that a header value stands for.
Relative(value) == IF value >= Threshold THEN value - clock ELSE value

\* Retry-After first, then x-ratelimit-reset; 0 when neither is usable.
RetryAfter(headers) ==
    IF Relative(headers.retryAfter) > 0 THEN Relative(headers.retryAfter)
                                        ELSE Max({Relative(headers.reset), 0})

\* Full jitter: uniform from 0 to the ceiling, min(base * 2^attempt, cap).
Jitter == {delay \in 0..Cap : delay <= Base * 2^attempt}

\* Mutant: the server's hint is not used.
JitterOnly == Jitter

BackoffDelays ==
    IF error.class = "OpenAQRateLimitError" /\ RetryAfter(error.headers) > 0
    THEN {Min({RetryAfter(error.headers), Cap})}
    ELSE Jitter

-----------------------------------------------------------------------------
(* _request *)

\* self._limiter.acquire()
Acquire ==
    /\ step = "acquire"
    /\ step' = "get"
    /\ slots' = slots + 1
    /\ \E paced \in 0..MaxPacing : clock' = clock + paced
    /\ UNCHANGED <<attempt, error, answers>>

\* Mutant: a body that is not JSON is final.
GetOfStrictDecoder(r) ==
    /\ step = "get"
    /\ answers' = Append(answers, [response |-> r, at |-> clock])
    /\ \/ r.class = "payload" /\ step' = "returned" /\ UNCHANGED error
       \/ r.class \in Permanent \cup {"OpenAQInvalidJSONResponseError"}
            /\ step' = "raised" /\ UNCHANGED error
       \/ r.class \in Retryable \ {"OpenAQInvalidJSONResponseError"}
            /\ step' = "failed" /\ error' = r
    /\ UNCHANGED <<clock, attempt, slots>>

\* session.get and _decode
Get(r) ==
    /\ step = "get"
    /\ answers' = Append(answers, [response |-> r, at |-> clock])
    /\ \/ r.class = "payload" /\ step' = "returned" /\ UNCHANGED error
       \/ r.class \in Permanent /\ step' = "raised" /\ UNCHANGED error
       \/ r.class \in Retryable /\ step' = "failed" /\ error' = r
    /\ UNCHANGED <<clock, attempt, slots>>

GiveUp ==
    /\ step = "failed"
    /\ attempt = MaxAttempts - 1
    /\ step' = "raised"
    /\ UNCHANGED <<clock, attempt, error, slots, answers>>

\* Mutant: acquire stands before the loop.
RetryUnpaced ==
    /\ step = "failed"
    /\ attempt < MaxAttempts - 1
    /\ \E delay \in BackoffDelays : clock' = clock + delay
    /\ attempt' = attempt + 1
    /\ step' = "get"
    /\ UNCHANGED <<error, slots, answers>>

\* Mutant: the loop runs once more.
RetryOnceMore ==
    /\ step = "failed"
    /\ \E delay \in BackoffDelays : clock' = clock + delay
    /\ attempt' = attempt + 1
    /\ step' = "acquire"
    /\ UNCHANGED <<error, slots, answers>>

\* self._sleep(delay) and the next iteration
Retry ==
    /\ step = "failed"
    /\ attempt < MaxAttempts - 1
    /\ \E delay \in BackoffDelays : clock' = clock + delay
    /\ attempt' = attempt + 1
    /\ step' = "acquire"
    /\ UNCHANGED <<error, slots, answers>>

Next == Acquire \/ (\E r \in Responses : Get(r)) \/ GiveUp \/ Retry
Spec == Init /\ [][Next]_vars

-----------------------------------------------------------------------------
(* Properties *)

LastAnswer == answers[Len(answers)]
Transient(i) == answers[i].response.class \in Retryable

\* The caller gets what the first answer that is not transient says, or the
\* last error once every attempt met a transient one: no payload is thrown
\* away, no permanent error is asked again, no attempt is skipped.
FirstDecisiveAnswerWins ==
    LET n == Len(answers)
    IN /\ n <= MaxAttempts
       /\ \A i \in 1..(n - 1) : Transient(i)
       /\ step = "returned" => answers[n].response.class = "payload"
       /\ step = "raised" => IF Transient(n)
                             THEN n = MaxAttempts /\ error = answers[n].response
                             ELSE answers[n].response.class \in Permanent

\* Retries draw on the limiter like first attempts do: no GET without a
\* permit of its own, none taken and left unused by a finished request.
EveryGetIsPaced ==
    /\ Len(answers) <= slots
    /\ step \in {"returned", "raised"} => Len(answers) = slots

\* The moment a 429 answer names: the first header that names a later one counts.
Asked(answer) ==
    LET moment(v) == IF v >= Threshold THEN v ELSE answer.at + v
        first == moment(answer.response.headers.retryAfter)
        second == moment(answer.response.headers.reset)
    IN IF first > answer.at THEN first ELSE second

\* After a 429 the next GET is not sent before the moment the server named,
\* nor later than the cap and the limiter make it when that moment is far off
\* (test_server_hint_is_capped_so_a_bad_header_cannot_stall_a_run).
RetriesWhenAsked ==
    [][\A r \in Responses :
        Get(r) /\ answers # <<>> =>
            /\ clock <= LastAnswer.at + Cap + MaxPacing
            /\ LastAnswer.response.class = "OpenAQRateLimitError" =>
                 clock >= Min({Asked(LastAnswer), LastAnswer.at + Cap})]_vars
=============================================================================
