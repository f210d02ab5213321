----------------------------- MODULE SharedKey -----------------------------
(***************************************************************************)
(* Several task attempts that use one OpenAQ key.  Each builds a client    *)
(* with a limiter of its own (dags/openaq_ingest.py:58,                    *)
(* dags/openaq_audit.py:96), which is gone when the attempt ends; the API  *)
(* counts the requests of the key, whoever sends them.  Ingests follow     *)
(* each other (max_active_runs=1), audits run beside them.                 *)
(*                                                                         *)
(* The limiters appear as what they promise (Pacing.tla); a task sends one *)
(* request at a time.  A request is refused for the limit, with or without *)
(* a usable retry hint, meets another failure that is retried, or gets an  *)
(* answer that is not; OpenAQRequest.tla tells these apart.                *)
(***************************************************************************)
EXTENDS Integers, Sequences, FiniteSets

CONSTANTS
    Ingests, Audits,  \* task attempts of the two DAGs
    Windows, MaxRequests, Seconds,   \* OPENAQ_FREE_TIER, and the API's limits
    MaxAttempts,      \* max_attempts
    Base, Cap,        \* backoff_base, backoff_cap
    Hints,            \* bound: the waits that a refusal may name
    MaxDelay,         \* bound: from a slot to the arrival of its request
    Horizon           \* bound: the last instant

ASSUME WindowAssumption ==
    /\ MaxRequests \in [Windows -> Nat \ {0}]
    /\ Seconds \in [Windows -> Nat \ {0}]

ASSUME SharedAssumption ==
    /\ MaxAttempts \in Nat \ {0}
    /\ {Base, Cap, MaxDelay, Horizon} \subseteq Nat
    /\ Hints \subseteq Nat \ {0}
    /\ Ingests \cap Audits = {}

Runs == Ingests \cup Audits
NoHint == 0

VARIABLES
    clock,
    phase,     \* where each attempt stands
    slots,     \* the slots its limiter has granted
    tries,     \* attempt, of the request in progress
    wakeAt,    \* when its back-off ends
    arrivals   \* history: the requests the API has seen, in order

vars == <<clock, phase, slots, tries, wakeAt, arrivals>>

Limiter(r) == INSTANCE Pacing WITH granted <- slots[r]

Active == {"acquire", "get", "back off"}
Phases == {"acquire", "get", "back off", "off", "ended", "rate limited"}

\* An arrival is the nth request of its attempt, in its limiter's nth slot.
Arrival == [run : Runs, nth : Nat, try : Nat, slot : Nat, at : Nat, accepted : BOOLEAN,
            hint : Nat]

\* max_active_runs=1 of the ingest DAG
OneIngest == \A r, s \in Ingests : phase[r] \in Active /\ phase[s] \in Active => r = s

TypeOK ==
    /\ clock \in 0..Horizon
    /\ phase \in [Runs -> Phases]
    /\ slots \in [Runs -> Seq(Nat)]
    /\ tries \in [Runs -> 0..(MaxAttempts - 1)]
    /\ wakeAt \in [Runs -> Nat]
    /\ arrivals \in Seq(Arrival)
    /\ OneIngest

Init ==
    /\ clock = 0
    /\ phase = [r \in Runs |-> "off"]
    /\ slots = [r \in Runs |-> <<>>]
    /\ tries = [r \in Runs |-> 0]
    /\ wakeAt = [r \in Runs |-> 0]
    /\ arrivals = <<>>

To(r, next) == phase' = [phase EXCEPT ![r] = next]

-----------------------------------------------------------------------------
(* The task attempts *)

\* Mutant: the DAG does not limit its active runs.
BeginAnyway(r) ==
    /\ phase[r] = "off"
    /\ To(r, "acquire")
    /\ UNCHANGED <<clock, slots, tries, wakeAt, arrivals>>

\* The attempt builds its client, with a limiter that knows of no request.
Begin(r) ==
    /\ phase[r] = "off"
    /\ r \in Ingests => \A s \in Ingests : phase[s] \notin Active
    /\ To(r, "acquire")
    /\ UNCHANGED <<clock, slots, tries, wakeAt, arrivals>>

\* Mutant: no limiter.
AcquireUnpaced(r) ==
    /\ phase[r] = "acquire"
    /\ slots' = [slots EXCEPT ![r] = Append(@, clock)]
    /\ To(r, "get")
    /\ UNCHANGED <<clock, tries, wakeAt, arrivals>>

\* Mutant: only the first attempt of a request is paced.
AcquireOnce(r) ==
    /\ phase[r] = "acquire"
    /\ slots' = [slots EXCEPT ![r] = Append(@, clock)]
    /\ tries[r] = 0 => Limiter(r)!Grant(clock)
    /\ To(r, "get")
    /\ UNCHANGED <<clock, tries, wakeAt, arrivals>>

\* acquire() before every attempt; a lone caller gets the present instant.
Acquire(r) ==
    /\ phase[r] = "acquire"
    /\ slots' = [slots EXCEPT ![r] = Append(@, clock)]
    /\ Limiter(r)!Grant(clock)
    /\ To(r, "get")
    /\ UNCHANGED <<tries, wakeAt, arrivals>>

\* The task returns, fails for another reason, or its worker is lost: the
\* limiter goes with it.
Ends(r) ==
    /\ phase[r] \in Active
    /\ To(r, "ended")
    /\ slots' = [slots EXCEPT ![r] = <<>>]
    /\ tries' = [tries EXCEPT ![r] = 0]
    /\ wakeAt' = [wakeAt EXCEPT ![r] = 0]
    /\ UNCHANGED <<clock, arrivals>>

-----------------------------------------------------------------------------
(* The API *)

\* Of the first n arrivals, those that fill the window at an instant.
Counted(n, w, instant) ==
    {i \in 1..n : arrivals[i].accepted /\ arrivals[i].at > instant - Seconds[w]}

Limit(w) == Cardinality(Counted(Len(arrivals), w, clock)) >= MaxRequests[w]

Arrives(r, accepted, hint) ==
    arrivals' = Append(arrivals,
        [run |-> r, nth |-> Len(slots[r]), try |-> tries[r], slot |-> slots[r][Len(slots[r])],
         at |-> clock, accepted |-> accepted, hint |-> hint])

\* An answer that is not retried: the task goes on to its next request.
Answered(r) ==
    /\ phase[r] = "get"
    /\ \A w \in Windows : ~Limit(w)
    /\ Arrives(r, TRUE, NoHint)
    /\ To(r, "acquire")
    /\ tries' = [tries EXCEPT ![r] = 0]
    /\ UNCHANGED <<clock, slots, wakeAt>>

\* The error of the last attempt is raised to the task.
GivesUp(r, next) ==
    /\ tries[r] = MaxAttempts - 1
    /\ To(r, next)
    /\ tries' = [tries EXCEPT ![r] = 0]
    /\ UNCHANGED wakeAt

\* Full jitter: from 0 to the ceiling, min(base * 2^attempt, cap).
Jitter(r) == {delay \in 0..Cap : delay <= Base * 2^tries[r]}

\* min(error.retry_after, self._backoff_cap) where the server names a wait
BackoffDelays(r, hint) ==
    {delay \in 0..Cap : IF hint = NoHint THEN delay \in Jitter(r)
                                         ELSE delay = IF hint < Cap THEN hint ELSE Cap}

\* Mutant: the hint does not count.
BacksOffBlindly(r, hint) ==
    /\ tries[r] < MaxAttempts - 1
    /\ To(r, "back off")
    /\ tries' = [tries EXCEPT ![r] = @ + 1]
    /\ \E delay \in Jitter(r) : wakeAt' = [wakeAt EXCEPT ![r] = clock + delay]

BacksOff(r, hint) ==
    /\ tries[r] < MaxAttempts - 1
    /\ To(r, "back off")
    /\ tries' = [tries EXCEPT ![r] = @ + 1]
    /\ \E delay \in BackoffDelays(r, hint) : wakeAt' = [wakeAt EXCEPT ![r] = clock + delay]

\* 429: for the last time an ingest fails, an audit turns to its next sensor.
Refused(r, hint) ==
    /\ phase[r] = "get"
    /\ \E w \in Windows : Limit(w)
    /\ Arrives(r, FALSE, hint)
    /\ \/ BacksOff(r, hint)
       \/ GivesUp(r, IF r \in Ingests THEN "rate limited" ELSE "acquire")
    /\ UNCHANGED <<clock, slots>>

\* A 5xx, a body that is not JSON, or a transport error; of the last the
\* request may not have arrived.  The task that meets it for the last time
\* turns to its next sensor, or Ends.
Fails(r) ==
    /\ phase[r] = "get"
    /\ \/ UNCHANGED arrivals
       \/ (\A w \in Windows : ~Limit(w)) /\ Arrives(r, TRUE, NoHint)
    /\ BacksOff(r, NoHint) \/ GivesUp(r, "acquire")
    /\ UNCHANGED <<clock, slots>>

WakesUp(r) ==
    /\ phase[r] = "back off"
    /\ clock >= wakeAt[r]
    /\ To(r, "acquire")
    /\ wakeAt' = [wakeAt EXCEPT ![r] = 0]
    /\ UNCHANGED <<clock, slots, tries, arrivals>>

\* A request is under way for MaxDelay at most.
Tick ==
    /\ clock < Horizon
    /\ \A r \in Runs : phase[r] = "get" => clock < slots[r][Len(slots[r])] + MaxDelay
    /\ clock' = clock + 1
    /\ UNCHANGED <<phase, slots, tries, wakeAt, arrivals>>

Next ==
    \/ Tick
    \/ \E r \in Runs :
        \/ Begin(r) \/ Acquire(r) \/ Answered(r) \/ Fails(r) \/ WakesUp(r) \/ Ends(r)
        \/ \E hint \in Hints \cup {NoHint} : Refused(r, hint)

Spec == Init /\ [][Next]_vars

-----------------------------------------------------------------------------
(* Properties *)

\* The requests that arrive from the i-th one on within less than a span.
Span(i, length) == {j \in DOMAIN arrivals :
                        j >= i /\ arrivals[j].at - arrivals[i].at < length}

SendersOf(S) == {arrivals[j].run : j \in S}

\* What the limiters of single attempts give for the key as a whole, whatever
\* is refused, retried, lost and started anew: in a span, less the time a
\* request may be under way, at most max_requests from every attempt that sent
\* one in it.
KeyBound ==
    \A w \in Windows : \A i \in DOMAIN arrivals :
        LET span == Span(i, Seconds[w] - MaxDelay)
        IN Cardinality(span) <= MaxRequests[w] * Cardinality(SendersOf(span))

\* "The client paces itself, so this signals another process sharing the key
\* or a mismatch between the client and server rate-limit accounting"
\* (client.py:407): among the max_requests or more that fill a window for a
\* refused request there is one of another attempt, or one of its own that
\* arrived late.
RefusalsExplained ==
    \A i \in DOMAIN arrivals : ~arrivals[i].accepted =>
        \E w \in Windows :
            LET filling == Counted(i - 1, w, arrivals[i].at)
            IN  /\ Cardinality(filling) >= MaxRequests[w]
                /\ \E j \in filling : \/ arrivals[j].run # arrivals[i].run
                                      \/ arrivals[j].slot < arrivals[j].at

\* The wait that the ith arrival was told is within backoff_cap, and at its
\* end no window is full of what had arrived by then.
HintSuffices(i) ==
    LET told == arrivals[i]
    IN  /\ told.hint # NoHint /\ told.hint <= Cap
        /\ \A w \in Windows :
             Cardinality(Counted(i, w, told.at + told.hint)) < MaxRequests[w]

\* Waiting as told is enough: after a refusal whose hint names an instant at
\* which every window has room, a retry is refused only if another request
\* was accepted meanwhile.  Whatever else fails in between, the hint is waited
\* out.  A refusal without such a hint promises nothing.
RefusedAgainOnlyByRivals ==
    \A i, j \in DOMAIN arrivals :
        /\ i < j
        /\ arrivals[i].run = arrivals[j].run
        /\ ~arrivals[i].accepted /\ ~arrivals[j].accepted
        /\ arrivals[i].try < MaxAttempts - 1
        /\ \A k \in (i + 1)..(j - 1) : arrivals[k].run # arrivals[i].run
        /\ HintSuffices(i)
        => \E k \in (i + 1)..(j - 1) : arrivals[k].accepted

\* "Ingestion stays within the OpenAQ request limit" (docs/PRD.md:74): with
\* requests that take no time, the key never sees more than max_requests in a
\* span.
KeyWithinLimit ==
    \A w \in Windows : \A i \in DOMAIN arrivals :
        Cardinality(Span(i, Seconds[w])) <= MaxRequests[w]
=============================================================================
