-------------------------- MODULE SharedKeyProofs --------------------------
(***************************************************************************)
(* Proofs about SharedKey, for any attempts, windows, delays and hints.    *)
(***************************************************************************)
EXTENDS SharedKey, FiniteSetTheorems, WellFoundedInduction, TLAPS

LastSlot(r) == slots[r][Len(slots[r])]

\* Each limiter's slots are in time order, the slot max_requests later at
\* least a span younger, and the request in progress is on time.
LimiterOK(r) ==
    /\ phase[r] = "get" => slots[r] # <<>> /\ clock <= LastSlot(r) + MaxDelay
    /\ \A n \in 1..Len(slots[r]) : slots[r][n] <= clock
    /\ \A m, n \in 1..Len(slots[r]) : m <= n => slots[r][m] <= slots[r][n]
    /\ \A w \in Windows : \A m, n \in 1..Len(slots[r]) :
         m + MaxRequests[w] <= n => slots[r][m] + Seconds[w] <= slots[r][n]

LimitersOK == \A r \in Runs : LimiterOK(r)

\* The arrivals of an attempt that has not ended are numbered by its slots.
NumberingOK ==
    \A i \in 1..Len(arrivals) :
        LET a == arrivals[i]
            r == a.run
        IN  /\ a.nth >= 1
            /\ phase[r] # "ended" =>
                 /\ a.nth <= Len(slots[r])
                 /\ a.slot = slots[r][a.nth]
                 /\ phase[r] = "get" => a.nth < Len(slots[r])

TimesOK ==
    /\ \A i \in 1..Len(arrivals) :
         /\ arrivals[i].slot <= arrivals[i].at
         /\ arrivals[i].at <= arrivals[i].slot + MaxDelay
         /\ arrivals[i].at <= clock
    /\ \A i, j \in 1..Len(arrivals) : i <= j => arrivals[i].at <= arrivals[j].at

\* What is left of the limiters' promise once the attempts are gone.
SpacingOK ==
    \A i, j \in 1..Len(arrivals) : i < j /\ arrivals[i].run = arrivals[j].run =>
        /\ arrivals[i].nth < arrivals[j].nth
        /\ \A w \in Windows :
             arrivals[i].nth + MaxRequests[w] <= arrivals[j].nth =>
                arrivals[i].slot + Seconds[w] <= arrivals[j].slot

\* The accepted requests that fill a window now.
Accepted(w) == Counted(Len(arrivals), w, clock)

Shorter(hint) == IF hint < Cap THEN hint ELSE Cap

\* The i-th arrival is the last of its attempt, and was told to wait and
\* try again.
Pending(i) ==
    /\ ~arrivals[i].accepted /\ arrivals[i].hint # NoHint
    /\ arrivals[i].try < MaxAttempts - 1
    /\ \A k \in (i + 1)..Len(arrivals) : arrivals[k].run # arrivals[i].run

\* An attempt asks again no earlier than it was told, or than backoff_cap.
Waits(i) ==
    LET r == arrivals[i].run
        end == arrivals[i].at + Shorter(arrivals[i].hint)
    IN  /\ phase[r] # "off"
        /\ phase[r] = "back off" => end <= wakeAt[r]
        /\ phase[r] \in {"acquire", "get"} => end <= clock

RetriesOK == \A i \in 1..Len(arrivals) : Pending(i) => Waits(i)

IInv == /\ TypeOK
        /\ LimitersOK /\ NumberingOK /\ TimesOK /\ SpacingOK
        /\ RetriesOK

-----------------------------------------------------------------------------
LEMMA Bounds ==
    /\ MaxAttempts \in Nat /\ MaxAttempts >= 1
    /\ Base \in Nat /\ Cap \in Nat /\ MaxDelay \in Nat /\ Horizon \in Nat
    /\ \A w \in Windows : /\ MaxRequests[w] \in Nat /\ MaxRequests[w] >= 1
                          /\ Seconds[w] \in Nat
    /\ Hints \cup {NoHint} \subseteq Nat
BY SharedAssumption, WindowAssumption DEF NoHint

USE Bounds

LEMMA Types ==
    ASSUME TypeOK
    PROVE  /\ clock \in Nat /\ clock <= Horizon
           /\ arrivals \in Seq(Arrival) /\ Len(arrivals) \in Nat
           /\ slots \in [Runs -> Seq(Nat)]
           /\ phase \in [Runs -> Phases]
           /\ tries \in [Runs -> Nat] /\ \A r \in Runs : tries[r] < MaxAttempts
           /\ wakeAt \in [Runs -> Nat]
           /\ OneIngest
<1>1. clock \in 0..Horizon
  BY DEF TypeOK
<1>2. tries \in [Runs -> 0..(MaxAttempts - 1)]
  BY DEF TypeOK
<1>3. /\ arrivals \in Seq(Arrival) /\ slots \in [Runs -> Seq(Nat)]
      /\ wakeAt \in [Runs -> Nat] /\ OneIngest
      /\ phase \in [Runs -> Phases]
  BY DEF TypeOK
<1>4. clock \in Nat /\ clock <= Horizon
  BY <1>1
<1>5. tries \in [Runs -> Nat] /\ \A r \in Runs : tries[r] < MaxAttempts
  BY <1>2
<1>6. Len(arrivals) \in Nat
  BY <1>3
<1> QED BY <1>3, <1>4, <1>5, <1>6

LEMMA MakeTypes ==
    ASSUME clock' \in Nat, clock' <= Horizon,
           arrivals' \in Seq(Arrival), slots' \in [Runs -> Seq(Nat)],
           phase' \in [Runs -> Phases],
           tries' \in [Runs -> Nat], \A r \in Runs : tries'[r] < MaxAttempts,
           wakeAt' \in [Runs -> Nat], OneIngest'
    PROVE  TypeOK'
<1>1. clock' \in 0..Horizon
  OBVIOUS
<1>2. tries' \in [Runs -> 0..(MaxAttempts - 1)]
  OBVIOUS
<1> QED BY <1>1, <1>2 DEF TypeOK

LEMMA InitIInv == Init => IInv
<1> SUFFICES ASSUME Init PROVE IInv
  OBVIOUS
<1>1. TypeOK
  <2>1. clock \in 0..Horizon /\ OneIngest
    BY DEF Init, OneIngest, Active, Runs
  <2>2. /\ phase \in [Runs -> Phases] /\ slots \in [Runs -> Seq(Nat)]
        /\ wakeAt \in [Runs -> Nat] /\ arrivals \in Seq(Arrival)
    BY DEF Init, Phases
  <2>3. tries \in [Runs -> 0..(MaxAttempts - 1)]
    <3>1. 0 \in 0..(MaxAttempts - 1)
      OBVIOUS
    <3> QED BY <3>1 DEF Init
  <2> QED BY <2>1, <2>2, <2>3 DEF TypeOK
<1>2. Len(arrivals) = 0 /\ \A r \in Runs : Len(slots[r]) = 0 /\ phase[r] = "off"
  BY DEF Init
<1>3. LimitersOK
  BY <1>2 DEF LimitersOK, LimiterOK
<1>4. NumberingOK /\ TimesOK /\ SpacingOK /\ RetriesOK
  BY <1>2 DEF NumberingOK, TimesOK, SpacingOK, RetriesOK
<1> QED BY <1>1, <1>3, <1>4 DEF IInv

-----------------------------------------------------------------------------
(* Types *)

LEMMA ArrivalTypes ==
    ASSUME TypeOK, NEW i \in 1..Len(arrivals)
    PROVE  /\ arrivals[i].run \in Runs
           /\ arrivals[i].nth \in Nat /\ arrivals[i].try \in Nat
           /\ arrivals[i].slot \in Nat /\ arrivals[i].at \in Nat
           /\ arrivals[i].accepted \in BOOLEAN
           /\ arrivals[i].hint \in Nat
<1>1. arrivals[i] \in Arrival
  BY Types
<1> QED BY <1>1 DEF Arrival

\* What arrives is the request the attempt has acquired last.
LEMMA ArrivalTyped ==
    ASSUME IInv, NEW r \in Runs, phase[r] = "get",
           NEW accepted \in BOOLEAN, NEW hint \in Nat, Arrives(r, accepted, hint)
    PROVE  /\ arrivals' \in Seq(Arrival)
           /\ Len(arrivals') = Len(arrivals) + 1 /\ Len(arrivals) \in Nat
           /\ arrivals'[Len(arrivals) + 1].run = r
           /\ arrivals'[Len(arrivals) + 1].nth = Len(slots[r])
           /\ arrivals'[Len(arrivals) + 1].try = tries[r]
           /\ arrivals'[Len(arrivals) + 1].slot = LastSlot(r)
           /\ arrivals'[Len(arrivals) + 1].at = clock
           /\ arrivals'[Len(arrivals) + 1].accepted = accepted
           /\ arrivals'[Len(arrivals) + 1].hint = hint
           /\ \A i \in 1..Len(arrivals) : arrivals'[i] = arrivals[i]
           /\ Len(slots[r]) \in Nat /\ Len(slots[r]) >= 1
           /\ LastSlot(r) \in Nat /\ clock \in Nat
<1>1. slots[r] \in Seq(Nat) /\ slots[r] # <<>>
  BY DEF IInv, TypeOK, LimitersOK, LimiterOK
<1>2. LastSlot(r) \in Nat /\ Len(slots[r]) \in Nat /\ Len(slots[r]) >= 1
  BY <1>1 DEF LastSlot
<1>3. clock \in Nat /\ tries[r] \in Nat /\ arrivals \in Seq(Arrival)
  BY DEF IInv, TypeOK
<1> DEFINE a == [run |-> r, nth |-> Len(slots[r]), try |-> tries[r], slot |-> LastSlot(r),
                 at |-> clock, accepted |-> accepted, hint |-> hint]
<1>4. a \in Arrival
  BY <1>2, <1>3 DEF Arrival
<1>5. arrivals' = Append(arrivals, a)
  BY DEF Arrives, LastSlot
<1> HIDE DEF a
<1>6. /\ arrivals' \in Seq(Arrival) /\ Len(arrivals') = Len(arrivals) + 1
      /\ arrivals'[Len(arrivals) + 1] = a
      /\ \A i \in 1..Len(arrivals) : arrivals'[i] = arrivals[i]
      /\ Len(arrivals) \in Nat
  BY <1>3, <1>4, <1>5
<1>7. /\ a.run = r /\ a.nth = Len(slots[r]) /\ a.try = tries[r] /\ a.slot = LastSlot(r)
      /\ a.at = clock /\ a.accepted = accepted /\ a.hint = hint
  BY DEF a
<1> QED BY <1>2, <1>3, <1>6, <1>7

\* A step of an active attempt starts no second ingest.
LEMMA NoneBegins ==
    ASSUME TypeOK, NEW r \in Runs, NEW next \in Phases, phase[r] \in Active, To(r, next)
    PROVE  phase' \in [Runs -> Phases] /\ OneIngest'
<1>1. phase \in [Runs -> Phases] /\ OneIngest
  BY Types
<1>2. phase' = [phase EXCEPT ![r] = next] /\ Ingests \subseteq Runs
  BY DEF To, Runs
<1>3. \A q \in Ingests : phase'[q] \in Active => phase[q] \in Active
  BY <1>1, <1>2
<1> QED BY <1>1, <1>2, <1>3 DEF OneIngest

LEMMA BeginsAlone ==
    ASSUME TypeOK, NEW r \in Runs, Begin(r)
    PROVE  phase' \in [Runs -> Phases] /\ OneIngest'
<1>1. phase \in [Runs -> Phases] /\ OneIngest
  BY Types
<1>2. /\ phase' = [phase EXCEPT ![r] = "acquire"] /\ Ingests \subseteq Runs
      /\ r \in Ingests => \A s \in Ingests : phase[s] \notin Active
  BY DEF Begin, To, Runs
<1>3. "acquire" \in Phases
  BY DEF Phases
<1>4. \A q \in Ingests : phase'[q] \in Active => q = r \/ phase[q] \in Active
  BY <1>1, <1>2
<1> QED BY <1>1, <1>2, <1>3, <1>4 DEF OneIngest

LEMMA TypeStep ==
    ASSUME IInv, [Next]_vars
    PROVE  TypeOK'
<1>1. /\ clock \in Nat /\ clock <= Horizon
      /\ arrivals \in Seq(Arrival) /\ slots \in [Runs -> Seq(Nat)]
      /\ phase \in [Runs -> Phases]
      /\ tries \in [Runs -> Nat] /\ \A r \in Runs : tries[r] < MaxAttempts
      /\ wakeAt \in [Runs -> Nat]
      /\ OneIngest /\ TypeOK
  BY Types DEF IInv
<1>2. CASE Tick \/ UNCHANGED vars
  <2>1. /\ clock' \in Nat /\ clock' <= Horizon
        /\ UNCHANGED <<phase, slots, tries, wakeAt, arrivals>>
    BY <1>1, <1>2 DEF Tick, vars
  <2> QED BY <1>1, <2>1, MakeTypes DEF OneIngest
<1>3. ASSUME NEW r \in Runs, Begin(r)
      PROVE  TypeOK'
  <2>1. UNCHANGED <<clock, slots, tries, wakeAt, arrivals>>
    BY <1>3 DEF Begin
  <2> QED BY <1>1, <1>3, <2>1, BeginsAlone, MakeTypes
<1>4. ASSUME NEW r \in Runs, Acquire(r)
      PROVE  TypeOK'
  <2>1. /\ slots' = [slots EXCEPT ![r] = Append(@, clock)]
        /\ UNCHANGED <<clock, tries, wakeAt, arrivals>>
        /\ phase[r] \in Active /\ To(r, "get") /\ "get" \in Phases
    BY <1>4 DEF Acquire, Active, Phases, Limiter!Grant
  <2>2. slots' \in [Runs -> Seq(Nat)]
    BY <1>1, <2>1
  <2> QED BY <1>1, <2>1, <2>2, NoneBegins, MakeTypes
<1>5. ASSUME NEW r \in Runs, Answered(r)
      PROVE  TypeOK'
  <2>1. /\ tries' = [tries EXCEPT ![r] = 0] /\ UNCHANGED <<clock, slots, wakeAt>>
        /\ phase[r] = "get" /\ phase[r] \in Active /\ To(r, "acquire") /\ "acquire" \in Phases
    BY <1>5 DEF Answered, Active, Phases
  <2>2. arrivals' \in Seq(Arrival)
    BY <1>5, <2>1, ArrivalTyped DEF Answered
  <2>3. tries' \in [Runs -> Nat] /\ \A s \in Runs : tries'[s] < MaxAttempts
    BY <1>1, <2>1
  <2> QED BY <1>1, <2>1, <2>2, <2>3, NoneBegins, MakeTypes
<1>6. ASSUME NEW r \in Runs, NEW hint \in Nat,
             BacksOff(r, hint) \/ (\E next \in Phases : GivesUp(r, next)),
             phase[r] \in Active, arrivals' \in Seq(Arrival), UNCHANGED <<clock, slots>>
      PROVE  TypeOK'
  <2>1. CASE \E next \in Phases : GivesUp(r, next)
    <3>1. /\ tries' = [tries EXCEPT ![r] = 0] /\ wakeAt' = wakeAt
          /\ \E next \in Phases : To(r, next)
      BY <2>1 DEF GivesUp
    <3>2. tries' \in [Runs -> Nat] /\ \A s \in Runs : tries'[s] < MaxAttempts
      BY <1>1, <3>1
    <3> QED BY <1>1, <1>6, <3>1, <3>2, NoneBegins, MakeTypes
  <2>2. CASE BacksOff(r, hint)
    <3>1. PICK delay \in 0..Cap :
             /\ tries' = [tries EXCEPT ![r] = @ + 1] /\ tries[r] < MaxAttempts - 1
             /\ wakeAt' = [wakeAt EXCEPT ![r] = clock + delay]
             /\ To(r, "back off") /\ "back off" \in Phases
      BY <2>2 DEF BacksOff, BackoffDelays, Phases
    <3>2. tries' \in [Runs -> Nat] /\ \A s \in Runs : tries'[s] < MaxAttempts
      <4>1. tries[r] \in Nat /\ tries[r] < MaxAttempts - 1
        BY <1>1, <3>1
      <4>2. tries[r] + 1 \in Nat /\ tries[r] + 1 < MaxAttempts
        BY <4>1
      <4> QED BY <1>1, <3>1, <4>2
    <3>3. clock + delay \in Nat
      BY <1>1
    <3>4. wakeAt' \in [Runs -> Nat]
      BY <1>1, <3>1, <3>3
    <3> QED BY <1>1, <1>6, <3>1, <3>2, <3>4, NoneBegins, MakeTypes
  <2> QED BY <1>6, <2>1, <2>2
<1>7. ASSUME NEW r \in Runs, NEW hint \in Hints \cup {NoHint}, Refused(r, hint)
      PROVE  TypeOK'
  <2>1. /\ UNCHANGED <<clock, slots>> /\ phase[r] = "get" /\ phase[r] \in Active
        /\ Arrives(r, FALSE, hint) /\ hint \in Nat
        /\ BacksOff(r, hint) \/ (\E next \in Phases : GivesUp(r, next))
    BY <1>7 DEF Refused, Active, Phases
  <2>2. arrivals' \in Seq(Arrival)
    BY <2>1, ArrivalTyped
  <2> QED BY <1>6, <2>1, <2>2
<1>8. ASSUME NEW r \in Runs, Fails(r)
       PROVE  TypeOK'
  <2>1. /\ UNCHANGED <<clock, slots>> /\ phase[r] = "get" /\ phase[r] \in Active
        /\ arrivals' = arrivals \/ Arrives(r, TRUE, NoHint)
        /\ BacksOff(r, NoHint) \/ (\E next \in Phases : GivesUp(r, next))
        /\ NoHint \in Nat
    BY <1>8 DEF Fails, Active, Phases
  <2>2. arrivals' \in Seq(Arrival)
    BY <1>1, <2>1, ArrivalTyped
  <2> QED BY <1>6, <2>1, <2>2
<1>9. ASSUME NEW r \in Runs, WakesUp(r)
      PROVE  TypeOK'
  <2>1. /\ wakeAt' = [wakeAt EXCEPT ![r] = 0] /\ UNCHANGED <<clock, slots, tries, arrivals>>
        /\ phase[r] \in Active /\ To(r, "acquire") /\ "acquire" \in Phases
    BY <1>9 DEF WakesUp, Active, Phases
  <2> QED BY <1>1, <2>1, NoneBegins, MakeTypes
<1>10. ASSUME NEW r \in Runs, Ends(r)
      PROVE  TypeOK'
  <2>1. /\ slots' = [slots EXCEPT ![r] = <<>>] /\ tries' = [tries EXCEPT ![r] = 0]
        /\ wakeAt' = [wakeAt EXCEPT ![r] = 0] /\ UNCHANGED <<clock, arrivals>>
        /\ phase[r] \in Active /\ To(r, "ended") /\ "ended" \in Phases
    BY <1>10 DEF Ends, Phases
  <2>2. /\ slots' \in [Runs -> Seq(Nat)]
        /\ tries' \in [Runs -> Nat] /\ \A s \in Runs : tries'[s] < MaxAttempts
    BY <1>1, <2>1
  <2> QED BY <1>1, <2>1, <2>2, NoneBegins, MakeTypes
<1> QED BY <1>2, <1>3, <1>4, <1>5, <1>7, <1>8, <1>9, <1>10 DEF Next

-----------------------------------------------------------------------------
(* The limiters keep their promise *)

\* A new slot takes its place behind the others.
LEMMA Earlier ==
    ASSUME NEW x \in Nat, NEW y \in Nat, NEW s \in Nat, NEW c \in Nat, x <= y, y + s <= c
    PROVE  x + s <= c
OBVIOUS

LEMMA FirstInSpan ==
    ASSUME NEW n \in Nat, NEW m \in Nat, NEW q \in Nat, m >= 1, q >= 1, m + q <= n + 1
    PROVE  n - q + 1 \in 1..n /\ m <= n - q + 1 /\ n >= q
OBVIOUS

LEMMA GrantedSlot ==
    ASSUME IInv, NEW r \in Runs, Acquire(r)
    PROVE  LimiterOK(r)'
<1> DEFINE n == Len(slots[r])
<1>1. /\ clock \in Nat /\ slots \in [Runs -> Seq(Nat)] /\ slots[r] \in Seq(Nat)
      /\ n \in Nat /\ \A m \in 1..n : slots[r][m] \in Nat
  BY Types DEF IInv
<1>2. /\ slots' = [slots EXCEPT ![r] = Append(@, clock)] /\ clock' = clock
      /\ n >= 1 => slots[r][n] <= clock
      /\ \A w \in Windows : n >= MaxRequests[w] =>
            slots[r][n - MaxRequests[w] + 1] + Seconds[w] <= clock
  BY <1>1 DEF Acquire, Limiter!Grant, Limiter!Room, Limiter!InOrder
<1>3. /\ slots'[r] \in Seq(Nat) /\ Len(slots'[r]) = n + 1
      /\ slots'[r][n + 1] = clock
      /\ \A m \in 1..n : slots'[r][m] = slots[r][m]
  BY <1>1, <1>2
<1>4. /\ \A m \in 1..n : slots[r][m] <= clock
      /\ \A m, k \in 1..n : m <= k => slots[r][m] <= slots[r][k]
      /\ \A w \in Windows : \A m, k \in 1..n :
            m + MaxRequests[w] <= k => slots[r][m] + Seconds[w] <= slots[r][k]
  BY DEF IInv, LimitersOK, LimiterOK
<1> HIDE DEF n
<1>5. \A m \in 1..(n + 1) : m \in 1..n \/ m = n + 1
  BY <1>1
<1>6. slots'[r] # <<>> /\ LastSlot(r)' = clock
  BY <1>1, <1>3 DEF LastSlot
<1>7. \A m \in 1..Len(slots'[r]) : slots'[r][m] <= clock'
  BY <1>1, <1>2, <1>3, <1>4, <1>5
<1>8. \A m, k \in 1..Len(slots'[r]) : m <= k => slots'[r][m] <= slots'[r][k]
  BY <1>1, <1>2, <1>3, <1>4, <1>5
<1>9. ASSUME NEW w \in Windows, NEW m \in 1..Len(slots'[r]), NEW k \in 1..Len(slots'[r]),
             m + MaxRequests[w] <= k
      PROVE  slots'[r][m] + Seconds[w] <= slots'[r][k]
  <2>1. m \in 1..n
    BY <1>1, <1>3, <1>9
  <2>2. CASE k \in 1..n
    BY <1>3, <1>4, <1>9, <2>1, <2>2
  <2>3. CASE k = n + 1
    <3> DEFINE first == n - MaxRequests[w] + 1
    <3>1. first \in 1..n /\ m <= first /\ n >= MaxRequests[w]
      <4>1. m \in Nat /\ m >= 1 /\ MaxRequests[w] \in Nat /\ MaxRequests[w] >= 1
        BY <1>1, <2>1
      <4>2. m + MaxRequests[w] <= n + 1
        BY <1>9, <2>3
      <4> QED BY <1>1, <4>1, <4>2, FirstInSpan
    <3>2. slots[r][first] + Seconds[w] <= clock
      BY <1>2, <3>1
    <3> HIDE DEF first
    <3>3. slots[r][m] <= slots[r][first]
      BY <1>4, <2>1, <3>1
    <3>4. slots[r][m] \in Nat /\ slots[r][first] \in Nat
      BY <1>1, <2>1, <3>1
    <3>5. slots[r][m] + Seconds[w] <= clock
      <4>1. Seconds[w] \in Nat /\ clock \in Nat
        BY <1>1
      <4> QED BY <3>2, <3>3, <3>4, <4>1, Earlier
    <3> QED BY <1>3, <2>1, <2>3, <3>5
  <2> QED BY <1>3, <1>5, <2>2, <2>3
<1>10. clock' <= LastSlot(r)' + MaxDelay
  BY <1>1, <1>2, <1>6
<1> QED BY <1>6, <1>7, <1>8, <1>9, <1>10 DEF LimiterOK

LEMMA LimitersStep ==
    ASSUME IInv, [Next]_vars
    PROVE  LimitersOK'
<1>1. slots \in [Runs -> Seq(Nat)] /\ phase \in [Runs -> Phases] /\ clock \in Nat
  BY Types DEF IInv
<1>2. ASSUME NEW r \in Runs, slots'[r] = slots[r], clock' = clock,
             phase'[r] = "get" => phase[r] = "get"
      PROVE  LimiterOK(r)'
  BY <1>2 DEF IInv, LimitersOK, LimiterOK, LastSlot
<1>3. ASSUME NEW r \in Runs, slots' = slots, clock' = clock,
             NEW next \in Phases \ {"get"}, To(r, next)
      PROVE  LimitersOK'
  <2>1. \A s \in Runs : phase'[s] = "get" => phase[s] = "get"
    BY <1>1, <1>3 DEF To
  <2> QED BY <1>2, <1>3, <2>1 DEF LimitersOK
<1>4. CASE UNCHANGED vars
  BY <1>2, <1>4 DEF vars, LimitersOK
<1>5. CASE Tick
  <2>1. clock' = clock + 1 /\ UNCHANGED <<slots, phase>>
    BY <1>5 DEF Tick
  <2>2. ASSUME NEW r \in Runs
        PROVE  LimiterOK(r)'
    <3>1. slots[r] \in Seq(Nat)
      BY <1>1
    <3>2. \A n \in 1..Len(slots[r]) : slots[r][n] <= clock /\ slots[r][n] \in Nat
      BY <3>1 DEF IInv, LimitersOK, LimiterOK
    <3>3. \A n \in 1..Len(slots'[r]) : slots'[r][n] <= clock'
      BY <1>1, <2>1, <3>2
    <3>4. phase[r] = "get" => slots[r] # <<>> /\ clock < LastSlot(r) + MaxDelay
      BY <1>5 DEF Tick, LastSlot, IInv, LimitersOK, LimiterOK
    <3>5. phase[r] = "get" => clock' <= LastSlot(r) + MaxDelay
      <4>1. phase[r] = "get" => LastSlot(r) \in Nat
        BY <3>1, <3>4 DEF LastSlot
      <4> QED BY <1>1, <2>1, <3>4, <4>1
    <3> QED BY <2>1, <3>3, <3>4, <3>5 DEF IInv, LimitersOK, LimiterOK, LastSlot
  <2> QED BY <2>2 DEF LimitersOK
<1>6. ASSUME NEW r \in Runs, Acquire(r)
      PROVE  LimitersOK'
  <2>1. /\ slots' = [slots EXCEPT ![r] = Append(@, clock)] /\ clock' = clock
        /\ phase' = [phase EXCEPT ![r] = "get"]
    BY <1>6 DEF Acquire, Limiter!Grant, To
  <2>2. \A s \in Runs : s # r => slots'[s] = slots[s] /\ phase'[s] = phase[s]
    BY <1>1, <2>1
  <2> QED BY <1>2, <1>6, <2>1, <2>2, GrantedSlot DEF LimitersOK
<1>7. ASSUME NEW r \in Runs, Ends(r)
      PROVE  LimitersOK'
  <2>1. /\ slots' = [slots EXCEPT ![r] = <<>>] /\ clock' = clock
        /\ phase' = [phase EXCEPT ![r] = "ended"]
    BY <1>7 DEF Ends, To
  <2>2. \A s \in Runs : s # r => slots'[s] = slots[s] /\ phase'[s] = phase[s]
    BY <1>1, <2>1
  <2>3. LimiterOK(r)'
    <3>1. Len(slots'[r]) = 0 /\ phase'[r] # "get"
      BY <1>1, <2>1
    <3> QED BY <3>1 DEF LimiterOK
  <2> QED BY <1>2, <2>1, <2>2, <2>3 DEF LimitersOK
<1>8. ASSUME NEW r \in Runs, Begin(r) \/ Answered(r) \/ WakesUp(r)
      PROVE  LimitersOK'
  <2>1. UNCHANGED <<slots, clock>> /\ To(r, "acquire") /\ "acquire" \in Phases \ {"get"}
    BY <1>8 DEF Begin, Answered, WakesUp, Phases
  <2> QED BY <1>3, <2>1
<1>9. ASSUME NEW r \in Runs,
             Fails(r) \/ (\E hint \in Hints \cup {NoHint} : Refused(r, hint))
      PROVE  LimitersOK'
  <2>1. UNCHANGED <<slots, clock>> /\ \E next \in Phases \ {"get"} : To(r, next)
    BY <1>9 DEF Refused, Fails, GivesUp, BacksOff, Phases
  <2> QED BY <1>3, <2>1
<1> QED BY <1>4, <1>5, <1>6, <1>7, <1>8, <1>9 DEF Next

-----------------------------------------------------------------------------
(* What arrives *)

\* The arrival of a request in progress: it is on time, the last of its
\* attempt, and as far behind the others as the limiter has spaced it.
LEMMA ArrivalPlaced ==
    ASSUME IInv, NEW r \in Runs, phase[r] = "get", NEW accepted \in BOOLEAN, NEW hint \in Nat,
           Arrives(r, accepted, hint), UNCHANGED <<clock, slots>>,
           NEW next \in Phases \ {"get"}, To(r, next)
    PROVE  NumberingOK' /\ TimesOK' /\ SpacingOK'
<1> DEFINE n == Len(arrivals)
           last == Len(slots[r])
<1>1. /\ n \in Nat
      /\ Len(arrivals') = n + 1
      /\ arrivals'[n + 1].run = r /\ arrivals'[n + 1].nth = last
      /\ arrivals'[n + 1].slot = LastSlot(r) /\ arrivals'[n + 1].at = clock
      /\ \A i \in 1..n : arrivals'[i] = arrivals[i]
      /\ last \in Nat /\ last >= 1 /\ LastSlot(r) \in Nat /\ clock \in Nat
  BY ArrivalTyped
<1>2. /\ LastSlot(r) = slots[r][last] /\ slots[r] \in Seq(Nat)
      /\ LastSlot(r) <= clock /\ clock <= LastSlot(r) + MaxDelay
      /\ \A w \in Windows : \A m \in 1..last :
            m + MaxRequests[w] <= last => slots[r][m] + Seconds[w] <= LastSlot(r)
  <2>1. LimiterOK(r) /\ slots[r] \in Seq(Nat)
    BY Types DEF IInv, LimitersOK
  <2>2. last \in 1..last
    BY <1>1
  <2> QED BY <2>1, <2>2 DEF LimiterOK, LastSlot
<1>3. phase' = [phase EXCEPT ![r] = next] /\ phase \in [Runs -> Phases] /\ phase'[r] # "get"
  BY Types DEF To, IInv
<1>4. \A i \in 1..n :
        /\ arrivals[i].run \in Runs /\ arrivals[i].nth \in Nat
        /\ arrivals[i].slot \in Nat /\ arrivals[i].at \in Nat
        /\ arrivals[i].nth >= 1
        /\ phase[arrivals[i].run] # "ended" =>
             /\ arrivals[i].nth <= Len(slots[arrivals[i].run])
             /\ arrivals[i].slot = slots[arrivals[i].run][arrivals[i].nth]
        /\ arrivals[i].run = r => arrivals[i].nth < last
  BY ArrivalTypes DEF IInv, NumberingOK
<1> HIDE DEF n, last
<1>5. \A i \in 1..(n + 1) : i \in 1..n \/ i = n + 1
  BY <1>1
<1>6. NumberingOK'
  <2>1. ASSUME NEW i \in 1..n
        PROVE  LET a == arrivals'[i]
               IN  /\ a.nth >= 1
                   /\ phase'[a.run] # "ended" =>
                        /\ a.nth <= Len(slots'[a.run])
                        /\ a.slot = slots'[a.run][a.nth]
                        /\ phase'[a.run] = "get" => a.nth < Len(slots'[a.run])
    <3>1. arrivals'[i] = arrivals[i] /\ slots' = slots
      BY <1>1
    <3>2. CASE arrivals[i].run = r
      <4>1. arrivals[i].nth <= Len(slots[r]) /\ arrivals[i].slot = slots[r][arrivals[i].nth]
        BY <1>4, <3>2
      <4> QED BY <1>3, <1>4, <3>1, <3>2, <4>1
    <3>3. CASE arrivals[i].run # r
      <4>1. phase'[arrivals[i].run] = phase[arrivals[i].run]
        BY <1>3, <1>4, <3>3
      <4> QED BY <1>4, <3>1, <3>3, <4>1 DEF IInv, NumberingOK, n
    <3> QED BY <3>2, <3>3
  <2>2. LET a == arrivals'[n + 1]
        IN  /\ a.nth >= 1
            /\ phase'[a.run] # "ended" =>
                 /\ a.nth <= Len(slots'[a.run])
                 /\ a.slot = slots'[a.run][a.nth]
                 /\ phase'[a.run] = "get" => a.nth < Len(slots'[a.run])
    BY <1>1, <1>2, <1>3 DEF last
  <2> QED BY <1>1, <1>5, <2>1, <2>2 DEF NumberingOK
<1>7. TimesOK'
  <2>1. \A i \in 1..n : /\ arrivals[i].slot <= arrivals[i].at
                        /\ arrivals[i].at <= arrivals[i].slot + MaxDelay
                        /\ arrivals[i].at <= clock
                        /\ \A j \in 1..n : i <= j => arrivals[i].at <= arrivals[j].at
    BY DEF IInv, TimesOK, n
  <2>2. \A i \in 1..(n + 1) : /\ arrivals'[i].slot <= arrivals'[i].at
                              /\ arrivals'[i].at <= arrivals'[i].slot + MaxDelay
                              /\ arrivals'[i].at <= clock
    <3> SUFFICES ASSUME NEW i \in 1..(n + 1)
                 PROVE  /\ arrivals'[i].slot <= arrivals'[i].at
                        /\ arrivals'[i].at <= arrivals'[i].slot + MaxDelay
                        /\ arrivals'[i].at <= clock
      OBVIOUS
    <3>1. CASE i \in 1..n
      BY <1>1, <2>1, <3>1
    <3>2. CASE i = n + 1
      <4>1. arrivals'[i].slot = LastSlot(r) /\ arrivals'[i].at = clock
        BY <1>1, <3>2
      <4> QED BY <1>1, <1>2, <4>1
    <3> QED BY <1>5, <3>1, <3>2
  <2>3. \A i, j \in 1..(n + 1) : i <= j => arrivals'[i].at <= arrivals'[j].at
    <3> SUFFICES ASSUME NEW i \in 1..(n + 1), NEW j \in 1..(n + 1), i <= j
                 PROVE  arrivals'[i].at <= arrivals'[j].at
      OBVIOUS
    <3>1. CASE j \in 1..n
      <4>1. i \in 1..n
        BY <1>1, <3>1
      <4> QED BY <1>1, <2>1, <3>1, <4>1
    <3>2. CASE j = n + 1
      <4>1. arrivals'[j].at = clock
        BY <1>1, <3>2
      <4>2. arrivals'[i].at <= clock
        BY <2>2
      <4> QED BY <4>1, <4>2
    <3> QED BY <1>5, <3>1, <3>2
  <2> QED BY <1>1, <2>2, <2>3 DEF TimesOK
<1>8. SpacingOK'
  <2> SUFFICES ASSUME NEW i \in 1..(n + 1), NEW j \in 1..(n + 1),
                      i < j, arrivals'[i].run = arrivals'[j].run
               PROVE  /\ arrivals'[i].nth < arrivals'[j].nth
                      /\ \A w \in Windows :
                           arrivals'[i].nth + MaxRequests[w] <= arrivals'[j].nth =>
                              arrivals'[i].slot + Seconds[w] <= arrivals'[j].slot
    BY <1>1 DEF SpacingOK
  <2>1. i \in 1..n /\ arrivals'[i] = arrivals[i]
    BY <1>1
  <2>2. CASE j \in 1..n
    BY <1>1, <2>1, <2>2 DEF IInv, SpacingOK, n
  <2>3. CASE j = n + 1
    <3>1. arrivals[i].run = r /\ arrivals[i].nth < last /\ arrivals[i].nth \in 1..last
      BY <1>1, <1>4, <2>1, <2>3
    <3>2. arrivals[i].slot = slots[r][arrivals[i].nth]
      BY <1>4, <2>1, <3>1
    <3> QED BY <1>1, <1>2, <2>1, <2>3, <3>1, <3>2
  <2> QED BY <1>5, <2>2, <2>3
<1> QED BY <1>6, <1>7, <1>8

\* As long as nothing arrives what has arrived stays as it is.
LEMMA NothingArrives ==
    ASSUME IInv, arrivals' = arrivals, clock' \in {clock, clock + 1}
    PROVE  TimesOK' /\ SpacingOK'
<1>1. TimesOK'
  <2>1. clock \in Nat /\ clock' \in Nat /\ clock <= clock'
    BY Types DEF IInv
  <2>2. \A i \in 1..Len(arrivals) : arrivals[i].at \in Nat
    BY ArrivalTypes DEF IInv
  <2> QED BY <2>1, <2>2 DEF IInv, TimesOK
<1>2. SpacingOK'
  BY DEF IInv, SpacingOK
<1> QED BY <1>1, <1>2

LEMMA PlacesStep ==
    ASSUME IInv, [Next]_vars
    PROVE  NumberingOK' /\ TimesOK' /\ SpacingOK'
<1>1. /\ slots \in [Runs -> Seq(Nat)] /\ phase \in [Runs -> Phases]
      /\ \A i \in 1..Len(arrivals) : arrivals[i].run \in Runs /\ arrivals[i].nth \in Nat
  BY Types, ArrivalTypes DEF IInv
<1>2. CASE Tick \/ UNCHANGED vars
  <2>1. arrivals' = arrivals /\ clock' \in {clock, clock + 1} /\ UNCHANGED <<slots, phase>>
    BY <1>2 DEF Tick, vars
  <2> QED BY <2>1, NothingArrives DEF IInv, NumberingOK
<1>3. ASSUME NEW r \in Runs, Begin(r) \/ WakesUp(r)
      PROVE  NumberingOK' /\ TimesOK' /\ SpacingOK'
  <2>1. /\ arrivals' = arrivals /\ clock' = clock /\ slots' = slots
        /\ phase' = [phase EXCEPT ![r] = "acquire"] /\ phase[r] # "ended"
    BY <1>3 DEF Begin, WakesUp, To
  <2>2. NumberingOK'
    BY <1>1, <2>1 DEF IInv, NumberingOK
  <2> QED BY <2>1, <2>2, NothingArrives
<1>4. ASSUME NEW r \in Runs, Acquire(r)
      PROVE  NumberingOK' /\ TimesOK' /\ SpacingOK'
  <2>1. /\ arrivals' = arrivals /\ clock' = clock
        /\ slots' = [slots EXCEPT ![r] = Append(@, clock)]
        /\ phase' = [phase EXCEPT ![r] = "get"] /\ phase[r] # "ended"
    BY <1>4 DEF Acquire, To, Limiter!Grant
  <2>2. /\ Len(slots'[r]) = Len(slots[r]) + 1 /\ Len(slots[r]) \in Nat
        /\ \A m \in 1..Len(slots[r]) : slots'[r][m] = slots[r][m]
    <3>1. clock \in Nat /\ slots[r] \in Seq(Nat)
      BY Types DEF IInv
    <3> QED BY <1>1, <2>1, <3>1
  <2>3. NumberingOK'
    <3> SUFFICES ASSUME NEW i \in 1..Len(arrivals)
                 PROVE  LET a == arrivals[i]
                        IN  /\ a.nth >= 1
                            /\ phase'[a.run] # "ended" =>
                                 /\ a.nth <= Len(slots'[a.run])
                                 /\ a.slot = slots'[a.run][a.nth]
                                 /\ phase'[a.run] = "get" => a.nth < Len(slots'[a.run])
      BY <2>1 DEF NumberingOK
    <3>1. arrivals[i].nth >= 1 /\ arrivals[i].nth \in Nat /\ arrivals[i].run \in Runs
      BY <1>1 DEF IInv, NumberingOK
    <3>2. CASE arrivals[i].run = r
      <4>1. arrivals[i].nth <= Len(slots[r]) /\ arrivals[i].slot = slots[r][arrivals[i].nth]
        BY <2>1, <3>2 DEF IInv, NumberingOK
      <4>2. arrivals[i].nth \in 1..Len(slots[r])
        BY <2>2, <3>1, <4>1
      <4> QED BY <2>2, <3>1, <3>2, <4>1, <4>2
    <3>3. CASE arrivals[i].run # r
      <4>1. /\ slots'[arrivals[i].run] = slots[arrivals[i].run]
            /\ phase'[arrivals[i].run] = phase[arrivals[i].run]
        BY <1>1, <2>1, <3>1, <3>3
      <4> QED BY <3>1, <4>1 DEF IInv, NumberingOK
    <3> QED BY <3>2, <3>3
  <2> QED BY <2>1, <2>3, NothingArrives
<1>5. ASSUME NEW r \in Runs, Ends(r)
      PROVE  NumberingOK' /\ TimesOK' /\ SpacingOK'
  <2>1. /\ arrivals' = arrivals /\ clock' = clock
        /\ slots' = [slots EXCEPT ![r] = <<>>] /\ phase' = [phase EXCEPT ![r] = "ended"]
    BY <1>5 DEF Ends, To
  <2>2. \A s \in Runs : \/ slots'[s] = slots[s] /\ phase'[s] = phase[s]
                        \/ phase'[s] = "ended"
    BY <1>1, <2>1
  <2>3. NumberingOK'
    BY <1>1, <2>1, <2>2 DEF IInv, NumberingOK
  <2> QED BY <2>1, <2>3, NothingArrives
<1>6. ASSUME NEW r \in Runs, Answered(r)
      PROVE  NumberingOK' /\ TimesOK' /\ SpacingOK'
  <2>1. /\ phase[r] = "get" /\ Arrives(r, TRUE, NoHint) /\ UNCHANGED <<clock, slots>>
        /\ To(r, "acquire") /\ "acquire" \in Phases \ {"get"}
    BY <1>6 DEF Answered, Phases
  <2> QED BY <2>1, ArrivalPlaced
<1>7. ASSUME NEW r \in Runs, NEW hint \in Hints \cup {NoHint}, Refused(r, hint)
      PROVE  NumberingOK' /\ TimesOK' /\ SpacingOK'
  <2>1. /\ phase[r] = "get" /\ Arrives(r, FALSE, hint) /\ UNCHANGED <<clock, slots>>
        /\ \E next \in Phases \ {"get"} : To(r, next)
    BY <1>7 DEF Refused, GivesUp, BacksOff, Phases
  <2>2. hint \in Nat
    OBVIOUS
  <2> QED BY <2>1, <2>2, ArrivalPlaced
<1>8. ASSUME NEW r \in Runs, Fails(r)
      PROVE  NumberingOK' /\ TimesOK' /\ SpacingOK'
  <2>1. PICK next \in Phases \ {"get"} :
           /\ phase[r] = "get" /\ UNCHANGED <<clock, slots>> /\ To(r, next)
           /\ arrivals' = arrivals \/ Arrives(r, TRUE, NoHint)
    BY <1>8 DEF Fails, GivesUp, BacksOff, Phases
  <2>2. CASE Arrives(r, TRUE, NoHint)
    BY <2>1, <2>2, ArrivalPlaced
  <2>3. CASE arrivals' = arrivals
    <3>1. phase' = [phase EXCEPT ![r] = next]
      BY <2>1 DEF To
    <3>2. NumberingOK'
      BY <1>1, <2>1, <2>3, <3>1 DEF IInv, NumberingOK
    <3> QED BY <2>1, <2>3, <3>2, NothingArrives
  <2> QED BY <2>1, <2>2, <2>3
<1> QED BY <1>2, <1>3, <1>4, <1>5, <1>6, <1>7, <1>8 DEF Next

-----------------------------------------------------------------------------
(* Waits *)

LEMMA AcceptedFinite ==
    ASSUME TypeOK, NEW w \in Windows
    PROVE  /\ IsFiniteSet(Accepted(w)) /\ Cardinality(Accepted(w)) \in Nat
           /\ Accepted(w) \subseteq 1..Len(arrivals)
           /\ \A S \in SUBSET Accepted(w) :
                IsFiniteSet(S) /\ Cardinality(S) \in Nat /\ Cardinality(S) <= Cardinality(Accepted(w))
<1>1. Accepted(w) \subseteq 1..Len(arrivals) /\ Len(arrivals) \in Nat
  BY Types DEF Accepted, Counted
<1>2. IsFiniteSet(1..Len(arrivals))
  BY <1>1, FS_Interval
<1>3. IsFiniteSet(Accepted(w))
  BY <1>1, <1>2, FS_Subset
<1> QED BY <1>1, <1>3, FS_Subset, FS_CardinalityType

\* Nothing changes for an attempt while others act and requests of theirs
\* arrive.
LEMMA StillWaits ==
    ASSUME IInv, NEW r \in Runs, NEW i \in 1..Len(arrivals), arrivals[i].run # r,
           arrivals'[i] = arrivals[i], clock' = clock,
           \A q \in Runs : q # r => phase'[q] = phase[q] /\ wakeAt'[q] = wakeAt[q],
           \/ arrivals' = arrivals
           \/ /\ Len(arrivals') = Len(arrivals) + 1
              /\ \A k \in 1..Len(arrivals) : arrivals'[k] = arrivals[k]
    PROVE  (Pending(i) => Waits(i))'
<1>1. Len(arrivals) \in Nat /\ arrivals[i].run \in Runs
  BY Types, ArrivalTypes DEF IInv
<1>2. Pending(i)' => Pending(i)
  BY <1>1 DEF Pending
<1>3. Waits(i) => Waits(i)'
  BY <1>1 DEF Waits
<1> QED BY <1>2, <1>3 DEF IInv, RetriesOK

\* The steps of an attempt whose request does not arrive.
MovesOn(r) ==
    \/ phase[r] = "off"
    \/ phase'[r] = "ended"
    \/ phase[r] \in {"acquire", "get"} /\ (phase'[r] = "back off" => clock <= wakeAt'[r])
    \/ phase[r] = "back off" /\ clock >= wakeAt[r] /\ phase'[r] = "acquire"

\* An attempt whose request does not arrive keeps what it was told.
LEMMA KeepsWaiting ==
    ASSUME IInv, NEW r \in Runs, UNCHANGED <<arrivals, clock>>,
           \A q \in Runs : q # r => phase'[q] = phase[q] /\ wakeAt'[q] = wakeAt[q],
           phase'[r] # "off", wakeAt'[r] \in Nat, MovesOn(r)
    PROVE  RetriesOK'
<1>1. ASSUME NEW i \in 1..Len(arrivals), arrivals[i].run = r, Pending(i)
      PROVE  Waits(i)'
  <2> PICK end : end = arrivals[i].at + Shorter(arrivals[i].hint)
    OBVIOUS
  <2>1. end \in Nat /\ clock \in Nat /\ wakeAt[r] \in Nat
    <3>1. arrivals[i].at \in Nat /\ arrivals[i].hint \in Nat
      BY ArrivalTypes DEF IInv
    <3>2. Shorter(arrivals[i].hint) \in Nat
      BY <3>1 DEF Shorter
    <3>3. end \in Nat
      BY <3>1, <3>2
    <3>4. clock \in Nat /\ wakeAt \in [Runs -> Nat]
      BY Types DEF IInv
    <3> QED BY <3>3, <3>4
  <2>2. /\ phase[r] # "off"
        /\ phase[r] = "back off" => end <= wakeAt[r]
        /\ phase[r] \in {"acquire", "get"} => end <= clock
    BY <1>1 DEF IInv, RetriesOK, Waits
  <2>3. CASE phase'[r] = "ended"
    BY <1>1, <2>3 DEF Waits
  <2>4. CASE phase[r] \in {"acquire", "get"} /\ (phase'[r] = "back off" => clock <= wakeAt'[r])
    <3>1. end <= clock
      BY <2>2, <2>4
    <3>2. clock <= wakeAt'[r] => end <= wakeAt'[r]
      BY <2>1, <3>1
    <3>3. phase'[r] = "back off" => end <= wakeAt'[r]
      BY <2>4, <3>2
    <3> QED BY <1>1, <3>1, <3>3 DEF Waits
  <2>5. CASE phase[r] = "back off" /\ clock >= wakeAt[r] /\ phase'[r] = "acquire"
    <3>1. end <= wakeAt[r] /\ clock >= wakeAt[r]
      BY <2>2, <2>5
    <3>2. end <= clock
      BY <2>1, <3>1
    <3> QED BY <1>1, <2>5, <3>2 DEF Waits
  <2> QED BY <2>2, <2>3, <2>4, <2>5 DEF MovesOn
<1>2. \A i \in 1..Len(arrivals) : Pending(i)' => Pending(i)
  BY DEF Pending
<1>3. \A i \in 1..Len(arrivals) : (Pending(i) => Waits(i))'
  BY <1>1, <1>2, StillWaits
<1> QED BY <1>3 DEF RetriesOK

\* What an attempt makes of the answer: it backs off for as long as it is told,
\* or there is nothing it is told to do again.
Heeds(r, accepted, hint, next) ==
    \/ accepted = TRUE
    \/ hint = NoHint
    \/ tries[r] = MaxAttempts - 1
    \/ next = "back off" /\ wakeAt'[r] = clock + Shorter(hint)

\* An attempt whose request arrives is told anew.
LEMMA ToldAnew ==
    ASSUME IInv, NEW r \in Runs, phase[r] = "get", clock' = clock,
           NEW accepted \in BOOLEAN, NEW hint \in Nat, Arrives(r, accepted, hint),
           NEW next \in Phases \ {"off"}, To(r, next),
           \A q \in Runs : q # r => wakeAt'[q] = wakeAt[q],
           Heeds(r, accepted, hint, next)
    PROVE  RetriesOK'
<1>1. Len(arrivals) \in Nat /\ phase \in [Runs -> Phases] /\ clock \in Nat
  BY Types DEF IInv
<1> PICK n \in Nat : n = Len(arrivals)
  BY <1>1
<1>2. /\ Len(arrivals') = n + 1 /\ arrivals'[n + 1].run = r
      /\ arrivals'[n + 1].at = clock /\ arrivals'[n + 1].hint = hint
      /\ arrivals'[n + 1].try = tries[r] /\ arrivals'[n + 1].accepted = accepted
      /\ \A i \in 1..n : arrivals'[i] = arrivals[i]
  BY ArrivalTyped
<1>3. phase'[r] = next /\ \A q \in Runs : q # r => phase'[q] = phase[q]
  BY <1>1 DEF To
<1>4. \A i \in 1..n : arrivals[i].run = r => ~Pending(i)'
  <2>1. \A i \in 1..n : n + 1 \in (i + 1)..(n + 1)
    OBVIOUS
  <2> QED BY <1>2, <2>1 DEF Pending
<1>5. \A i \in 1..n : (Pending(i) => Waits(i))'
  BY <1>2, <1>3, <1>4, StillWaits
<1>6. (Pending(n + 1) => Waits(n + 1))'
  <2>1. CASE accepted = TRUE \/ hint = NoHint
    BY <1>2, <2>1 DEF Pending
  <2>2. CASE tries[r] = MaxAttempts - 1
    <3>1. ~(tries[r] < MaxAttempts - 1)
      BY <2>2
    <3> QED BY <1>2, <3>1 DEF Pending
  <2>3. CASE next = "back off" /\ wakeAt'[r] = clock + Shorter(hint)
    <3>1. Shorter(hint) \in Nat
      BY DEF Shorter
    <3>2. clock + Shorter(hint) <= wakeAt'[r]
      <4>1. clock \in Nat /\ wakeAt'[r] = clock + Shorter(hint)
        BY <1>1, <2>3
      <4> QED BY <3>1, <4>1
    <3> QED BY <1>2, <1>3, <2>3, <3>2 DEF Waits
  <2> QED BY <2>1, <2>2, <2>3 DEF Heeds
<1>7. \A i \in 1..(n + 1) : i \in 1..n \/ i = n + 1
  OBVIOUS
<1> QED BY <1>2, <1>5, <1>6, <1>7 DEF RetriesOK

LEMMA RetriesStep ==
    ASSUME IInv, [Next]_vars
    PROVE  RetriesOK'
<1>1. /\ clock \in Nat /\ phase \in [Runs -> Phases] /\ wakeAt \in [Runs -> Nat]
      /\ Len(arrivals) \in Nat
  BY Types DEF IInv
<1>2. wakeAt' \in [Runs -> Nat]
  BY TypeStep DEF TypeOK
<1>3. CASE UNCHANGED vars
  BY <1>3 DEF vars, IInv, RetriesOK, Pending, Waits
<1>4. CASE Tick
  <2>1. clock' = clock + 1 /\ UNCHANGED <<phase, tries, wakeAt, arrivals>>
    BY <1>4 DEF Tick
  <2>2. ASSUME NEW i \in 1..Len(arrivals), Waits(i)
        PROVE  Waits(i)'
    <3> PICK end : end = arrivals[i].at + Shorter(arrivals[i].hint)
      OBVIOUS
    <3>1. end \in Nat
      <4>1. arrivals[i].at \in Nat /\ arrivals[i].hint \in Nat
        BY ArrivalTypes DEF IInv
      <4> QED BY <4>1 DEF Shorter
    <3>2. end <= clock => end <= clock + 1
      BY <1>1, <3>1
    <3> QED BY <2>1, <2>2, <3>2 DEF Waits
  <2> QED BY <2>1, <2>2 DEF IInv, RetriesOK, Pending
<1>5. ASSUME NEW r \in Runs, Begin(r) \/ Acquire(r) \/ WakesUp(r) \/ Ends(r)
      PROVE  RetriesOK'
  <2>1. /\ UNCHANGED <<arrivals, clock>>
        /\ \A q \in Runs : q # r => phase'[q] = phase[q] /\ wakeAt'[q] = wakeAt[q]
        /\ phase'[r] \in {"acquire", "get", "ended"}
        /\ MovesOn(r)
    BY <1>1, <1>5 DEF Begin, Acquire, WakesUp, Ends, To, Limiter!Grant, MovesOn
  <2> QED BY <1>2, <2>1, KeepsWaiting
<1>6. ASSUME NEW r \in Runs, Answered(r)
      PROVE  RetriesOK'
  <2>1. /\ phase[r] = "get" /\ Arrives(r, TRUE, NoHint) /\ clock' = clock /\ To(r, "acquire")
        /\ "acquire" \in Phases \ {"off"} /\ wakeAt' = wakeAt
    BY <1>6 DEF Answered, Phases
  <2>2. Heeds(r, TRUE, NoHint, "acquire")
    BY DEF Heeds
  <2> QED BY <2>1, <2>2, ToldAnew
<1>7. ASSUME NEW r \in Runs, NEW hint \in Hints \cup {NoHint}, Refused(r, hint)
      PROVE  RetriesOK'
  <2>1. phase[r] = "get" /\ Arrives(r, FALSE, hint) /\ clock' = clock /\ hint \in Nat
    BY <1>7 DEF Refused
  <2>2. CASE \E next \in Phases \ {"off"} : GivesUp(r, next)
    <3>1. PICK next \in Phases \ {"off"} : GivesUp(r, next)
      BY <2>2
    <3>2. To(r, next) /\ wakeAt' = wakeAt /\ Heeds(r, FALSE, hint, next)
      BY <3>1 DEF GivesUp, Heeds
    <3> QED BY <2>1, <3>2, ToldAnew
  <2>3. CASE BacksOff(r, hint)
    <3>1. PICK delay \in 0..Cap :
             /\ To(r, "back off") /\ "back off" \in Phases \ {"off"}
             /\ wakeAt' = [wakeAt EXCEPT ![r] = clock + delay]
             /\ hint # NoHint => delay = Shorter(hint)
      BY <2>3 DEF BacksOff, BackoffDelays, Shorter, Phases
    <3>2. wakeAt'[r] = clock + delay /\ \A q \in Runs : q # r => wakeAt'[q] = wakeAt[q]
      BY <1>1, <3>1
    <3>3. Heeds(r, FALSE, hint, "back off")
      BY <3>1, <3>2 DEF Heeds
    <3> QED BY <2>1, <3>1, <3>2, <3>3, ToldAnew
  <2>4. BacksOff(r, hint) \/ \E next \in Phases \ {"off"} : GivesUp(r, next)
    BY <1>7 DEF Refused, Phases
  <2> QED BY <2>2, <2>3, <2>4
<1>8. ASSUME NEW r \in Runs, Fails(r)
      PROVE  RetriesOK'
  <2>1. PICK next \in Phases \ {"off"} :
           /\ phase[r] = "get" /\ clock' = clock /\ To(r, next)
           /\ arrivals' = arrivals \/ Arrives(r, TRUE, NoHint)
           /\ \A q \in Runs : q # r => wakeAt'[q] = wakeAt[q]
           /\ next = "back off" => clock <= wakeAt'[r]
    <3>1. CASE GivesUp(r, "acquire")
      <4>1. /\ phase[r] = "get" /\ clock' = clock /\ To(r, "acquire") /\ wakeAt' = wakeAt
            /\ arrivals' = arrivals \/ Arrives(r, TRUE, NoHint)
        BY <1>8, <3>1 DEF Fails, GivesUp
      <4>2. "acquire" \in Phases \ {"off"}
        BY DEF Phases
      <4> QED BY <4>1, <4>2
    <3>2. CASE BacksOff(r, NoHint)
      <4>1. PICK delay \in 0..Cap : wakeAt' = [wakeAt EXCEPT ![r] = clock + delay]
        BY <3>2 DEF BacksOff, BackoffDelays
      <4>2. clock <= wakeAt'[r] /\ \A q \in Runs : q # r => wakeAt'[q] = wakeAt[q]
        BY <1>1, <4>1
      <4>3. /\ phase[r] = "get" /\ clock' = clock /\ To(r, "back off")
            /\ arrivals' = arrivals \/ Arrives(r, TRUE, NoHint)
        BY <1>8, <3>2 DEF Fails, BacksOff
      <4>4. "back off" \in Phases \ {"off"}
        BY DEF Phases
      <4> QED BY <4>2, <4>3, <4>4
    <3> QED BY <1>8, <3>1, <3>2 DEF Fails
  <2>2. CASE Arrives(r, TRUE, NoHint)
    <3>1. Heeds(r, TRUE, NoHint, next)
      BY DEF Heeds
    <3> QED BY <2>1, <2>2, <3>1, ToldAnew
  <2>3. CASE arrivals' = arrivals
    <3>1. phase'[r] = next /\ \A q \in Runs : q # r => phase'[q] = phase[q]
      BY <1>1, <2>1 DEF To
    <3>2. MovesOn(r)
      BY <2>1, <3>1 DEF MovesOn
    <3> QED BY <1>2, <2>1, <2>3, <3>1, <3>2, KeepsWaiting
  <2> QED BY <2>1, <2>2, <2>3
<1> QED BY <1>3, <1>4, <1>5, <1>6, <1>7, <1>8 DEF Next

-----------------------------------------------------------------------------
LEMMA Invariance == Spec => []IInv
<1>1. IInv /\ [Next]_vars => IInv'
  BY TypeStep, LimitersStep, PlacesStep, RetriesStep DEF IInv
<1> QED BY InitIInv, <1>1, PTL DEF Spec

\* States and histories of the key have their types; one ingest runs at a time.
THEOREM KeyTyped == Spec => []TypeOK
<1>1. IInv => TypeOK
  BY DEF IInv
<1> QED BY <1>1, Invariance, PTL

-----------------------------------------------------------------------------
(* What the limiters give for the key *)

LEMMA NatMin ==
    ASSUME NEW T \in SUBSET Nat, T # {}
    PROVE  \E x \in T : \A y \in T : x <= y
<1>1. PICK x \in T : \A y \in T : ~(<<y, x>> \in OpToRel(<, Nat))
  BY NatLessThanWellFounded, WFMin
<1>2. ASSUME NEW y \in T
      PROVE  x <= y
  <2>1. x \in Nat /\ y \in Nat
    OBVIOUS
  <2>2. y < x => <<y, x>> \in OpToRel(<, Nat)
    BY <2>1 DEF OpToRel
  <2>3. ~(y < x)
    BY <1>1, <2>2
  <2> QED BY <2>1, <2>3
<1> QED BY <1>2

LEMMA ArrivesTooNear ==
    ASSUME NEW start \in Nat, NEW at1 \in Nat, NEW at2 \in Nat, NEW slot1 \in Nat,
           NEW slot2 \in Nat, NEW span \in Nat,
           start <= at1, at1 <= slot1 + MaxDelay,
           slot2 <= at2, at2 - start < span - MaxDelay
    PROVE  ~(slot1 + span <= slot2)
OBVIOUS

\* Two requests of one attempt within a span, less the delay, are fewer than
\* max_requests apart in its limiter.
LEMMA SlotsOf ==
    ASSUME NEW M \in Nat, M >= 1
    PROVE  IsFiniteSet(0..(M - 1)) /\ Cardinality(0..(M - 1)) = M
<1>1. M - 1 \in Int /\ 0 \in Int
  OBVIOUS
<1>2. /\ IsFiniteSet(0..(M - 1))
      /\ Cardinality(0..(M - 1)) = IF 0 > M - 1 THEN 0 ELSE (M - 1) - 0 + 1
  BY <1>1, FS_Interval
<1> QED BY <1>2

LEMMA NearInNumber ==
    ASSUME IInv, NEW w \in Windows, NEW i \in 1..Len(arrivals),
           NEW j \in Span(i, Seconds[w] - MaxDelay), NEW k \in Span(i, Seconds[w] - MaxDelay),
           arrivals[j].run = arrivals[k].run
    PROVE  /\ arrivals[j].nth < arrivals[k].nth + MaxRequests[w]
           /\ arrivals[j].nth = arrivals[k].nth => j = k
<1>1. Len(arrivals) \in Nat /\ DOMAIN arrivals = 1..Len(arrivals)
  BY Types DEF IInv
<1>2. /\ j \in 1..Len(arrivals) /\ k \in 1..Len(arrivals) /\ j >= i /\ k >= i
      /\ arrivals[j].at - arrivals[i].at < Seconds[w] - MaxDelay
  BY <1>1 DEF Span
<1>3. /\ arrivals[j].nth \in Nat /\ arrivals[k].nth \in Nat
      /\ arrivals[j].slot \in Nat /\ arrivals[k].slot \in Nat
      /\ arrivals[j].at \in Nat /\ arrivals[k].at \in Nat /\ arrivals[i].at \in Nat
  BY <1>2, ArrivalTypes DEF IInv
<1>4. /\ arrivals[i].at <= arrivals[k].at
      /\ arrivals[j].slot <= arrivals[j].at
      /\ arrivals[k].at <= arrivals[k].slot + MaxDelay
  BY <1>2 DEF IInv, TimesOK
<1>5. ~(arrivals[k].slot + Seconds[w] <= arrivals[j].slot)
  BY <1>2, <1>3, <1>4, ArrivesTooNear
<1>6. /\ j < k => arrivals[j].nth < arrivals[k].nth
      /\ k < j => /\ arrivals[k].nth < arrivals[j].nth
                  /\ arrivals[k].nth + MaxRequests[w] <= arrivals[j].nth =>
                        arrivals[k].slot + Seconds[w] <= arrivals[j].slot
  BY <1>2 DEF IInv, SpacingOK
<1>7. j < k \/ j = k \/ k < j
  BY <1>2
<1>8. PICK x \in Nat, y \in Nat, q \in Nat :
        x = arrivals[j].nth /\ y = arrivals[k].nth /\ q = MaxRequests[w] /\ q >= 1
  BY <1>3
<1>9. x < y + q /\ (x = y => j = k)
  <2>1. CASE j < k
    <3>1. x < y
      BY <1>6, <1>8, <2>1
    <3> QED BY <1>8, <3>1
  <2>2. CASE j = k
    <3>1. x = y
      BY <1>8, <2>2
    <3> QED BY <1>8, <2>2, <3>1
  <2>3. CASE k < j
    <3>1. y < x /\ ~(y + q <= x)
      BY <1>5, <1>6, <1>8, <2>3
    <3> QED BY <3>1
  <2> QED BY <1>7, <2>1, <2>2, <2>3
<1> QED BY <1>8, <1>9

LEMMA Difference ==
    ASSUME NEW x \in Nat, NEW y \in Nat, NEW q \in Nat, y <= x, x < y + q
    PROVE  x - y \in 0..(q - 1)
OBVIOUS

LEMMA SpanBound ==
    ASSUME IInv, NEW w \in Windows, NEW i \in 1..Len(arrivals)
    PROVE  LET span == Span(i, Seconds[w] - MaxDelay)
           IN  Cardinality(span) <= MaxRequests[w] * Cardinality(SendersOf(span))
<1> DEFINE span == Span(i, Seconds[w] - MaxDelay)
           senders == SendersOf(span)
           numbers(r) == {arrivals[j].nth : j \in {k \in span : arrivals[k].run = r}}
           first(r) == CHOOSE x \in numbers(r) : \A y \in numbers(r) : x <= y
           room == (0..(MaxRequests[w] - 1)) \X senders
           place == [j \in span |-> <<arrivals[j].nth - first(arrivals[j].run), arrivals[j].run>>]
<1>1. IsFiniteSet(span) /\ span \subseteq 1..Len(arrivals)
  <2>1. Len(arrivals) \in Nat /\ span \subseteq 1..Len(arrivals)
    BY Types DEF IInv, Span
  <2>2. IsFiniteSet(1..Len(arrivals))
    BY <2>1, FS_Interval
  <2> QED BY <2>1, <2>2, FS_Subset
<1>2. IsFiniteSet(senders)
  <2> DEFINE sender == [j \in span |-> arrivals[j].run]
  <2>1. sender \in Surjection(span, senders)
    BY DEF SendersOf, Surjection
  <2> QED BY <1>1, <2>1, FS_Surjection
<1>3. \A j \in span : arrivals[j].nth \in Nat /\ arrivals[j].run \in senders
  BY <1>1, ArrivalTypes DEF IInv, SendersOf
<1>4. ASSUME NEW j \in span
      PROVE  \E k \in span : /\ arrivals[k].run = arrivals[j].run
                             /\ first(arrivals[j].run) = arrivals[k].nth
                             /\ arrivals[k].nth <= arrivals[j].nth
  <2> DEFINE own == numbers(arrivals[j].run)
  <2>1. own \in SUBSET Nat /\ arrivals[j].nth \in own
    BY <1>3
  <2>2. \E x \in own : \A y \in own : x <= y
    BY <2>1, NatMin
  <2>3. first(arrivals[j].run) \in own /\ first(arrivals[j].run) <= arrivals[j].nth
    <3> HIDE DEF numbers
    <3> QED BY <2>1, <2>2
  <2> HIDE DEF first
  <2> QED BY <2>3
<1>5. place \in [span -> room]
  <2> SUFFICES ASSUME NEW j \in span
               PROVE  arrivals[j].nth - first(arrivals[j].run) \in 0..(MaxRequests[w] - 1)
    BY <1>3
  <2>1. PICK k \in span : /\ arrivals[k].run = arrivals[j].run
                          /\ first(arrivals[j].run) = arrivals[k].nth
                          /\ arrivals[k].nth <= arrivals[j].nth
    BY <1>4
  <2>2. arrivals[j].nth < arrivals[k].nth + MaxRequests[w]
    BY <2>1, NearInNumber
  <2>3. arrivals[j].nth - arrivals[k].nth \in 0..(MaxRequests[w] - 1)
    <3>1. arrivals[j].nth \in Nat /\ arrivals[k].nth \in Nat /\ MaxRequests[w] \in Nat
      BY <1>3
    <3>2. arrivals[k].nth <= arrivals[j].nth
      BY <2>1
    <3> QED BY ONLY <2>2, <3>1, <3>2, Difference
  <2> QED BY <2>1, <2>3
<1>6. ASSUME NEW j \in span, NEW k \in span, place[j] = place[k]
      PROVE  j = k
  <2>1. arrivals[j].run = arrivals[k].run
    BY <1>6
  <2> DEFINE base == first(arrivals[j].run)
  <2>2. arrivals[j].nth - base = arrivals[k].nth - base
    <3> HIDE DEF first
    <3>1. /\ place[j][1] = arrivals[j].nth - first(arrivals[j].run)
          /\ place[k][1] = arrivals[k].nth - first(arrivals[k].run)
      OBVIOUS
    <3>2. arrivals[j].nth - first(arrivals[j].run) = arrivals[k].nth - first(arrivals[k].run)
      <4> HIDE DEF place
      <4> QED BY <1>6, <3>1
    <3> QED BY <2>1, <3>2
  <2>3. base \in Nat
    BY <1>3, <1>4
  <2> HIDE DEF base
  <2>4. arrivals[j].nth = arrivals[k].nth
    BY <1>3, <2>2, <2>3
  <2> QED BY <2>1, <2>4, NearInNumber
<1>7. /\ IsFiniteSet(room)
      /\ Cardinality(room) = MaxRequests[w] * Cardinality(senders)
      /\ Cardinality(room) \in Nat /\ Cardinality(span) \in Nat
  <2>1. IsFiniteSet(0..(MaxRequests[w] - 1)) /\ Cardinality(0..(MaxRequests[w] - 1)) = MaxRequests[w]
    BY SlotsOf
  <2> HIDE DEF senders, span
  <2> QED BY <1>1, <1>2, <2>1, FS_Product, FS_CardinalityType
<1> HIDE DEF place, room, span
<1>8. ~(Cardinality(room) < Cardinality(span))
  <2> SUFFICES ASSUME Cardinality(room) < Cardinality(span) PROVE FALSE
    OBVIOUS
  <2>1. IsFiniteSet(span) /\ IsFiniteSet(room) /\ place \in [span -> room]
    BY <1>1, <1>5, <1>7
  <2>2. \E x, y \in span : x # y /\ place[x] = place[y]
    BY <2>1, FS_PigeonHole
  <2> QED BY <1>6, <2>2
<1>9. Cardinality(span) <= Cardinality(room)
  BY <1>7, <1>8
<1> QED BY <1>7, <1>9 DEF span

\* In a span, less the time a request may be under way, the key sees at most
\* max_requests from every attempt that sent one, whatever is refused,
\* retried, lost and started anew (client.py:203, a limiter of its own for every client).
THEOREM KeyBoundHolds == Spec => []KeyBound
<1>1. IInv => KeyBound
  <2> SUFFICES ASSUME IInv PROVE KeyBound
    OBVIOUS
  <2>1. DOMAIN arrivals = 1..Len(arrivals)
    BY Types DEF IInv
  <2> QED BY <2>1, SpanBound DEF KeyBound
<1> QED BY <1>1, Invariance, PTL

-----------------------------------------------------------------------------
(* Why requests are refused *)

LEMMA FewerThan ==
    ASSUME NEW M \in Nat, M >= 1
    PROVE  IsFiniteSet(1..(M - 1)) /\ Cardinality(1..(M - 1)) < M
<1>1. M - 1 \in Int /\ 1 \in Int
  OBVIOUS
<1>2. /\ IsFiniteSet(1..(M - 1))
      /\ Cardinality(1..(M - 1)) = IF 1 > M - 1 THEN 0 ELSE (M - 1) - 1 + 1
  BY <1>1, FS_Interval
<1> QED BY <1>2

LEMMA SlotTooNear ==
    ASSUME NEW slot1 \in Nat, NEW now \in Nat, NEW span \in Nat, NEW slot2 \in Nat,
           slot1 + span <= slot2, slot2 <= now
    PROVE  ~(slot1 > now - span)
OBVIOUS

\* The requests of one attempt that arrive on time never fill a window for its
\* next one.
LEMMA OwnLeaveRoom ==
    ASSUME IInv, NEW r \in Runs, phase[r] = "get", NEW w \in Windows,
           \A j \in Accepted(w) : arrivals[j].run = r /\ ~(arrivals[j].slot < arrivals[j].at)
    PROVE  ~Limit(w)
<1>1. slots[r] \in Seq(Nat) /\ slots[r] # <<>> /\ clock \in Nat
  BY Types DEF IInv, LimitersOK, LimiterOK
<1> DEFINE last == Len(slots[r])
           behind == [j \in Accepted(w) |-> last - arrivals[j].nth]
<1>2. last \in Nat /\ last \in 1..last /\ slots[r][last] \in Nat
  BY <1>1
<1>3. ASSUME NEW j \in Accepted(w)
      PROVE  last - arrivals[j].nth \in 1..(MaxRequests[w] - 1) /\ arrivals[j].nth \in Nat
  <2>1. j \in 1..Len(arrivals) /\ arrivals[j].at > clock - Seconds[w] /\ arrivals[j].run = r
    BY AcceptedFinite DEF Accepted, Counted, IInv
  <2>2. /\ arrivals[j].nth \in Nat /\ arrivals[j].slot \in Nat /\ arrivals[j].at \in Nat
    BY <2>1, ArrivalTypes DEF IInv
  <2>3. /\ arrivals[j].nth >= 1 /\ arrivals[j].nth < last
        /\ arrivals[j].slot = slots[r][arrivals[j].nth]
    BY <2>1 DEF IInv, NumberingOK
  <2>4. arrivals[j].slot = arrivals[j].at
    <3>1. arrivals[j].slot <= arrivals[j].at
      BY <2>1 DEF IInv, TimesOK
    <3> QED BY <2>2, <3>1
  <2>5. arrivals[j].nth \in 1..last
    BY <1>2, <2>2, <2>3
  <2>6. /\ slots[r][last] <= clock
        /\ arrivals[j].nth + MaxRequests[w] <= last =>
              slots[r][arrivals[j].nth] + Seconds[w] <= slots[r][last]
    BY <1>2, <2>5 DEF IInv, LimitersOK, LimiterOK
  <2>7. ~(arrivals[j].nth + MaxRequests[w] <= last)
    <3>1. arrivals[j].slot > clock - Seconds[w]
      BY <2>1, <2>4
    <3>2. ~(arrivals[j].slot + Seconds[w] <= slots[r][last])
      <4>1. Seconds[w] \in Nat
        OBVIOUS
      <4>2. slots[r][last] <= clock
        BY <2>6
      <4> QED BY <1>1, <1>2, <2>2, <3>1, <4>1, <4>2, SlotTooNear
    <3> QED BY <2>3, <2>6, <3>2
  <2>8. MaxRequests[w] \in Nat
    OBVIOUS
  <2> HIDE DEF last
  <2> QED BY <1>2, <2>2, <2>3, <2>7, <2>8
<1>4. behind \in [Accepted(w) -> 1..(MaxRequests[w] - 1)]
  BY <1>3
<1>5. ASSUME NEW j \in Accepted(w), NEW k \in Accepted(w), behind[j] = behind[k]
      PROVE  j = k
  <2>1. arrivals[j].nth = arrivals[k].nth
    <3>1. last - arrivals[j].nth = last - arrivals[k].nth
      BY <1>5
    <3>2. arrivals[j].nth \in Nat /\ arrivals[k].nth \in Nat
      BY <1>3
    <3> HIDE DEF last, behind
    <3> QED BY <1>2, <3>1, <3>2
  <2>2. /\ j \in 1..Len(arrivals) /\ k \in 1..Len(arrivals)
        /\ arrivals[j].run = arrivals[k].run
        /\ arrivals[j].nth \in Nat /\ arrivals[k].nth \in Nat
    BY <1>3, AcceptedFinite DEF IInv
  <2>3. /\ j < k => arrivals[j].nth < arrivals[k].nth
        /\ k < j => arrivals[k].nth < arrivals[j].nth
    BY <2>2 DEF IInv, SpacingOK
  <2>4. j < k \/ j = k \/ k < j
    BY <2>2
  <2> QED BY <2>1, <2>2, <2>3, <2>4
<1>6. /\ IsFiniteSet(Accepted(w)) /\ Cardinality(Accepted(w)) \in Nat
      /\ IsFiniteSet(1..(MaxRequests[w] - 1))
      /\ Cardinality(1..(MaxRequests[w] - 1)) < MaxRequests[w]
      /\ Cardinality(1..(MaxRequests[w] - 1)) \in Nat
  BY AcceptedFinite, FewerThan, FS_CardinalityType DEF IInv
<1> HIDE DEF behind
<1>7. ~(Cardinality(1..(MaxRequests[w] - 1)) < Cardinality(Accepted(w)))
  <2> SUFFICES ASSUME Cardinality(1..(MaxRequests[w] - 1)) < Cardinality(Accepted(w))
               PROVE  FALSE
    OBVIOUS
  <2>1. \E x, y \in Accepted(w) : x # y /\ behind[x] = behind[y]
    BY <1>4, <1>6, FS_PigeonHole
  <2> QED BY <1>5, <2>1
<1>8. Cardinality(Accepted(w)) < MaxRequests[w]
  <2> DEFINE few == Cardinality(1..(MaxRequests[w] - 1))
             many == Cardinality(Accepted(w))
  <2>1. many \in Nat /\ few \in Nat /\ few < MaxRequests[w] /\ ~(few < many)
    BY <1>6, <1>7
  <2>2. MaxRequests[w] \in Nat
    OBVIOUS
  <2> HIDE DEF few, many
  <2>3. many < MaxRequests[w]
    BY <2>1, <2>2
  <2> QED BY <2>3 DEF many
<1> QED BY <1>6, <1>8 DEF Limit, Accepted

\* A window filled for the ith arrival by one of another attempt, or by a
\* late one of its own.
Explained(i) ==
    \E w \in Windows :
        /\ Cardinality(Counted(i - 1, w, arrivals[i].at)) >= MaxRequests[w]
        /\ \E j \in Counted(i - 1, w, arrivals[i].at) :
             \/ arrivals[j].run # arrivals[i].run
             \/ arrivals[j].slot < arrivals[j].at

LEMMA ExplainedStep ==
    ASSUME IInv, RefusalsExplained, [Next]_vars
    PROVE  RefusalsExplained'
<1>1. Len(arrivals) \in Nat /\ DOMAIN arrivals = 1..Len(arrivals)
  BY Types DEF IInv
<1> PICK n \in Nat : n = Len(arrivals)
  BY <1>1
<1>2. ASSUME NEW i \in 1..n, ~arrivals[i].accepted,
             \A k \in 1..n : arrivals'[k] = arrivals[k]
      PROVE  Explained(i)'
  <2>1. Explained(i)
    BY <1>1, <1>2 DEF RefusalsExplained, Explained
  <2>2. i - 1 \in 0..n /\ arrivals'[i] = arrivals[i]
    BY <1>2
  <2>3. PICK w \in Windows :
           /\ Cardinality(Counted(i - 1, w, arrivals[i].at)) >= MaxRequests[w]
           /\ \E j \in Counted(i - 1, w, arrivals[i].at) :
                \/ arrivals[j].run # arrivals[i].run
                \/ arrivals[j].slot < arrivals[j].at
    BY <2>1 DEF Explained
  <2>4. Counted(i - 1, w, arrivals[i].at)' = Counted(i - 1, w, arrivals[i].at)
    <3>1. 1..(i - 1) \subseteq 1..n
      OBVIOUS
    <3> QED BY <1>2, <2>2, <3>1 DEF Counted
  <2>5. \A j \in Counted(i - 1, w, arrivals[i].at) : arrivals'[j] = arrivals[j]
    BY <1>2 DEF Counted
  <2> QED BY <2>2, <2>3, <2>4, <2>5 DEF Explained
<1>3. CASE UNCHANGED arrivals
  <2>1. \A i \in 1..n : arrivals'[i] = arrivals[i]
    BY <1>3
  <2>2. \A i \in 1..n : ~arrivals'[i].accepted => Explained(i)'
    BY <1>2, <2>1
  <2> QED BY <1>1, <1>3, <2>2 DEF RefusalsExplained, Explained
<1>4. ASSUME Len(arrivals') = n + 1, \A i \in 1..n : arrivals'[i] = arrivals[i],
             arrivals' \in Seq(Arrival),
             arrivals'[n + 1].accepted \/ Explained(n + 1)'
      PROVE  RefusalsExplained'
  <2>1. DOMAIN arrivals' = 1..(n + 1) /\ \A i \in 1..(n + 1) : i \in 1..n \/ i = n + 1
    BY <1>4
  <2>2. \A i \in 1..(n + 1) : ~arrivals'[i].accepted => Explained(i)'
    BY <1>2, <1>4, <2>1
  <2> QED BY <2>1, <2>2 DEF RefusalsExplained, Explained
<1>5. ASSUME NEW r \in Runs, phase[r] = "get", Arrives(r, TRUE, NoHint)
      PROVE  RefusalsExplained'
  <2>1. /\ arrivals' \in Seq(Arrival) /\ Len(arrivals') = n + 1 /\ arrivals'[n + 1].accepted
        /\ \A i \in 1..n : arrivals'[i] = arrivals[i]
    BY <1>5, ArrivalTyped
  <2> QED BY <1>4, <2>1
<1>6. ASSUME NEW r \in Runs, NEW hint \in Hints \cup {NoHint}, Refused(r, hint)
      PROVE  RefusalsExplained'
  <2>1. /\ phase[r] = "get" /\ Arrives(r, FALSE, hint) /\ FALSE \in BOOLEAN
        /\ hint \in Nat /\ \E w \in Windows : Limit(w)
    BY <1>6 DEF Refused
  <2>2. /\ arrivals' \in Seq(Arrival) /\ Len(arrivals') = n + 1
        /\ arrivals'[n + 1].at = clock /\ arrivals'[n + 1].run = r
        /\ \A i \in 1..n : arrivals'[i] = arrivals[i]
    BY <2>1, ArrivalTyped
  <2>3. PICK w \in Windows : Limit(w)
    BY <2>1
  <2>4. PICK j \in Accepted(w) : arrivals[j].run # r \/ arrivals[j].slot < arrivals[j].at
    BY <2>1, <2>3, OwnLeaveRoom
  <2>5. Counted(n, w, arrivals[n + 1].at)' = Accepted(w)
    BY <2>2 DEF Accepted, Counted
  <2>6. j \in 1..n
    BY <2>4 DEF Accepted, Counted
  <2>7. (n + 1) - 1 = n
    OBVIOUS
  <2>8. Explained(n + 1)'
    BY <2>2, <2>3, <2>4, <2>5, <2>6, <2>7 DEF Explained, Limit, Accepted
  <2> QED BY <1>4, <2>2, <2>8
<1>7. ASSUME NEW r \in Runs, Answered(r) \/ Fails(r)
      PROVE  RefusalsExplained'
  <2>1. arrivals' = arrivals \/ (phase[r] = "get" /\ Arrives(r, TRUE, NoHint))
    BY <1>7 DEF Answered, Fails
  <2> QED BY <1>5, <1>3, <2>1
<1> QED BY <1>6, <1>7, <1>3 DEF Next, Tick, Begin, Acquire, WakesUp, Ends, vars

\* For every refused request some window holds max_requests or more, and among
\* them one of another attempt, or one of its own that arrived late
\* (client.py:407).
THEOREM RefusalsAreExplained == Spec => []RefusalsExplained
<1>1. Init => RefusalsExplained
  BY DEF Init, RefusalsExplained
<1>2. IInv /\ RefusalsExplained /\ [Next]_vars => RefusalsExplained'
  BY ExplainedStep
<1> QED BY <1>1, <1>2, Invariance, PTL DEF Spec

\* Who was told enough, waited as told and lost no room meanwhile finds some.
LEMMA WaitingIsEnough ==
    ASSUME IInv, NEW i \in 1..Len(arrivals), Pending(i), HintSuffices(i),
           phase[arrivals[i].run] = "get",
           \A k \in (i + 1)..Len(arrivals) : ~arrivals[k].accepted,
           NEW w \in Windows
    PROVE  ~Limit(w)
<1>1. clock \in Nat /\ arrivals[i].at \in Nat /\ arrivals[i].hint \in Nat /\ i \in Nat
      /\ Len(arrivals) \in Nat
  BY Types, ArrivalTypes DEF IInv
<1> PICK end : end = arrivals[i].at + arrivals[i].hint
  OBVIOUS
<1> DEFINE counted == Counted(i, w, end)
<1>2. end <= clock /\ end \in Nat
  <2>1. Shorter(arrivals[i].hint) = arrivals[i].hint
    BY <1>1 DEF Shorter, HintSuffices
  <2>2. end <= clock
    BY <2>1 DEF IInv, RetriesOK, Waits
  <2> QED BY <1>1, <2>2
<1>3. ASSUME NEW k \in Accepted(w)
      PROVE  k \in counted
  <2>1. /\ k \in 1..Len(arrivals) /\ arrivals[k].accepted
        /\ arrivals[k].at > clock - Seconds[w]
    BY AcceptedFinite DEF IInv, Accepted, Counted
  <2>2. arrivals[k].at \in Nat
    BY <2>1, ArrivalTypes DEF IInv
  <2>3. k \in 1..i
    BY <1>1, <2>1
  <2>4. arrivals[k].at > end - Seconds[w]
    <3>1. Seconds[w] \in Nat
      OBVIOUS
    <3>2. arrivals[k].at > clock - Seconds[w]
      BY <2>1
    <3> QED BY <1>1, <1>2, <2>2, <3>1, <3>2
  <2> QED BY <2>1, <2>3, <2>4 DEF Counted
<1>4. IsFiniteSet(counted) /\ Cardinality(counted) \in Nat
  <2>1. IsFiniteSet(1..i) /\ counted \in SUBSET (1..i)
    BY <1>1, FS_Interval DEF Counted
  <2> QED BY <2>1, FS_Subset, FS_CardinalityType
<1>5. Cardinality(Accepted(w)) <= Cardinality(counted)
  BY <1>3, <1>4, FS_Subset
<1>6. Cardinality(counted) < MaxRequests[w]
  BY DEF HintSuffices
<1>7. Cardinality(Accepted(w)) \in Nat /\ MaxRequests[w] \in Nat
  BY AcceptedFinite DEF IInv
<1>8. Cardinality(Accepted(w)) < MaxRequests[w]
  <2> HIDE DEF counted
  <2> QED BY <1>4, <1>5, <1>6, <1>7
<1> QED BY <1>7, <1>8 DEF Limit, Accepted

\* The jth refusal follows the ith one of its attempt, which was told enough.
ToldEnough(i, j) ==
    /\ arrivals[i].run = arrivals[j].run
    /\ ~arrivals[i].accepted /\ ~arrivals[j].accepted
    /\ arrivals[i].try < MaxAttempts - 1
    /\ \A k \in (i + 1)..(j - 1) : arrivals[k].run # arrivals[i].run
    /\ HintSuffices(i)

LEMMA RivalsStep ==
    ASSUME IInv, RefusedAgainOnlyByRivals, [Next]_vars
    PROVE  RefusedAgainOnlyByRivals'
<1>1. Len(arrivals) \in Nat /\ DOMAIN arrivals = 1..Len(arrivals)
  BY Types DEF IInv
<1> PICK n \in Nat : n = Len(arrivals)
  BY <1>1
<1>2. ASSUME NEW i \in 1..n, \A k \in 1..n : arrivals'[k] = arrivals[k], HintSuffices(i)'
      PROVE  HintSuffices(i)
  <2>1. arrivals'[i] = arrivals[i]
    BY <1>2
  <2>2. \A w \in Windows : Counted(i, w, arrivals[i].at + arrivals[i].hint)'
                              = Counted(i, w, arrivals[i].at + arrivals[i].hint)
    <3>1. 1..i \subseteq 1..n
      OBVIOUS
    <3> QED BY <1>2, <2>1, <3>1 DEF Counted
  <2> QED BY <1>2, <2>1, <2>2 DEF HintSuffices
<1>3. ASSUME NEW i \in 1..n, NEW j \in 1..n, i < j,
             \A k \in 1..n : arrivals'[k] = arrivals[k], ToldEnough(i, j)'
      PROVE  \E k \in (i + 1)..(j - 1) : arrivals'[k].accepted
  <2>1. arrivals'[i] = arrivals[i] /\ arrivals'[j] = arrivals[j]
    BY <1>3
  <2>2. \A k \in (i + 1)..(j - 1) : k \in 1..n
    OBVIOUS
  <2>3. \A k \in (i + 1)..(j - 1) : arrivals'[k] = arrivals[k]
    BY <1>3, <2>2
  <2>4. HintSuffices(i)
    BY <1>2, <1>3 DEF ToldEnough
  <2>5. ToldEnough(i, j)
    BY <1>3, <2>1, <2>3, <2>4 DEF ToldEnough
  <2>6. \E k \in (i + 1)..(j - 1) : arrivals[k].accepted
    BY <1>1, <1>3, <2>5 DEF RefusedAgainOnlyByRivals, ToldEnough
  <2> QED BY <2>3, <2>6
<1>4. CASE UNCHANGED arrivals
  <2>1. DOMAIN arrivals' = 1..n /\ \A i \in 1..n : arrivals'[i] = arrivals[i]
    BY <1>1, <1>4
  <2>2. \A i, j \in 1..n : i < j /\ ToldEnough(i, j)'
          => \E k \in (i + 1)..(j - 1) : arrivals'[k].accepted
    BY <1>3, <2>1
  <2> QED BY <2>1, <2>2 DEF RefusedAgainOnlyByRivals, ToldEnough
<1>5. ASSUME Len(arrivals') = n + 1, \A i \in 1..n : arrivals'[i] = arrivals[i],
             arrivals' \in Seq(Arrival),
             \/ arrivals'[n + 1].accepted
             \/ \A i \in 1..n :
                   /\ arrivals[i].run = arrivals'[n + 1].run
                   /\ ~arrivals[i].accepted /\ arrivals[i].try < MaxAttempts - 1
                   /\ \A k \in (i + 1)..n : arrivals[k].run # arrivals[i].run
                   /\ HintSuffices(i)
                   => \E k \in (i + 1)..n : arrivals[k].accepted
      PROVE  RefusedAgainOnlyByRivals'
  <2> SUFFICES ASSUME NEW i \in 1..(n + 1), NEW j \in 1..(n + 1), i < j, ToldEnough(i, j)'
               PROVE  \E k \in (i + 1)..(j - 1) : arrivals'[k].accepted
    <3>1. DOMAIN arrivals' = 1..(n + 1)
      BY <1>5
    <3> QED BY <3>1 DEF RefusedAgainOnlyByRivals, ToldEnough
  <2>1. i \in 1..n /\ (j \in 1..n \/ j = n + 1)
    OBVIOUS
  <2>2. CASE j \in 1..n
    BY <1>3, <1>5, <2>1, <2>2
  <2>3. CASE j = n + 1
    <3>1. j - 1 = n /\ arrivals'[i] = arrivals[i]
      BY <1>5, <2>1, <2>3
    <3>2. \A k \in (i + 1)..n : k \in 1..n /\ arrivals'[k] = arrivals[k]
      BY <1>5, <2>1
    <3>3. HintSuffices(i)
      BY <1>2, <1>5, <2>1 DEF ToldEnough
    <3>4. /\ arrivals[i].run = arrivals'[n + 1].run
          /\ ~arrivals[i].accepted /\ arrivals[i].try < MaxAttempts - 1
          /\ ~arrivals'[n + 1].accepted
          /\ \A k \in (i + 1)..n : arrivals[k].run # arrivals[i].run
      BY <2>3, <3>1, <3>2 DEF ToldEnough
    <3>5. \E k \in (i + 1)..n : arrivals[k].accepted
      BY <1>5, <2>1, <3>3, <3>4
    <3> QED BY <3>1, <3>2, <3>5
  <2> QED BY <2>1, <2>2, <2>3
<1>6. ASSUME NEW r \in Runs, phase[r] = "get", Arrives(r, TRUE, NoHint)
      PROVE  RefusedAgainOnlyByRivals'
  <2>1. /\ arrivals' \in Seq(Arrival) /\ Len(arrivals') = n + 1 /\ arrivals'[n + 1].accepted
        /\ \A i \in 1..n : arrivals'[i] = arrivals[i]
    BY <1>6, ArrivalTyped
  <2> QED BY <1>5, <2>1
<1>7. ASSUME NEW r \in Runs, NEW hint \in Hints \cup {NoHint}, Refused(r, hint)
      PROVE  RefusedAgainOnlyByRivals'
  <2>1. /\ phase[r] = "get" /\ Arrives(r, FALSE, hint) /\ FALSE \in BOOLEAN
        /\ hint \in Nat /\ \E w \in Windows : Limit(w)
    BY <1>7 DEF Refused
  <2>2. /\ arrivals' \in Seq(Arrival) /\ Len(arrivals') = n + 1 /\ arrivals'[n + 1].run = r
        /\ \A i \in 1..n : arrivals'[i] = arrivals[i]
    BY <2>1, ArrivalTyped
  <2>3. PICK w \in Windows : Limit(w)
    BY <2>1
  <2>4. ASSUME NEW i \in 1..n, arrivals[i].run = r, ~arrivals[i].accepted,
               arrivals[i].try < MaxAttempts - 1,
               \A k \in (i + 1)..n : arrivals[k].run # arrivals[i].run,
               HintSuffices(i), \A k \in (i + 1)..n : ~arrivals[k].accepted
        PROVE  FALSE
    <3>1. Pending(i)
      BY <2>4 DEF Pending, HintSuffices
    <3>2. ~Limit(w)
      BY <2>1, <2>4, <3>1, WaitingIsEnough
    <3> QED BY <2>3, <3>2
  <2> QED BY <1>5, <2>2, <2>4
<1>8. ASSUME NEW r \in Runs, Answered(r) \/ Fails(r)
      PROVE  RefusedAgainOnlyByRivals'
  <2>1. arrivals' = arrivals \/ (phase[r] = "get" /\ Arrives(r, TRUE, NoHint))
    BY <1>8 DEF Answered, Fails
  <2> QED BY <1>6, <1>4, <2>1
<1> QED BY <1>7, <1>8, <1>4 DEF Next, Tick, Begin, Acquire, WakesUp, Ends, vars

\* After a refusal whose hint names an instant within backoff_cap at which every
\* window has room, a retry is refused only if another request was accepted
\* meanwhile, whatever other failures come between
\* (client.py:447-449, min(error.retry_after, self._backoff_cap)).
THEOREM WaitingAsToldIsEnough == Spec => []RefusedAgainOnlyByRivals
<1>1. Init => RefusedAgainOnlyByRivals
  BY DEF Init, RefusedAgainOnlyByRivals
<1>2. IInv /\ RefusedAgainOnlyByRivals /\ [Next]_vars => RefusedAgainOnlyByRivals'
  BY RivalsStep
<1> QED BY <1>1, <1>2, Invariance, PTL DEF Spec

=============================================================================
