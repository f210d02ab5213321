------------------------- MODULE RateLimiterProofs -------------------------
(***************************************************************************)
(* Proofs about RateLimiter, for any set of threads and windows and any    *)
(* number of calls.                                                        *)
(***************************************************************************)
EXTENDS RateLimiter, FiniteSetTheorems, TLAPS

\* The time the next grant would carry: the holder's reading, or the clock.
Instant == IF lock = Nobody THEN clock ELSE now[lock]

HolderNotAhead == lock # Nobody => now[lock] <= clock

NothingFromTheFuture ==
    \A j \in 1..Len(granted) :
        granted[j] <= Instant /\ \A i \in 1..j : granted[i] <= granted[j]

\* Each log is what is left of the history after dropping a prefix ...
LogsAreSuffixes ==
    \A w \in Windows :
        /\ Len(logs[w]) <= Len(granted)
        /\ \A k \in 1..Len(logs[w]) :
            logs[w][k] = granted[Len(granted) - Len(logs[w]) + k]

\* ... of slots that left the window before any slot still to be granted.
DroppedAreOld ==
    \A w \in Windows : \A i \in 1..(Len(granted) - Len(logs[w])) :
        granted[i] + Seconds[w] <= Instant

IInv == /\ TypeOK
        /\ HolderNotAhead
        /\ NothingFromTheFuture
        /\ LogsAreSuffixes
        /\ DroppedAreOld
        /\ WindowBound

-----------------------------------------------------------------------------

USE WindowAssumption, BoundAssumption, NobodyAssumption

LEMMA InitIInv == Init => IInv
<1> SUFFICES ASSUME Init PROVE IInv
  OBVIOUS
<1> USE DEF Init
<1>1. TypeOK
  BY DEF TypeOK
<1>2. HolderNotAhead /\ NothingFromTheFuture /\ LogsAreSuffixes /\ DroppedAreOld /\ WindowBound
  BY DEF HolderNotAhead, NothingFromTheFuture, LogsAreSuffixes, DroppedAreOld, WindowBound
<1> QED
  BY <1>1, <1>2 DEF IInv

LEMMA NextTypeOK == TypeOK /\ [Next]_vars => TypeOK'
<1> SUFFICES ASSUME TypeOK, [Next]_vars PROVE TypeOK'
  OBVIOUS
<1> USE DEF TypeOK
<1>1. CASE Tick
  BY <1>1 DEF Tick
<1>2. ASSUME NEW t \in Threads, Call(t) PROVE TypeOK'
  BY <1>2 DEF Call, Fresh
<1>3. ASSUME NEW t \in Threads, Lock(t) PROVE TypeOK'
  BY <1>3 DEF Lock
<1>4. ASSUME NEW t \in Threads, NEW w \in Windows, PopLeft(t, w) PROVE TypeOK'
  <2>1. logs[w] \in Seq(Nat) /\ logs[w] # <<>>
    BY <1>4 DEF PopLeft, Expired
  <2>2. Tail(logs[w]) \in Seq(Nat)
    BY <2>1
  <2> QED
    BY <1>4, <2>2 DEF PopLeft
<1>5. ASSUME NEW t \in Threads, Grant(t) PROVE TypeOK'
  BY <1>5 DEF Grant
<1>6. ASSUME NEW t \in Threads, Sleep(t) PROVE TypeOK'
  <2>1. PICK wait \in Waits(t) :
          wait > 0 /\ wakeAt' = [wakeAt EXCEPT ![t] = clock + wait]
    BY <1>6 DEF Sleep
  <2>2. PICK w \in Windows : Full(w) /\ wait = Head(logs[w]) + Seconds[w] - now[t]
    BY <2>1 DEF Waits
  <2>3. Head(logs[w]) \in Nat
    BY SMTT(40), <2>2 DEF Full
  <2>4. Seconds[w] \in Nat /\ now[t] \in Nat
    OBVIOUS
  <2>5. wait \in Int
    BY <2>2, <2>3, <2>4
  <2>6. wait \in Nat
    BY <2>1, <2>5
  <2> QED
    BY SMTT(40), <1>6, <2>1, <2>6 DEF Sleep
<1>7. ASSUME NEW t \in Threads, Wake(t) PROVE TypeOK'
  BY <1>7 DEF Wake
<1>8. CASE UNCHANGED vars
  BY <1>8 DEF vars
<1> QED
  BY <1>1, <1>2, <1>3, <1>4, <1>5, <1>6, <1>7, <1>8 DEF Next, Acquire

\* The limiter's variables always have their types, and the lock its holder.
THEOREM TypeCorrect == Spec => []TypeOK
<1>1. Init => TypeOK
  BY InitIInv DEF IInv
<1> QED
  BY <1>1, NextTypeOK, PTL DEF Spec

\* A step that grants nothing and drops nothing keeps the invariant as long as
\* the next grant cannot carry an earlier time than before.
LEMMA QuietStep ==
  ASSUME IInv, TypeOK', HolderNotAhead', UNCHANGED <<logs, granted>>, Instant <= Instant'
  PROVE  IInv'
<1> USE DEF IInv
<1>1. Instant \in Nat /\ Instant' \in Nat
  BY DEF TypeOK, Instant
<1>2. granted \in Seq(Nat) /\ logs \in [Windows -> Seq(Nat)]
  BY DEF TypeOK
<1>3. NothingFromTheFuture'
  BY <1>1, <1>2 DEF NothingFromTheFuture
<1>4. LogsAreSuffixes'
  BY DEF LogsAreSuffixes
<1>5. DroppedAreOld'
  <2> SUFFICES ASSUME NEW w \in Windows, NEW i \in 1..(Len(granted) - Len(logs[w]))
               PROVE  granted[i] + Seconds[w] <= Instant'
    BY DEF DroppedAreOld
  <2>1. granted[i] + Seconds[w] <= Instant
    BY DEF DroppedAreOld
  <2>2. i \in 1..Len(granted)
    BY <1>2
  <2>3. granted[i] \in Nat /\ Seconds[w] \in Nat
    BY <1>2, <2>2
  <2> QED
    BY <1>1, <2>1, <2>3
<1>6. WindowBound'
  BY DEF WindowBound
<1> QED
  BY <1>3, <1>4, <1>5, <1>6

\* Popping an expired head moves one slot from the log to the dropped prefix.
LEMMA PopLeftStep ==
  ASSUME IInv, TypeOK', NEW t \in Threads, NEW v \in Windows, PopLeft(t, v)
  PROVE  IInv'
<1> USE DEF IInv
<1> DEFINE n == Len(granted)
           m == Len(logs[v])
<1>1. /\ clock' = clock /\ lock' = lock /\ now' = now /\ granted' = granted
      /\ logs[v] # <<>>
      /\ Head(logs[v]) <= now[t] - Seconds[v]
      /\ logs' = [logs EXCEPT ![v] = Tail(@)]
      /\ lock = t
  BY DEF PopLeft, Expired, TypeOK
<1>2. /\ granted \in Seq(Nat) /\ logs \in [Windows -> Seq(Nat)]
      /\ now[t] \in Nat /\ Seconds[v] \in Nat
  BY DEF TypeOK
<1>3. n \in Nat /\ m \in Nat /\ m > 0 /\ m <= n
  BY <1>1, <1>2 DEF LogsAreSuffixes
<1>4. /\ Len(logs'[v]) = m - 1
      /\ \A k \in 1..(m - 1) : logs'[v][k] = logs[v][k + 1]
  BY <1>1, <1>2, <1>3
<1>5. \A w \in Windows : w # v => logs'[w] = logs[w]
  BY <1>1, <1>2
<1>6. Instant = now[t] /\ Instant' = Instant
  BY <1>1, NobodyAssumption DEF Instant
<1>7. HolderNotAhead'
  BY <1>1 DEF HolderNotAhead
<1>8. NothingFromTheFuture' /\ WindowBound'
  BY <1>1, <1>6 DEF NothingFromTheFuture, WindowBound
<1>9. LogsAreSuffixes'
  <2>1. ASSUME NEW k \in 1..(m - 1)
        PROVE  logs'[v][k] = granted[n - Len(logs'[v]) + k]
    <3>1. k + 1 \in 1..m
      BY <1>3
    <3>2. logs[v][k + 1] = granted[n - m + (k + 1)]
      BY <3>1 DEF LogsAreSuffixes
    <3>3. n - m + (k + 1) = n - Len(logs'[v]) + k
      BY <1>3, <1>4
    <3> QED
      BY <1>4, <3>2, <3>3
  <2>2. Len(logs'[v]) <= n
    BY <1>3, <1>4
  <2>3. ASSUME NEW w \in Windows
        PROVE  /\ Len(logs'[w]) <= Len(granted')
               /\ \A k \in 1..Len(logs'[w]) :
                    logs'[w][k] = granted'[Len(granted') - Len(logs'[w]) + k]
    <3>1. CASE w = v
      BY <1>1, <1>4, <2>1, <2>2, <3>1
    <3>2. CASE w # v
      <4>1. logs'[w] = logs[w]
        BY <1>5, <3>2
      <4>2. /\ Len(logs[w]) <= Len(granted)
            /\ \A k \in 1..Len(logs[w]) :
                  logs[w][k] = granted[Len(granted) - Len(logs[w]) + k]
        BY DEF LogsAreSuffixes
      <4>3. granted' = granted
        BY <1>1
      <4> QED
        BY <4>1, <4>2, <4>3
    <3> QED
      BY <3>1, <3>2
  <2> QED
    BY <2>3 DEF LogsAreSuffixes
<1>10. DroppedAreOld'
  <2> SUFFICES ASSUME NEW w \in Windows, NEW i \in 1..(n - Len(logs'[w]))
               PROVE  granted[i] + Seconds[w] <= Instant
    BY <1>1, <1>6 DEF DroppedAreOld
  <2>1. CASE w # v
    BY <1>5, <2>1 DEF DroppedAreOld
  <2>2. CASE w = v
    <3> HIDE DEF n, m
    <3>1. i \in 1..(n - m) \/ i = n - m + 1
      <4>1. i \in 1..(n - (m - 1))
        BY <1>4, <2>2
      <4> QED
        BY <1>3, <4>1
    <3> USE DEF n, m
    <3>2. CASE i \in 1..(n - m)
      BY <2>2, <3>2 DEF DroppedAreOld
    <3>3. CASE i = n - m + 1
      <4>1. 1 \in 1..m
        BY <1>3
      <4>2. logs[v][1] = granted[i]
        BY <3>3, <4>1 DEF LogsAreSuffixes
      <4>3. Head(logs[v]) = granted[i]
        BY <1>1, <1>2, <4>2
      <4>4. i \in 1..n
        BY <1>3, <3>3
      <4>5. granted[i] \in Nat
        BY SMTT(40), <1>2, <4>4
      <4>6. granted[i] + Seconds[v] <= now[t]
        <5>1. granted[i] <= now[t] - Seconds[v]
          BY <1>1, <4>3
        <5> QED
          BY <1>2, <4>5, <5>1
      <4> QED
        BY <1>6, <2>2, <4>6
    <3> QED
      BY <3>1, <3>2, <3>3
  <2> QED
    BY <2>1, <2>2
<1> QED
  BY <1>7, <1>8, <1>9, <1>10

\* A grant finds no window full, so the slot max_requests earlier has been
\* dropped from the log, and a dropped slot is at least one span old.
LEMMA GrantStep ==
  ASSUME IInv, TypeOK', NEW t \in Threads, Grant(t)
  PROVE  IInv'
<1> USE DEF IInv
<1> DEFINE n == Len(granted)
<1>1. /\ clock' = clock
      /\ lock = t /\ lock' = Nobody
      /\ granted' = Append(granted, now[t])
      /\ logs' = [w \in Windows |-> Append(logs[w], now[t])]
  BY DEF Grant, TypeOK
<1>2. /\ granted \in Seq(Nat) /\ logs \in [Windows -> Seq(Nat)]
      /\ now[t] \in Nat /\ clock \in Nat
  BY DEF TypeOK
<1>3. Instant = now[t] /\ Instant' = clock /\ now[t] <= clock
  BY <1>1, NobodyAssumption DEF Instant, HolderNotAhead
<1>4. /\ n \in Nat
      /\ Len(granted') = n + 1
      /\ granted'[n + 1] = now[t]
      /\ \A i \in 1..n : granted'[i] = granted[i] /\ granted[i] \in Nat
  BY <1>1, <1>2
<1>5. HolderNotAhead'
  BY <1>1 DEF HolderNotAhead
<1>6. NothingFromTheFuture'
  <2> SUFFICES ASSUME NEW j \in 1..(n + 1)
               PROVE  /\ granted'[j] <= clock
                      /\ \A i \in 1..j : granted'[i] <= granted'[j]
    BY <1>3, <1>4 DEF NothingFromTheFuture
  <2>1. \A i \in 1..n : granted'[i] = granted[i] /\ granted[i] <= now[t]
    BY <1>3, <1>4 DEF NothingFromTheFuture
  <2>2. CASE j = n + 1
    <3>1. ASSUME NEW i \in 1..j PROVE granted'[i] <= now[t]
      <4>1. i = n + 1 \/ i \in 1..n
        BY <1>4, <2>2
      <4> QED
        BY <1>2, <1>4, <2>1, <4>1
    <3> QED
      BY <1>2, <1>3, <1>4, <2>2, <3>1
  <2>3. CASE j \in 1..n
    <3>1. ASSUME NEW i \in 1..j PROVE granted'[i] <= granted'[j]
      <4>1. i \in 1..n
        BY <1>4, <2>3
      <4>2. granted[i] <= granted[j]
        BY <2>3 DEF NothingFromTheFuture
      <4> QED
        BY <2>1, <2>3, <4>1, <4>2
    <3>2. granted'[j] <= clock
      <4>1. granted'[j] = granted[j] /\ granted[j] <= now[t] /\ granted[j] \in Nat
        BY <1>4, <2>1, <2>3
      <4> QED
        BY <1>2, <1>3, <4>1
    <3> QED
      BY <3>1, <3>2
  <2> QED
    BY <1>4, <2>2, <2>3
<1>7. ASSUME NEW w \in Windows
      PROVE  /\ Len(logs[w]) \in Nat
             /\ Len(logs[w]) <= n
             /\ Len(logs'[w]) = Len(logs[w]) + 1
             /\ logs'[w][Len(logs[w]) + 1] = now[t]
             /\ \A k \in 1..Len(logs[w]) : logs'[w][k] = logs[w][k]
  BY <1>1, <1>2 DEF LogsAreSuffixes
<1>8. LogsAreSuffixes'
  <2>1. ASSUME NEW w \in Windows, NEW k \in 1..Len(logs'[w])
        PROVE  logs'[w][k] = granted'[Len(granted') - Len(logs'[w]) + k]
    <3> DEFINE m == Len(logs[w])
    <3>1. m \in Nat /\ m <= n /\ Len(logs'[w]) = m + 1
      BY <1>7
    <3>2. Len(granted') - Len(logs'[w]) + k = n - m + k
      BY <1>4, <3>1
    <3>3. CASE k = m + 1
      <4>1. logs'[w][k] = now[t]
        BY <1>7, <3>3
      <4>2. n - m + k = n + 1
        <5> HIDE DEF n, m
        <5> QED
          BY <1>4, <3>1, <3>3
      <4> QED
        BY <1>4, <3>2, <4>1, <4>2
    <3>4. CASE k \in 1..m
      <4>1. logs'[w][k] = logs[w][k]
        BY <1>7, <3>4
      <4>2. logs[w][k] = granted[n - m + k]
        BY <3>4 DEF LogsAreSuffixes
      <4>3. n - m + k \in 1..n
        BY <1>4, <3>1, <3>4
      <4>4. granted'[n - m + k] = granted[n - m + k]
        BY <1>4, <4>3
      <4> QED
        BY <3>2, <4>1, <4>2, <4>4
    <3>5. k = m + 1 \/ k \in 1..m
      <4> HIDE DEF m
      <4> QED
        BY <3>1
    <3> QED
      BY <3>3, <3>4, <3>5
  <2>2. ASSUME NEW w \in Windows PROVE Len(logs'[w]) <= Len(granted')
    BY <1>4, <1>7
  <2> QED
    BY <2>1, <2>2 DEF LogsAreSuffixes
<1>9. DroppedAreOld'
  <2> SUFFICES ASSUME NEW w \in Windows, NEW i \in 1..(Len(granted') - Len(logs'[w]))
               PROVE  granted'[i] + Seconds[w] <= clock
    BY <1>3 DEF DroppedAreOld
  <2>1. i \in 1..(n - Len(logs[w])) /\ i \in 1..n
    BY SMTT(40), <1>4, <1>7
  <2>2. granted[i] + Seconds[w] <= now[t]
    BY <1>3, <2>1 DEF DroppedAreOld
  <2>3. granted'[i] = granted[i] /\ granted[i] \in Nat /\ Seconds[w] \in Nat
    BY <1>4, <2>1
  <2> QED
    BY <1>2, <1>3, <2>2, <2>3
<1>10. ASSUME NEW w \in Windows PROVE Len(logs[w]) < MaxRequests[w]
  <2>1. CASE Full(w)
    <3>1. Len(logs[w]) > 0 /\ logs[w] \in Seq(Nat)
      BY <1>2, <2>1 DEF Full
    <3>2. Head(logs[w]) \in Nat /\ logs[w] # <<>>
      BY <3>1
    <3>3. Head(logs[w]) + Seconds[w] - now[t] \in Waits(t)
      BY <2>1 DEF Waits
    <3>4. Head(logs[w]) + Seconds[w] - now[t] <= 0
      BY <3>3 DEF Grant
    <3>5. ~(Head(logs[w]) <= now[t] - Seconds[w])
      BY <3>2 DEF Grant, Pruned, Expired
    <3>6. Seconds[w] \in Nat
      OBVIOUS
    <3> QED
      BY <1>2, <3>2, <3>4, <3>5, <3>6
  <2>2. CASE ~Full(w)
    BY <1>7, <2>2 DEF Full
  <2> QED
    BY <2>1, <2>2
<1>11. WindowBound'
  <2> SUFFICES ASSUME NEW w \in Windows, NEW i \in 1..(n + 1), NEW j \in 1..(n + 1),
                      j = i + MaxRequests[w]
               PROVE  granted'[i] + Seconds[w] <= granted'[j]
    BY <1>4 DEF WindowBound
  <2>1. MaxRequests[w] \in Nat /\ MaxRequests[w] > 0
    OBVIOUS
  <2>2. i \in 1..n
    BY <1>4, <2>1
  <2>3. CASE j = n + 1
    <3>1. i \in 1..(n - Len(logs[w]))
      BY <1>4, <1>7, <1>10, <2>1, <2>2, <2>3
    <3>2. granted[i] + Seconds[w] <= now[t]
      BY <1>3, <3>1 DEF DroppedAreOld
    <3> QED
      BY <1>4, <2>2, <2>3, <3>2
  <2>4. CASE j \in 1..n
    BY <1>4, <2>2, <2>4 DEF WindowBound
  <2> QED
    BY <1>4, <2>3, <2>4
<1> QED
  BY <1>5, <1>6, <1>8, <1>9, <1>11

LEMMA NextIInv == IInv /\ [Next]_vars => IInv'
<1> SUFFICES ASSUME IInv, [Next]_vars PROVE IInv'
  OBVIOUS
<1>1. TypeOK /\ TypeOK'
  BY NextTypeOK DEF IInv
<1>2. /\ clock \in Nat /\ now \in [Threads -> Nat]
      /\ HolderNotAhead
  BY <1>1 DEF TypeOK, IInv
<1>3. CASE Tick
  <2>1. HolderNotAhead' /\ Instant <= Instant' /\ UNCHANGED <<logs, granted>>
    BY <1>1, <1>2, <1>3 DEF Tick, HolderNotAhead, Instant, TypeOK
  <2> QED
    BY <1>1, <2>1, QuietStep
<1>4. ASSUME NEW t \in Threads, Call(t) \/ Wake(t) PROVE IInv'
  <2>1. HolderNotAhead' /\ Instant <= Instant' /\ UNCHANGED <<logs, granted>>
    BY <1>1, <1>2, <1>4 DEF Call, Wake, HolderNotAhead, Instant, TypeOK
  <2> QED
    BY <1>1, <2>1, QuietStep
<1>5. ASSUME NEW t \in Threads, Lock(t) PROVE IInv'
  <2>1. HolderNotAhead' /\ Instant <= Instant' /\ UNCHANGED <<logs, granted>>
    BY <1>1, <1>2, <1>5, NobodyAssumption DEF Lock, HolderNotAhead, Instant, TypeOK
  <2> QED
    BY <1>1, <2>1, QuietStep
<1>6. ASSUME NEW t \in Threads, Sleep(t) PROVE IInv'
  <2>1. lock = t
    BY <1>1, <1>6 DEF Sleep, TypeOK
  <2>2. HolderNotAhead' /\ Instant <= Instant' /\ UNCHANGED <<logs, granted>>
    BY <1>1, <1>2, <1>6, <2>1, NobodyAssumption DEF Sleep, HolderNotAhead, Instant, TypeOK
  <2> QED
    BY <1>1, <2>2, QuietStep
<1>7. ASSUME NEW t \in Threads, NEW w \in Windows, PopLeft(t, w) PROVE IInv'
  BY <1>1, <1>7, PopLeftStep
<1>8. ASSUME NEW t \in Threads, Grant(t) PROVE IInv'
  BY <1>1, <1>8, GrantStep
<1>9. CASE UNCHANGED vars
  <2>1. HolderNotAhead' /\ Instant <= Instant' /\ UNCHANGED <<logs, granted>>
    BY <1>1, <1>2, <1>9 DEF vars, HolderNotAhead, Instant, TypeOK
  <2> QED
    BY <1>1, <2>1, QuietStep
<1> QED
  BY <1>3, <1>4, <1>5, <1>6, <1>7, <1>8, <1>9 DEF Next, Acquire

LEMMA Invariance == Spec => []IInv
  BY InitIInv, NextIInv, PTL DEF Spec

\* Whatever the interleaving, no window ever grants more than max_requests
\* slots within its span.
THEOREM WindowNeverExceeded == Spec => []WindowBound
<1>1. IInv => WindowBound
  BY DEF IInv
<1> QED
  BY <1>1, Invariance, PTL

\* Slots are granted in time order and never ahead of the clock.
THEOREM GrantedInTimeOrder == Spec => []GrantsInOrder
<1>1. IInv => GrantsInOrder
  <2> SUFFICES ASSUME IInv PROVE GrantsInOrder
    OBVIOUS
  <2>1. Instant <= clock /\ Instant \in Nat /\ clock \in Nat
    BY DEF IInv, TypeOK, Instant, HolderNotAhead
  <2>2. \A j \in 1..Len(granted) : granted[j] \in Nat
    BY DEF IInv, TypeOK
  <2> QED
    BY <2>1, <2>2 DEF IInv, NothingFromTheFuture, GrantsInOrder
<1> QED
  BY <1>1, Invariance, PTL

\* A grant step is a grant of the promise: the slot is not ahead of the clock,
\* not before the latest one, and the slot max_requests back is a span older.
LEMMA GrantKeepsPromise ==
  ASSUME IInv, IInv', NEW t \in Threads, Grant(t)
  PROVE  Promise!Grant(now[t]) /\ now[t] \in 0..clock
<1> DEFINE n == Len(granted)
<1>1. /\ clock' = clock /\ lock = t
      /\ granted' = Append(granted, now[t])
  BY DEF Grant, IInv, TypeOK
<1>2. /\ granted \in Seq(Nat) /\ now[t] \in Nat /\ clock \in Nat /\ n \in Nat
      /\ now[t] <= clock
  BY <1>1, NobodyAssumption DEF IInv, TypeOK, HolderNotAhead
<1>3. Promise!InOrder(now[t])
  BY <1>1, <1>2, NobodyAssumption DEF Promise!InOrder, IInv, NothingFromTheFuture, Instant
<1>4. Promise!Room(now[t])
  <2> SUFFICES ASSUME NEW w \in Windows, n >= MaxRequests[w]
               PROVE  granted[n - MaxRequests[w] + 1] + Seconds[w] <= now[t]
    BY DEF Promise!Room
  <2>1. MaxRequests[w] \in Nat /\ MaxRequests[w] > 0
    OBVIOUS
  <2> DEFINE i == n - MaxRequests[w] + 1
  <2>2. i \in 1..n /\ i \in 1..(n + 1) /\ n + 1 = i + MaxRequests[w]
    <3> HIDE DEF n
    <3> QED
      BY <1>2, <2>1
  <2>3. Len(granted') = n + 1 /\ granted'[i] = granted[i] /\ granted'[n + 1] = now[t]
    BY <1>1, <1>2, <2>2
  <2>4. WindowBound'
    BY DEF IInv
  <2>5. granted'[i] + Seconds[w] <= granted'[n + 1]
    <3> HIDE DEF n, i
    <3>1. i \in 1..Len(granted') /\ n + 1 \in 1..Len(granted')
      BY <1>2, <2>2, <2>3
    <3> QED
      BY <2>2, <2>4, <3>1 DEF WindowBound
  <2> QED
    BY <2>3, <2>5
<1> QED
  BY <1>1, <1>2, <1>3, <1>4 DEF Promise!Grant

\* Every step of the limiter is a tick, a grant of the promise or a stutter.
LEMMA StepKeepsPromise ==
  IInv /\ IInv' /\ [Next]_vars => [Promise!Next]_<<clock, granted>>
<1> SUFFICES ASSUME IInv, IInv', [Next]_vars
             PROVE  [Promise!Next]_<<clock, granted>>
  OBVIOUS
<1>1. CASE Tick
  BY <1>1 DEF Tick, Promise!Tick, Promise!Next
<1>2. ASSUME NEW t \in Threads, Grant(t) PROVE Promise!Next
  BY <1>2, GrantKeepsPromise DEF Promise!Next
<1>3. ASSUME NEW t \in Threads,
             Call(t) \/ Lock(t) \/ Sleep(t) \/ Wake(t) \/ \E w \in Windows : PopLeft(t, w)
      PROVE  UNCHANGED <<clock, granted>>
  BY <1>3 DEF Call, Lock, Sleep, Wake, PopLeft
<1>4. CASE UNCHANGED vars
  BY <1>4 DEF vars
<1> QED
  BY <1>1, <1>2, <1>3, <1>4 DEF Next, Acquire

\* The limiter implements the promise its callers rely on.
THEOREM LimiterImplementsPacing == Spec => ImplementsPacing
<1>1. Init => Promise!Init
  BY DEF Init, Promise!Init
<1>2. IInv /\ [Next]_vars => IInv'
  BY NextIInv
<1> QED
  BY <1>1, <1>2, Invariance, StepKeepsPromise, PTL DEF Spec, ImplementsPacing, Promise!Spec

\* Once the expired heads are popped, everything left in a log is recent.
LEMMA PrunedLogIsRecent ==
  ASSUME IInv, NEW t \in Threads, pc[t] = "locked", Pruned(t), NEW w \in Windows
  PROVE  Cardinality(Recent(t, w)) >= Len(logs[w])
<1> DEFINE n == Len(granted)
           m == Len(logs[w])
           Kept == (n - m + 1)..n
<1>1. /\ granted \in Seq(Nat) /\ logs[w] \in Seq(Nat)
      /\ now[t] \in Nat /\ Seconds[w] \in Nat
  BY DEF IInv, TypeOK
<1>2. n \in Nat /\ m \in Nat /\ m <= n
  <2>1. n \in Nat /\ m \in Nat
    BY <1>1
  <2>2. m <= n
    BY DEF IInv, LogsAreSuffixes
  <2> QED
    BY <2>1, <2>2
<1>3. Kept \subseteq Recent(t, w)
  <2> SUFFICES ASSUME NEW i \in Kept PROVE i \in Recent(t, w)
    OBVIOUS
  <2>1. i \in 1..n /\ n - m + 1 \in 1..i /\ 1 \in 1..m
    <3> HIDE DEF n, m
    <3> QED
      BY <1>2
  <2>2. granted[i] \in Nat /\ granted[n - m + 1] \in Nat
    <3>1. n - m + 1 \in 1..n
      <4> HIDE DEF n, m
      <4> QED
        BY <1>2, <2>1
    <3>2. \A k \in 1..n : granted[k] \in Nat
      BY <1>1
    <3> HIDE DEF n, m
    <3> QED
      BY <2>1, <3>1, <3>2
  <2>3. granted[n - m + 1] <= granted[i]
    BY <2>1 DEF IInv, NothingFromTheFuture
  <2>4. Head(logs[w]) = granted[n - m + 1] /\ logs[w] # <<>>
    <3>1. logs[w][1] = granted[n - m + 1]
      BY <2>1 DEF IInv, LogsAreSuffixes
    <3>2. logs[w] # <<>>
      BY <1>1, <2>1
    <3>3. Head(logs[w]) = logs[w][1]
      BY <1>1, <3>2
    <3> QED
      BY <3>1, <3>2, <3>3
  <2>5. ~(granted[n - m + 1] <= now[t] - Seconds[w])
    BY <2>4 DEF Pruned, Expired
  <2>6. granted[i] > now[t] - Seconds[w]
    <3> HIDE DEF n, m
    <3> DEFINE g == granted[i]
               h == granted[n - m + 1]
    <3>1. g \in Nat /\ h \in Nat /\ h <= g /\ ~(h <= now[t] - Seconds[w])
      BY <2>2, <2>3, <2>5
    <3> HIDE DEF g, h
    <3>2. g > now[t] - Seconds[w]
      BY <1>1, <3>1
    <3> QED
      BY <3>2 DEF g
  <2> QED
    BY <2>1, <2>6 DEF Recent
<1>4. Cardinality(Kept) = m
  <2> HIDE DEF n, m
  <2>1. n - m + 1 \in Int /\ n \in Int
    BY <1>2
  <2>2. Cardinality(Kept) = IF n - m + 1 > n THEN 0 ELSE n - (n - m + 1) + 1
    BY <2>1, FS_Interval
  <2> QED
    BY <1>2, <2>2
<1>5. IsFiniteSet(Recent(t, w))
  <2>1. IsFiniteSet(1..n)
    BY <1>2, FS_Interval
  <2>2. Recent(t, w) \in SUBSET (1..n)
    BY DEF Recent
  <2> QED
    BY <2>1, <2>2, FS_Subset
<1>6. Cardinality(Kept) <= Cardinality(Recent(t, w))
  BY <1>3, <1>5, FS_Subset
<1>7. Cardinality(Recent(t, w)) \in Nat
  BY <1>5, FS_CardinalityType
<1> HIDE DEF Kept
<1> QED
  BY <1>2, <1>4, <1>6, <1>7

\* A thread sleeps only when some window holds max_requests slots.
THEOREM PacesOnlyWhenFull == Spec => SleepsOnlyWhenFull
<1>1. ASSUME IInv, NEW t \in Threads, Sleep(t)
      PROVE  \E w \in Windows : Cardinality(Recent(t, w)) >= MaxRequests[w]
  <2>1. PICK w \in Windows : Full(w)
    BY <1>1 DEF Sleep, Waits
  <2>2. Cardinality(Recent(t, w)) >= Len(logs[w])
    BY <1>1, PrunedLogIsRecent DEF Sleep
  <2>3. Len(logs[w]) >= MaxRequests[w]
    BY <2>1 DEF Full
  <2>4. Len(logs[w]) \in Nat /\ MaxRequests[w] \in Nat
    BY <1>1 DEF IInv, TypeOK
  <2>5. Cardinality(Recent(t, w)) \in Nat
    <3>1. Len(granted) \in Nat
      BY <1>1 DEF IInv, TypeOK
    <3>2. IsFiniteSet(1..Len(granted))
      BY <3>1, FS_Interval
    <3>3. Recent(t, w) \in SUBSET (1..Len(granted))
      BY DEF Recent
    <3> QED
      BY <3>2, <3>3, FS_Subset, FS_CardinalityType
  <2> QED
    BY <2>2, <2>3, <2>4, <2>5
<1>2. IInv /\ [Next]_vars =>
        [\A t \in Threads : Sleep(t) =>
            \E w \in Windows : Cardinality(Recent(t, w)) >= MaxRequests[w]]_vars
  BY <1>1
<1> QED
  BY <1>2, Invariance, PTL DEF Spec, SleepsOnlyWhenFull
-----------------------------------------------------------------------------
(* One sleep is enough *)

\* No log is longer than its window is wide.
LogsAreShort == \A w \in Windows : Len(logs[w]) <= MaxRequests[w]

\* As long as no slot has been granted since a thread went to sleep, the heads
\* of the full logs leave their windows before it looks at them again.
SleptEnough ==
    \A t \in Threads :
        /\ mark[t] <= Len(granted)
        /\ mark[t] = Len(granted) /\ pc[t] # "idle" =>
              /\ \A w \in Windows : Full(w) => Head(logs[w]) + Seconds[w] <= wakeAt[t]
              /\ pc[t] = "waiting" => wakeAt[t] <= clock
              /\ pc[t] = "locked" => wakeAt[t] <= now[t]

SleepInv == IInv /\ LogsAreShort /\ SleptEnough

LEMMA LogTypes ==
    ASSUME TypeOK, NEW w \in Windows
    PROVE  /\ logs[w] \in Seq(Nat) /\ Len(logs[w]) \in Nat
           /\ MaxRequests[w] \in Nat \ {0} /\ Seconds[w] \in Nat
           /\ Len(logs[w]) # 0 => Head(logs[w]) \in Nat
<1>1. logs[w] \in Seq(Nat) /\ MaxRequests[w] \in Nat \ {0} /\ Seconds[w] \in Nat
  BY DEF TypeOK
<1>2. Len(logs[w]) \in Nat /\ (Len(logs[w]) # 0 => Head(logs[w]) \in Nat)
  BY <1>1
<1> QED
  BY <1>1, <1>2

LEMMA ThreadTypes ==
    ASSUME TypeOK, NEW t \in Threads
    PROVE  /\ mark[t] \in Int /\ Len(granted) \in Nat
           /\ wakeAt[t] \in Nat /\ now[t] \in Nat /\ clock \in Nat
  BY DEF TypeOK, Fresh

\* A pruned window that is full asks for a positive wait, so a slot is only
\* granted into windows with room.
LEMMA GrantFindsRoom ==
    ASSUME TypeOK, NEW t \in Threads, Grant(t), NEW w \in Windows
    PROVE  ~Full(w)
<1> SUFFICES ASSUME Full(w) PROVE FALSE
  OBVIOUS
<1>1. PICK n \in Nat, h \in Nat, s \in Nat, x \in Nat :
        /\ n = Len(logs[w]) /\ s = Seconds[w] /\ x = now[t]
        /\ n # 0 /\ h = Head(logs[w])
  <2>1. Len(logs[w]) # 0
    BY LogTypes DEF Full
  <2> QED
    BY <2>1, LogTypes, ThreadTypes
<1>2. ~(h <= x - s)
  <2>1. logs[w] # <<>>
    BY <1>1
  <2> QED
    BY <1>1, <2>1 DEF Grant, Pruned, Expired
<1>3. h + s - x <= 0
  BY <1>1 DEF Grant, Waits
<1> QED
  BY <1>2, <1>3

\* Steps that neither grant nor touch the logs.
LEMMA SleptStep ==
    ASSUME SleptEnough, UNCHANGED <<logs, granted>>,
           \A t \in Threads :
              \/ mark'[t] = Fresh
              \/ /\ mark'[t] = mark[t] /\ wakeAt'[t] = wakeAt[t]
                 /\ pc'[t] # "idle" => pc[t] # "idle"
                 /\ pc'[t] = "waiting" => wakeAt[t] <= clock'
                                          \/ mark[t] # Len(granted)
                 /\ pc'[t] = "locked" => wakeAt[t] <= now'[t]
                                         \/ mark[t] # Len(granted),
           Len(granted) \in Nat
    PROVE  SleptEnough'
<1> SUFFICES ASSUME NEW t \in Threads
             PROVE  /\ mark'[t] <= Len(granted)
                    /\ mark'[t] = Len(granted) /\ pc'[t] # "idle" =>
                          /\ \A w \in Windows : Full(w) => Head(logs[w]) + Seconds[w] <= wakeAt'[t]
                          /\ pc'[t] = "waiting" => wakeAt'[t] <= clock'
                          /\ pc'[t] = "locked" => wakeAt'[t] <= now'[t]
  BY DEF SleptEnough, Full
<1>1. CASE mark'[t] = Fresh
  BY <1>1 DEF Fresh
<1>2. CASE mark'[t] = mark[t]
  <2>1. CASE mark'[t] # Fresh
    BY <1>2, <2>1 DEF SleptEnough
  <2> QED
    BY <1>1, <2>1
<1> QED
  BY <1>1, <1>2
LEMMA SleepInvStep == SleepInv /\ [Next]_vars => SleepInv'
<1> SUFFICES ASSUME SleepInv, [Next]_vars PROVE SleepInv'
  OBVIOUS
<1>1. IInv /\ TypeOK /\ LogsAreShort /\ SleptEnough /\ HolderNotAhead
  BY DEF SleepInv, IInv
<1>2. IInv'
  BY <1>1, NextIInv
<1>3. Len(granted) \in Nat /\ clock \in Nat
  BY <1>1 DEF TypeOK
<1>4. CASE Tick
  <2>1. \A t \in Threads : /\ mark[t] = Len(granted) /\ pc[t] = "waiting" => wakeAt[t] <= clock
                           /\ mark[t] = Len(granted) /\ pc[t] = "locked" => wakeAt[t] <= now[t]
    BY <1>1 DEF SleptEnough
  <2>2. \A t \in Threads : mark[t] = Len(granted) /\ pc[t] = "waiting" => wakeAt[t] <= clock + 1
    BY <1>1, <1>3, <2>1, ThreadTypes
  <2>3. SleptEnough'
    BY <1>1, <1>3, <1>4, <2>1, <2>2, SleptStep DEF Tick
  <2> QED
    BY <1>1, <1>2, <1>4, <2>3 DEF SleepInv, LogsAreShort, Tick
<1>5. ASSUME NEW u \in Threads, Call(u)
      PROVE  SleepInv'
  <2>1. \A t \in Threads : /\ mark[t] = Len(granted) /\ pc[t] = "waiting" => wakeAt[t] <= clock
                           /\ mark[t] = Len(granted) /\ pc[t] = "locked" => wakeAt[t] <= now[t]
    BY <1>1 DEF SleptEnough
  <2>2. mark'[u] = Fresh /\ \A t \in Threads : t # u => mark'[t] = mark[t] /\ pc'[t] = pc[t]
    BY <1>1, <1>5 DEF Call, TypeOK
  <2>3. SleptEnough'
    BY <1>1, <1>3, <1>5, <2>1, <2>2, SleptStep DEF Call
  <2> QED
    BY <1>1, <1>2, <1>5, <2>3 DEF SleepInv, LogsAreShort, Call
<1>6. ASSUME NEW u \in Threads, Lock(u)
      PROVE  SleepInv'
  <2>1. \A t \in Threads : /\ mark[t] = Len(granted) /\ pc[t] = "waiting" => wakeAt[t] <= clock
                           /\ mark[t] = Len(granted) /\ pc[t] = "locked" => wakeAt[t] <= now[t]
    BY <1>1 DEF SleptEnough
  <2>2. /\ pc[u] = "waiting" /\ now'[u] = clock /\ pc'[u] = "locked"
        /\ \A t \in Threads : t # u => now'[t] = now[t] /\ pc'[t] = pc[t]
    BY <1>1, <1>6 DEF Lock, TypeOK
  <2>3. SleptEnough'
    BY <1>1, <1>3, <1>6, <2>1, <2>2, SleptStep DEF Lock
  <2> QED
    BY <1>1, <1>2, <1>6, <2>3 DEF SleepInv, LogsAreShort, Lock
<1>7. ASSUME NEW u \in Threads, Wake(u)
      PROVE  SleepInv'
  <2>1. \A t \in Threads : /\ mark[t] = Len(granted) /\ pc[t] = "waiting" => wakeAt[t] <= clock
                           /\ mark[t] = Len(granted) /\ pc[t] = "locked" => wakeAt[t] <= now[t]
    BY <1>1 DEF SleptEnough
  <2>2. /\ pc[u] = "sleeping" /\ wakeAt[u] <= clock /\ pc'[u] = "waiting"
        /\ \A t \in Threads : t # u => pc'[t] = pc[t]
    BY <1>1, <1>3, <1>7, ThreadTypes DEF Wake, TypeOK
  <2>3. SleptEnough'
    BY <1>1, <1>3, <1>7, <2>1, <2>2, SleptStep DEF Wake
  <2> QED
    BY <1>1, <1>2, <1>7, <2>3 DEF SleepInv, LogsAreShort, Wake
<1>8. ASSUME NEW u \in Threads, NEW v \in Windows, PopLeft(u, v)
      PROVE  SleepInv'
  <2>1. PICK n \in Nat : n = Len(logs[v]) /\ n # 0
    BY <1>1, <1>8, LogTypes DEF PopLeft, Expired
  <2>2. /\ Len(logs'[v]) = n - 1
        /\ \A w \in Windows : w # v => logs'[w] = logs[w]
    <3>1. Len(Tail(logs[v])) = n - 1
      BY <1>1, <2>1, LogTypes
    <3> QED
      BY <1>1, <1>8, <3>1 DEF PopLeft, TypeOK
  <2>3. n <= MaxRequests[v] /\ MaxRequests[v] \in Nat
    BY <1>1, <2>1, LogTypes DEF LogsAreShort
  <2>4. Len(logs'[v]) <= MaxRequests[v] /\ ~(Len(logs'[v]) >= MaxRequests[v])
    BY <2>2, <2>3
  <2>5. LogsAreShort'
    BY <1>1, <2>2, <2>4 DEF LogsAreShort
  <2>6. SleptEnough'
    BY <1>1, <1>8, <2>2, <2>4 DEF SleptEnough, Full, PopLeft
  <2> QED
    BY <1>2, <2>5, <2>6 DEF SleepInv
<1>9. ASSUME NEW u \in Threads, Grant(u)
      PROVE  SleepInv'
  <2>1. Len(granted') = Len(granted) + 1
    BY <1>1, <1>9, ThreadTypes DEF Grant, TypeOK
  <2>2. ASSUME NEW w \in Windows
        PROVE  Len(logs'[w]) <= MaxRequests[w]
    <3>1. PICK n \in Nat, k \in Nat : n = Len(logs[w]) /\ k = MaxRequests[w] /\ ~(n >= k)
      BY <1>1, <1>9, LogTypes, GrantFindsRoom DEF Full
    <3>2. logs'[w] = Append(logs[w], now[u])
      BY <1>9 DEF Grant
    <3>3. Len(logs'[w]) = n + 1
      BY <1>1, <3>1, <3>2, LogTypes, ThreadTypes
    <3> QED
      BY <3>1, <3>3
  <2>3. ASSUME NEW t \in Threads
        PROVE  mark'[t] <= Len(granted') /\ mark'[t] # Len(granted')
    <3>1. mark[t] <= Len(granted) /\ mark[t] \in Int
      BY <1>1, ThreadTypes DEF SleptEnough
    <3>2. mark'[t] = mark[t]
      BY <1>9 DEF Grant
    <3> QED
      BY <1>3, <2>1, <3>1, <3>2
  <2> QED
    BY <1>2, <2>2, <2>3 DEF SleepInv, LogsAreShort, SleptEnough
<1>10. ASSUME NEW u \in Threads, Sleep(u)
       PROVE  SleepInv'
  <2>1. PICK wait \in Waits(u) :
          /\ wait > 0 /\ \A other \in Waits(u) : other <= wait
          /\ wakeAt' = [wakeAt EXCEPT ![u] = clock + wait]
    BY <1>10 DEF Sleep, IsLongestWait
  <2>2. /\ wakeAt'[u] = clock + wait /\ mark'[u] = Len(granted) /\ pc'[u] = "sleeping"
        /\ \A t \in Threads : t # u => /\ wakeAt'[t] = wakeAt[t] /\ mark'[t] = mark[t]
                                       /\ pc'[t] = pc[t] /\ now'[t] = now[t]
        /\ UNCHANGED <<clock, logs, granted>>
    BY <1>1, <1>10, <2>1 DEF Sleep, TypeOK
  <2>3. now[u] <= clock
    <3>1. lock = u
      BY <1>1, <1>10 DEF Sleep, TypeOK
    <3> QED
      BY <1>1, <3>1 DEF HolderNotAhead
  <2>4. ASSUME NEW w \in Windows, Full(w)
        PROVE  Head(logs[w]) + Seconds[w] <= clock + wait
    <3>1. PICK h \in Nat, s \in Nat, x \in Nat, c \in Nat :
            h = Head(logs[w]) /\ s = Seconds[w] /\ x = now[u] /\ c = clock /\ x <= c
      <4>1. Len(logs[w]) # 0
        BY <1>1, <2>4, LogTypes DEF Full
      <4> QED
        BY <1>1, <2>3, <4>1, LogTypes, ThreadTypes
    <3>2. h + s - x <= wait
      BY <2>1, <2>4, <3>1 DEF Waits
    <3>3. wait \in Int
      <4>1. PICK v \in Windows : Full(v) /\ wait = Head(logs[v]) + Seconds[v] - now[u]
        BY <2>1 DEF Waits
      <4>2. Head(logs[v]) \in Nat /\ Seconds[v] \in Nat
        BY <1>1, <4>1, LogTypes DEF Full
      <4> QED
        BY <1>1, <4>1, <4>2, ThreadTypes
    <3> QED
      BY <3>1, <3>2, <3>3
  <2>5. ASSUME NEW t \in Threads
        PROVE  /\ mark'[t] <= Len(granted')
               /\ mark'[t] = Len(granted') /\ pc'[t] # "idle" =>
                     /\ \A w \in Windows : Full(w)' => Head(logs'[w]) + Seconds[w] <= wakeAt'[t]
                     /\ pc'[t] = "waiting" => wakeAt'[t] <= clock'
                     /\ pc'[t] = "locked" => wakeAt'[t] <= now'[t]
    <3>1. CASE t = u
      BY <1>3, <2>2, <2>4, <3>1 DEF Full
    <3>2. CASE t # u
      BY <1>1, <2>2, <3>2 DEF SleptEnough, Full
    <3> QED
      BY <3>1, <3>2
  <2> QED
    BY <1>1, <1>2, <2>2, <2>5 DEF SleepInv, LogsAreShort, SleptEnough
<1>11. CASE UNCHANGED vars
  BY <1>1, <1>2, <1>11 DEF vars, SleepInv, LogsAreShort, SleptEnough, Full
<1> QED
  BY <1>4, <1>5, <1>6, <1>7, <1>8, <1>9, <1>10, <1>11 DEF Next, Acquire

\* _longest_wait waits out every full window: a thread that slept does not
\* sleep again unless a slot was granted to another meanwhile.
THEOREM OneSleepSuffices == Spec => SleepSuffices
<1>1. Init => SleepInv
  <2> SUFFICES ASSUME Init PROVE LogsAreShort /\ SleptEnough
    BY InitIInv DEF SleepInv
  <2>1. \A w \in Windows : Len(logs[w]) = 0 /\ MaxRequests[w] \in Nat
    BY DEF Init
  <2>2. \A t \in Threads : mark[t] <= Len(granted) /\ mark[t] # Len(granted)
    BY DEF Init, Fresh
  <2> QED
    BY <2>1, <2>2 DEF LogsAreShort, SleptEnough
<1>2. ASSUME SleepInv, NEW t \in Threads, Sleep(t), mark[t] = Len(granted)
      PROVE  FALSE
  <2>1. TypeOK
    BY <1>2 DEF SleepInv, IInv
  <2>2. PICK w \in Windows : Full(w)
    BY <1>2 DEF Sleep, Waits
  <2>3. Head(logs[w]) + Seconds[w] <= now[t]
    <3>1. Head(logs[w]) + Seconds[w] <= wakeAt[t] /\ wakeAt[t] <= now[t]
      BY <1>2, <2>2 DEF SleepInv, SleptEnough, Sleep
    <3>2. Len(logs[w]) # 0
      BY <2>1, <2>2, LogTypes DEF Full
    <3> QED
      BY SMTT(40), <2>1, <3>1, <3>2, LogTypes, ThreadTypes
  <2>4. PICK h \in Nat, s \in Nat, x \in Nat :
          h = Head(logs[w]) /\ s = Seconds[w] /\ x = now[t] /\ logs[w] # <<>>
    <3>1. Len(logs[w]) # 0
      BY <2>1, <2>2, LogTypes DEF Full
    <3> QED
      BY SMTT(40), <2>1, <3>1, LogTypes, ThreadTypes
  <2>5. ~(h <= x - s)
    BY <1>2, <2>4 DEF Sleep, Pruned, Expired
  <2> QED
    BY <2>3, <2>4, <2>5
<1>3. SleepInv /\ [Next]_vars =>
        [\A t \in Threads : Sleep(t) => mark[t] # Len(granted)]_vars
  BY <1>2
<1> QED
  BY <1>1, <1>3, SleepInvStep, PTL DEF Spec, SleepSuffices
=============================================================================
