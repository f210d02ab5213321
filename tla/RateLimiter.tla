---------------------------- MODULE RateLimiter ----------------------------
(***************************************************************************)
(* include/openaq/ratelimit.py: SlidingWindowLimiter, one limiter shared   *)
(* by the threads of one process.                                          *)
(*                                                                         *)
(* Time is a discrete clock.  The lock serialises the body of acquire();   *)
(* the clock is read once per critical section and may advance while the   *)
(* section runs, so an entry of the log may be older than the instant at   *)
(* which it is appended.  The pruning loop is modelled one popleft at a    *)
(* time.                                                                   *)
(***************************************************************************)
EXTENDS Integers, Sequences, FiniteSets

CONSTANTS
    Threads,      \* the threads that call acquire()
    Windows,      \* the configured windows
    MaxRequests,  \* Window.max_requests, per window
    Seconds,      \* Window.seconds, per window
    Calls,        \* bound: calls of acquire() per thread
    Horizon       \* bound: beyond it time only passes for a sleeper

\* Window.__post_init__ rejects anything else.
ASSUME WindowAssumption ==
    /\ MaxRequests \in [Windows -> Nat \ {0}]
    /\ Seconds \in [Windows -> Nat \ {0}]

ASSUME BoundAssumption == Calls \in Nat /\ Horizon \in Nat

Nobody == "nobody"
ASSUME NobodyAssumption == Nobody \notin Threads

VARIABLES
    clock,    \* the monotonic clock
    lock,     \* the holder of _lock, or Nobody
    now,      \* each thread's clock reading inside the critical section
    logs,     \* _logs: one queue of time stamps per window
    pc,       \* where each thread is inside acquire()
    wakeAt,   \* earliest end of each thread's sleep
    calls,    \* calls each thread has made
    granted,  \* history: the time stamps of all slots granted, in order
    mark      \* history: Len(granted) when each thread's call last went to sleep

vars == <<clock, lock, now, logs, pc, wakeAt, calls, granted, mark>>

Fresh == 0 - 1   \* mark of a call that has not slept

\* The type of every variable; the lock is held by exactly the thread that is
\* inside the critical section.
TypeOK ==
    /\ clock \in Nat
    /\ lock \in Threads \cup {Nobody}
    /\ now \in [Threads -> Nat]
    /\ logs \in [Windows -> Seq(Nat)]
    /\ pc \in [Threads -> {"idle", "waiting", "locked", "sleeping"}]
    /\ \A t \in Threads : pc[t] = "locked" <=> lock = t
    /\ wakeAt \in [Threads -> Nat]
    /\ calls \in [Threads -> Nat]
    /\ granted \in Seq(Nat)
    /\ mark \in [Threads -> Nat \cup {Fresh}]

Init ==
    /\ clock = 0
    /\ lock = Nobody
    /\ now = [t \in Threads |-> 0]
    /\ logs = [w \in Windows |-> <<>>]
    /\ pc = [t \in Threads |-> "idle"]
    /\ wakeAt = [t \in Threads |-> 0]
    /\ calls = [t \in Threads |-> 0]
    /\ granted = <<>>
    /\ mark = [t \in Threads |-> Fresh]

-----------------------------------------------------------------------------
(* _longest_wait *)

\* The head of the log has left the window: log[0] <= now - seconds.
Expired(t, w) == logs[w] # <<>> /\ Head(logs[w]) <= now[t] - Seconds[w]

\* Mutant: the window is taken to be full one request early.
FullOffByOne(w) == Len(logs[w]) >= MaxRequests[w] - 1 /\ logs[w] # <<>>
\* Mutant: one request too many fits.
FullLate(w) == Len(logs[w]) > MaxRequests[w]

Full(w) == Len(logs[w]) >= MaxRequests[w]

\* The waits the full windows ask for; the oldest entry frees the slot.
Waits(t) ==
    {Head(logs[w]) + Seconds[w] - now[t] : w \in {v \in Windows : Full(v)}}

\* Mutant: the shortest wait is slept instead of the longest.
IsShortestWait(t, wait) ==
    wait \in Waits(t) /\ \A other \in Waits(t) : wait <= other

IsLongestWait(t, wait) ==
    wait \in Waits(t) /\ \A other \in Waits(t) : other <= wait

-----------------------------------------------------------------------------
(* acquire *)

Call(t) ==
    /\ pc[t] = "idle"
    /\ calls[t] < Calls
    /\ pc' = [pc EXCEPT ![t] = "waiting"]
    /\ calls' = [calls EXCEPT ![t] = @ + 1]
    /\ mark' = [mark EXCEPT ![t] = Fresh]
    /\ UNCHANGED <<clock, lock, now, logs, wakeAt, granted>>

\* Mutant: the critical section is entered without taking turns.
LockShared(t) ==
    /\ pc[t] = "waiting"
    /\ lock' = t
    /\ now' = [now EXCEPT ![t] = clock]
    /\ pc' = [pc EXCEPT ![t] = "locked"]
    /\ UNCHANGED <<clock, logs, wakeAt, calls, granted, mark>>

\* with self._lock: now = self._clock()
Lock(t) ==
    /\ pc[t] = "waiting"
    /\ lock = Nobody
    /\ lock' = t
    /\ now' = [now EXCEPT ![t] = clock]
    /\ pc' = [pc EXCEPT ![t] = "locked"]
    /\ UNCHANGED <<clock, logs, wakeAt, calls, granted, mark>>

PopLeft(t, w) ==
    /\ pc[t] = "locked"
    /\ Expired(t, w)
    /\ logs' = [logs EXCEPT ![w] = Tail(@)]
    /\ UNCHANGED <<clock, lock, now, pc, wakeAt, calls, granted, mark>>

Pruned(t) == \A w \in Windows : ~Expired(t, w)

\* Mutant: the slot is granted without releasing the lock.
GrantHoldingLock(t) ==
    /\ pc[t] = "locked"
    /\ Pruned(t)
    /\ \A wait \in Waits(t) : wait <= 0
    /\ logs' = [w \in Windows |-> Append(logs[w], now[t])]
    /\ granted' = Append(granted, now[t])
    /\ pc' = [pc EXCEPT ![t] = "idle"]
    /\ now' = [now EXCEPT ![t] = 0]
    /\ UNCHANGED <<clock, lock, wakeAt, calls, mark>>

\* wait <= 0: the slot is entered in every log and the lock released.
Grant(t) ==
    /\ pc[t] = "locked"
    /\ Pruned(t)
    /\ \A wait \in Waits(t) : wait <= 0
    /\ logs' = [w \in Windows |-> Append(logs[w], now[t])]
    /\ granted' = Append(granted, now[t])
    /\ lock' = Nobody
    /\ pc' = [pc EXCEPT ![t] = "idle"]
    /\ now' = [now EXCEPT ![t] = 0]
    /\ UNCHANGED <<clock, wakeAt, calls, mark>>

\* wait > 0: the lock is released before the thread sleeps.
Sleep(t) ==
    /\ pc[t] = "locked"
    /\ Pruned(t)
    /\ \E wait \in Waits(t) :
        /\ wait > 0
        /\ IsLongestWait(t, wait)
        /\ wakeAt' = [wakeAt EXCEPT ![t] = clock + wait]
    /\ lock' = Nobody
    /\ mark' = [mark EXCEPT ![t] = Len(granted)]
    /\ pc' = [pc EXCEPT ![t] = "sleeping"]
    /\ now' = [now EXCEPT ![t] = 0]
    /\ UNCHANGED <<clock, logs, calls, granted>>

\* A sleep lasts at least as long as asked for.
Wake(t) ==
    /\ pc[t] = "sleeping"
    /\ clock >= wakeAt[t]
    /\ pc' = [pc EXCEPT ![t] = "waiting"]
    /\ UNCHANGED <<clock, lock, now, logs, wakeAt, calls, granted, mark>>

Tick ==
    /\ \/ clock < Horizon
       \/ \E t \in Threads : pc[t] = "sleeping" /\ clock < wakeAt[t]
    /\ clock' = clock + 1
    /\ UNCHANGED <<lock, now, logs, pc, wakeAt, calls, granted, mark>>

Acquire(t) == \/ Lock(t)
              \/ \E w \in Windows : PopLeft(t, w)
              \/ Grant(t)
              \/ Sleep(t)
              \/ Wake(t)

Next == Tick \/ \E t \in Threads : Call(t) \/ Acquire(t)

Spec == Init /\ [][Next]_vars

\* Time passes and a running thread is scheduled; calling is up to the caller.
FairSpec == /\ Spec
            /\ WF_vars(Tick)
            /\ \A t \in Threads : WF_vars(Acquire(t))

-----------------------------------------------------------------------------
(* Properties *)

\* Window's promise, "At most max_requests within any seconds-long span": the
\* slot granted max_requests after another one is at least one span younger.
WindowBound ==
    \A w \in Windows : \A i, j \in 1..Len(granted) :
        j = i + MaxRequests[w] => granted[i] + Seconds[w] <= granted[j]

\* Slots are reserved in time order and none from the future, whichever thread
\* wins the lock: the deques stay sorted, which popping heads only relies on.
GrantsInOrder ==
    \A j \in 1..Len(granted) :
        granted[j] <= clock /\ \A i \in 1..j : granted[i] <= granted[j]

Promise == INSTANCE Pacing WITH clock <- clock, granted <- granted

\* The lock, the pruned logs and the sleeps implement the promise of Pacing:
\* seen by its callers, acquire() hands out slots in time order, none from the
\* future and none while a window is full, whatever the threads' interleaving.
ImplementsPacing == Promise!Spec

\* The slots granted in the span of w that ends with t's clock reading.
Recent(t, w) == {i \in 1..Len(granted) : granted[i] > now[t] - Seconds[w]}

\* acquire() paces only when it must: a thread goes to sleep only when some
\* window really holds max_requests slots at that instant.
SleepsOnlyWhenFull ==
    [][\A t \in Threads : Sleep(t) =>
        \E w \in Windows : Cardinality(Recent(t, w)) >= MaxRequests[w]]_vars

\* _longest_wait is enough: a thread that slept and finds no slot granted to
\* another meanwhile never has to sleep again.
SleepSuffices ==
    [][\A t \in Threads : Sleep(t) => mark[t] # Len(granted)]_vars

\* Every acquire() returns: no caller waits forever on the lock or on the
\* windows while the calls of the others are finite.
EveryCallReturns == \A t \in Threads : pc[t] # "idle" ~> pc[t] = "idle"
=============================================================================
