------------------------------- MODULE Pacing -------------------------------
(***************************************************************************)
(* What a SlidingWindowLimiter promises its callers, whatever goes on      *)
(* inside acquire(): slots are handed out one after the other, none before *)
(* its time, and none while a window is full.  RateLimiter implements it;  *)
(* SharedKey composes several limiters from their promises alone.          *)
(***************************************************************************)
EXTENDS Integers, Sequences

\* Window, one entry per window; the modules that instantiate this one assume
\* of them what Window.__post_init__ enforces.
CONSTANTS Windows, MaxRequests, Seconds

VARIABLES
    clock,     \* the monotonic clock
    granted    \* the time stamps of the slots granted so far

Init == clock = 0 /\ granted = <<>>

\* "At most max_requests within any seconds-long span": a slot at this instant
\* leaves the max_requests-th slot before it one whole span behind.
Room(at) ==
    \A w \in Windows :
        Len(granted) >= MaxRequests[w] =>
            granted[Len(granted) - MaxRequests[w] + 1] + Seconds[w] <= at

InOrder(at) == granted # <<>> => granted[Len(granted)] <= at

\* The slot may carry an instant that has passed when the caller gets it.
Grant(at) ==
    /\ at <= clock
    /\ InOrder(at)
    /\ Room(at)
    /\ granted' = Append(granted, at)
    /\ UNCHANGED clock

Tick == clock' = clock + 1 /\ UNCHANGED granted

Next == Tick \/ \E at \in 0..clock : Grant(at)

Spec == Init /\ [][Next]_<<clock, granted>>
=============================================================================
