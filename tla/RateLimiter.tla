----------------------------- MODULE RateLimiter -----------------------------
(***************************************************************************)
(* RateLimiter of ai/governance.py: a sliding window of hits per           *)
(* (principal, task) key, with a per-minute and a per-hour limit.          *)
(* hits[k] logs every hit of key k, head[k] is where its deque starts.     *)
(* Each operator is one critical section of the limiter's lock, working    *)
(* with the time `at` its caller read before taking the lock.              *)
(***************************************************************************)
EXTENDS Clock, Sequences, FiniteSets

CONSTANTS
    RateKeys,               \* (principal, task) pairs
    PerMinute, PerHour,     \* limits; 0 turns one off
    Minute, Hour            \* window lengths in ticks

ASSUME RateAssumption ==
    /\ PerMinute \in Nat /\ PerHour \in Nat
    /\ Minute \in Nat /\ Hour \in Nat /\ Minute <= Hour

VARIABLES hits, head

rateVars == <<hits, head>>

RateTypeOK ==
    /\ hits \in [RateKeys -> Seq(0..MaxTime)]
    /\ head \in [RateKeys -> Nat \ {0}]
    /\ \A k \in RateKeys : head[k] <= Len(hits[k]) + 1

RateInit ==
    /\ hits = [k \in RateKeys |-> <<>>]
    /\ head = [k \in RateKeys |-> 1]

-----------------------------------------------------------------------------
RateDisabled == PerMinute = 0 /\ PerHour = 0

\* Mutant: a hit exactly one hour old is dropped.
PrunedHeadEarly(k, at) ==
    PopLeft(head[k], Len(hits[k]), {i \in DOMAIN hits[k] : hits[k][i] > at - Hour})

\* Hits older than an hour leave the deque, from its head.
PrunedHead(k, at) ==
    PopLeft(head[k], Len(hits[k]), {i \in DOMAIN hits[k] : hits[k][i] >= at - Hour})

\* Mutant: the limit itself still admits one more.
WithinLimitsOffByOne(k, at) ==
    \/ RateDisabled
    \/ LET queued == {i \in DOMAIN hits[k] : i >= PrunedHead(k, at)}
           recent == {i \in queued : hits[k][i] >= at - Minute}
       IN  /\ PerHour > 0 => Cardinality(queued) <= PerHour
           /\ PerMinute > 0 => Cardinality(recent) <= PerMinute

\* RateLimiter.check: the verdict ...
WithinLimits(k, at) ==
    \/ RateDisabled
    \/ LET queued == {i \in DOMAIN hits[k] : i >= PrunedHead(k, at)}
           recent == {i \in queued : hits[k][i] >= at - Minute}
       IN  /\ PerHour > 0 => Cardinality(queued) < PerHour
           /\ PerMinute > 0 => Cardinality(recent) < PerMinute

\* ... and the effect.
RateCheck(k, at) ==
    /\ head' = IF RateDisabled THEN head ELSE [head EXCEPT ![k] = PrunedHead(k, at)]
    /\ UNCHANGED hits

\* RateLimiter.record
RateRecord(k, at) ==
    /\ hits' = [hits EXCEPT ![k] = Append(@, at)]
    /\ UNCHANGED head

-----------------------------------------------------------------------------
(***************************************************************************)
(* Hits inside one window of the given length, and how many a window holds *)
(* at most, over every window of the log.                                  *)
(***************************************************************************)
InWindow(k, from, length) ==
    {i \in DOMAIN hits[k] : hits[k][i] >= from /\ hits[k][i] <= from + length}

(***************************************************************************)
(* A hit the limiter has dropped is out of the hourly window for good: no  *)
(* interleaving of checks whose clocks lag makes it forget a hit that      *)
(* still counts (the head-only pruning of RateLimiter.check).              *)
(***************************************************************************)
NoHitForgotten ==
    \A k \in RateKeys : \A i \in DOMAIN hits[k] :
        i < head[k] => hits[k][i] < now - Hour

(***************************************************************************)
(* check and record are separate critical sections, so threads that check  *)
(* together are all admitted: a window can hold more hits than its limit,  *)
(* but never by more than the number of other threads.                     *)
(***************************************************************************)
RateOvershootBounded ==
    \A k \in RateKeys, from \in 0..MaxTime :
        /\ PerMinute > 0 =>
             Cardinality(InWindow(k, from, Minute)) < PerMinute + Cardinality(Threads)
        /\ PerHour > 0 =>
             Cardinality(InWindow(k, from, Hour)) < PerHour + Cardinality(Threads)
=============================================================================
