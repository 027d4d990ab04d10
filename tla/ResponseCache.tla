---------------------------- MODULE ResponseCache ----------------------------
(***************************************************************************)
(* ResponseCache of ai/governance.py: answers kept for a task-specific     *)
(* time, and the set of fingerprints some thread is working on.  An entry  *)
(* names the request whose provider call produced the answer.  Each        *)
(* operator is one critical section of the cache's lock.                   *)
(***************************************************************************)
EXTENDS Clock, Sequences

CONSTANTS
    Fingerprints,           \* request identities
    Ttl                     \* Ttl[task]: TASK_CACHE_TTL, or the default, in ticks

VARIABLES
    entries,                \* entries[f]: NoEntry, or the answer and its expiry
    inFlight                \* fingerprints claimed by begin and not yet ended

cacheVars == <<entries, inFlight>>

NoEntry == [by |-> 0, expires |-> 0]

CacheTypeOK ==
    /\ entries \in [Fingerprints -> [by : Nat, expires : Nat]]
    /\ inFlight \subseteq Fingerprints

CacheInit == entries = [f \in Fingerprints |-> NoEntry] /\ inFlight = {}

Present(f) == entries[f].by # 0

\* Mutant: expiry is not looked at.
HitForever(f, at) == Present(f)

\* ResponseCache.get returns the entry ...
Hit(f, at) == Present(f) /\ entries[f].expires > at

\* ... and deletes one that has expired.
CacheGet(f, at) ==
    /\ entries' = IF Present(f) /\ entries[f].expires <= at
                  THEN [entries EXCEPT ![f] = NoEntry] ELSE entries
    /\ UNCHANGED inFlight

\* ResponseCache.put, which only ever sees a successful response here.
CachePut(f, by, ttl, at) ==
    /\ entries' = IF ttl <= 0 THEN entries
                  ELSE [entries EXCEPT ![f] = [by |-> by, expires |-> at + ttl]]
    /\ UNCHANGED inFlight

\* Mutant: the claim is taken whether or not someone holds it.
CacheBeginAlways(f) == inFlight' = inFlight \cup {f} /\ UNCHANGED entries

\* ResponseCache.begin, when it returns True.
CacheBegin(f) ==
    /\ f \notin inFlight
    /\ inFlight' = inFlight \cup {f}
    /\ UNCHANGED entries

\* ResponseCache.end
CacheEnd(f) == inFlight' = inFlight \ {f} /\ UNCHANGED entries
=============================================================================
