------------------------------- MODULE Clock --------------------------------
(***************************************************************************)
(* Wall-clock time as the governance code reads it.  Every governance      *)
(* method evaluates `now = now or datetime.now(UTC)` BEFORE it takes its   *)
(* lock, so by the time it touches shared state its idea of the time may   *)
(* be anything between the caller's previous step and the present.  The    *)
(* stamps it appends to a deque are what it prunes by.                     *)
(***************************************************************************)
EXTENDS Integers

CONSTANTS
    Threads,        \* the API's request-handler threads
    MaxTime         \* bound on the model's clock, in ticks

ASSUME ClockAssumption == MaxTime \in Nat

VARIABLES
    now,            \* the current time
    since           \* since[t]: when thread t took its last step

clockVars == <<now, since>>

ClockTypeOK ==
    /\ now \in 0..MaxTime
    /\ since \in [Threads -> 0..MaxTime]
    /\ \A t \in Threads : since[t] <= now

ClockInit == now = 0 /\ since = [t \in Threads |-> 0]

\* The times a method called by t as its next step may be working with.
Stamps(t) == since[t]..now

\* Part of every step of t.
Touch(t) == since' = [since EXCEPT ![t] = now] /\ UNCHANGED now

Tick == now < MaxTime /\ now' = now + 1 /\ UNCHANGED since

-----------------------------------------------------------------------------
(***************************************************************************)
(* A deque that only grows at its tail and shrinks at its head is modelled *)
(* as the log of everything ever appended to it and the position of its    *)
(* head in that log.  What popleft() removed stays visible to properties.  *)
(* `while q and not kept(q[0]): q.popleft()` for a queue that starts at    *)
(* `from`: the head moves to the first element that is kept, or past the   *)
(* tail when none is.                                                      *)
(***************************************************************************)
PopLeft(from, len, kept) ==
    LET rest == {i \in kept : i >= from}
    IN  IF rest = {} THEN len + 1 ELSE CHOOSE i \in rest : \A j \in rest : i <= j
=============================================================================
