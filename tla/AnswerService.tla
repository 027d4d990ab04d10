---------------------------- MODULE AnswerService ----------------------------
(***************************************************************************)
(* What the AI gateway promises its callers, with nothing of how it works: *)
(* every question asked gets at most one outcome, at most one caller at a  *)
(* time has the provider working on a given question, and an answer that   *)
(* was not worked for is the answer of someone who asked the same and got  *)
(* to work on it.                                                          *)
(***************************************************************************)
EXTENDS Naturals, Sequences

CONSTANT Questions

VARIABLES
    asked,          \* the questions, in the order they were asked
    state           \* what became of each

Undecided == {"waiting", "working", "refusing"}

Init == asked = <<>> /\ state = <<>>

Ask(q) ==
    /\ asked' = Append(asked, q)
    /\ \E s \in {"waiting", "refusing"} : state' = Append(state, s)

Become(i, s) == state' = [state EXCEPT ![i] = s] /\ UNCHANGED asked

Start(i) ==
    /\ state[i] = "waiting"
    /\ \A j \in DOMAIN asked : asked[j] = asked[i] => state[j] # "working"
    /\ Become(i, "working")

Refuse(i) ==
    \/ state[i] \in {"waiting", "working"} /\ Become(i, "refusing")
    \/ state[i] = "refusing" /\ Become(i, "refused")

Answer(i) == state[i] = "working" /\ Become(i, "answered")

Reuse(i) ==
    /\ state[i] = "waiting"
    /\ \E j \in DOMAIN asked : asked[j] = asked[i] /\ state[j] \in {"working", "answered"}
    /\ Become(i, "answered")

Crash ==
    /\ state' = [i \in DOMAIN state |->
                   IF state[i] \in Undecided THEN "lost" ELSE state[i]]
    /\ UNCHANGED asked

Next ==
    \/ \E q \in Questions : Ask(q)
    \/ \E i \in DOMAIN asked : Start(i) \/ Refuse(i) \/ Answer(i) \/ Reuse(i)
    \/ Crash

Spec == Init /\ [][Next]_<<asked, state>>
=============================================================================
