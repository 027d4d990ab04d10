---------------------------- MODULE KnowledgeStore ----------------------------
(***************************************************************************)
(* The Obsidian vault behind its REST plugin, and the client that retries: *)
(* integrations/obsidian/obsidian_knowledge_store.py.                      *)
(*                                                                         *)
(* A vault is a function from the paths of its notes to the sets of entries *)
(* in them.  A request that times out may have been applied or not; the    *)
(* client sends it again either way, so an appended entry may land more    *)
(* than once, which the set leaves out.                                    *)
(***************************************************************************)
EXTENDS Naturals

CONSTANT MaxTries       \* stop_after_attempt of _request

ASSUME StoreAssumption == MaxTries \in Nat \ {0}

Answers == {"ok", "missing", "rejected", "unauthorized", "unreachable"}

\* _request: how often the request took effect and what the caller is told.
\* Only time-outs and refused connections are tried again.
Deliveries ==
    {d \in [times : 0..MaxTries, answer : Answers] :
        /\ d.answer = "ok" => d.times > 0
        /\ d.answer \in {"missing", "rejected", "unauthorized"} => d.times < MaxTries}

Note(vault, path) == IF path \in DOMAIN vault THEN vault[path] ELSE {}

With(vault, path, entries) ==
    [p \in DOMAIN vault \cup {path} |-> IF p = path THEN entries ELSE vault[p]]

\* write: PUT replaces the note.  It may land and yet fail for the caller.
Puts(vault, path, content) ==
    {[vault |-> IF d.times = 0 THEN vault ELSE With(vault, path, {content}),
      told |-> d.answer = "ok"] : d \in Deliveries}

\* append: POST adds at the end.
Appended(vault, path, entry, n) ==
    IF n = 0 THEN vault ELSE With(vault, path, Note(vault, path) \cup {entry})

\* A mutant of SectionAppends: a refused heading is reported as done.
SectionAppendsWithoutFallback(vault, path, entry) ==
    {[vault |-> Appended(vault, path, entry, d.times),
      told |-> d.answer \in {"ok", "missing", "rejected"}] : d \in Deliveries}

\* append_to_section: under the heading, or, when the plugin refuses the
\* heading, at the end of the note.  told: no exception reached the caller.
SectionAppends(vault, path, entry) ==
    {[vault |-> Appended(vault, path, entry, d.times), told |-> d.answer = "ok"] :
        d \in {d \in Deliveries : d.answer \notin {"missing", "rejected"}}}
    \cup
    {[vault |-> Appended(vault, path, entry, d[1].times + d[2].times),
      told |-> d[2].answer = "ok"] :
        d \in {d \in Deliveries \X Deliveries : d[1].answer \in {"missing", "rejected"}}}
=============================================================================
