----------------------------- MODULE Explainer -----------------------------
(***************************************************************************)
(* services/api/explain: explaining a finding with a language model, and   *)
(* the cache of what it wrote, one row of explain.cache for each rule and  *)
(* evidence.  Handlers run in threads; looking up, asking and storing are  *)
(* separate steps.  The version of a text is the model (and prompt) it was *)
(* asked of; a restart of the API may change it.                           *)
(***************************************************************************)
EXTENDS Integers

CONSTANTS
    Askers,         \* requests
    Evidence,       \* what findings are looked up by: rule and evidence
    Models,         \* prompt versions and models
    retries         \* 1 in the code

VARIABLES
    running,        \* the version of the API that runs
    cache,          \* explain.cache: the version a row was written under
    asker,          \* a request: its step, evidence, calls left, answer
    answered        \* history: what this model has explained to someone

explainVars == <<running, cache, asker, answered>>

NoRow == "no row"
NotExplained == "not explained"

ASSUME ExplainAssumption == retries \in Nat /\ NoRow \notin Models /\ NotExplained \notin Models

NotAsking == [step |-> "idle", of |-> "nothing", calls |-> 0, text |-> NotExplained, again |-> FALSE]

ExplainInit ==
    /\ running \in Models
    /\ cache = [e \in Evidence |-> NoRow]
    /\ asker = [a \in Askers |-> NotAsking]
    /\ answered = {}

At(a, step) == asker[a].step = step

(* The request ends, with the text of a version or with an error.          *)
End(a, text) ==
    /\ asker' = [asker EXCEPT ![a].step = "done", ![a].text = text]
    /\ answered' = IF text = NotExplained THEN answered ELSE answered \union {asker[a].of}

Fail(a) == End(a, NotExplained)

(* again: this model explained it to somebody before.                      *)
Ask(a, e) ==
    /\ At(a, "idle") \/ At(a, "done")
    /\ asker' = [asker EXCEPT ![a] =
           [NotAsking EXCEPT !.step = "get", !.of = e, !.calls = 1 + retries,
                         !.again = e \in answered]]
    /\ UNCHANGED <<running, cache, answered>>

Hit(e) == cache[e] = running

(* The look-up, which raises when the database is out of reach.            *)
LookUp(a) ==
    /\ At(a, "get")
    /\ \/ Hit(asker[a].of) /\ End(a, cache[asker[a].of])
       \/ /\ ~Hit(asker[a].of)
          /\ asker' = [asker EXCEPT ![a].step = "call"] /\ UNCHANGED answered
       \/ Fail(a)
    /\ UNCHANGED <<running, cache>>

(* A reply that is no explanation is asked for again, once; an error of    *)
(* the model's API ends the request.                                       *)
CallModel(a) ==
    /\ At(a, "call")
    /\ \/ /\ asker' = [asker EXCEPT ![a].step = "put", ![a].calls = @ - 1]
          /\ UNCHANGED answered
       \/ /\ asker[a].calls > 1
          /\ asker' = [asker EXCEPT ![a].calls = @ - 1]
          /\ UNCHANGED answered
       \/ Fail(a)
    /\ UNCHANGED <<running, cache>>

(* Mutant of Stored: ON CONFLICT DO NOTHING.                               *)
Stored_Once(e) == IF cache[e] = NoRow THEN [cache EXCEPT ![e] = running] ELSE cache

Stored(e) == [cache EXCEPT ![e] = running]

(* The upsert.  Lost with the connection, twice, it may still have been    *)
(* executed: the request then fails.                                       *)
Put(a) ==
    /\ At(a, "put")
    /\ \/ cache' = Stored(asker[a].of) /\ End(a, running)
       \/ cache' \in {cache, Stored(asker[a].of)} /\ Fail(a)
    /\ UNCHANGED running

(* The API is started again, perhaps with another model or prompt.         *)
RestartApi(m) ==
    /\ running' = m
    /\ asker' = [a \in Askers |-> NotAsking]
    /\ answered' = IF m = running THEN answered ELSE {}
    /\ UNCHANGED cache

ExplainNext ==
    \/ \E a \in Askers : \/ \E e \in Evidence : Ask(a, e)
                         \/ LookUp(a) \/ CallModel(a) \/ Put(a)
    \/ \E m \in Models : RestartApi(m)

ExplainSpec == ExplainInit /\ [][ExplainNext]_explainVars

-----------------------------------------------------------------------------

(* An explanation somebody was shown is never paid for again while the     *)
(* model and prompt stay, whoever asked at the same time, whatever failed  *)
(* and however often the API was restarted; and nobody is shown a text of  *)
(* another version.                                                        *)
ExplanationsAreKept ==
    \A a \in Askers :
       /\ At(a, "call") => ~asker[a].again
       /\ At(a, "done") => asker[a].text \in {running, NotExplained}
=============================================================================
