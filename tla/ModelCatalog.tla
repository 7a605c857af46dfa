------------------------------ MODULE ModelCatalog ------------------------------
(***************************************************************************)
(* models_catalog.py: the provider's list of models, cached for a TTL.     *)
(* fetch_all_models runs as a coroutine of every caller (a chat turn that  *)
(* names a model, the model picker): it looks at the clock and the cache   *)
(* before it awaits the provider, and writes the cache after.  Several may *)
(* be waiting at once, and the provider changes its list as it likes.      *)
(***************************************************************************)
EXTENDS Naturals

CONSTANTS
    Models,     \* slugs
    Attested,   \* the slugs with the prefix of TEE-served models
    Lists,      \* the lists that the provider may publish
    Callers,
    TTL,
    MaxTime,    \* bound: the clock
    NoList

ASSUME CatalogAssumption ==
    /\ Attested \subseteq Models
    /\ Lists \subseteq SUBSET Models
    /\ TTL \in Nat \ {0} /\ MaxTime \in Nat
    /\ \A l \in SUBSET Models : l # NoList

Times == 0..MaxTime
NoCache == [at |-> 0, list |-> NoList]

VARIABLES
    clock,
    live,       \* the list that the provider publishes now
    published,  \* <<t, l>>: l was published at time t (history)
    cache,      \* _CACHE[base_url]
    call        \* call[c]: one run of fetch_all_models

catalogVars == <<clock, live, published, cache, call>>

NoCall == [pc |-> "idle", now |-> 0, cached |-> NoCache, data |-> NoList, out |-> NoList]

CatalogInit ==
    /\ clock = 0
    /\ live \in Lists
    /\ published = {<<0, live>>}
    /\ cache = NoCache
    /\ call = [c \in Callers |-> NoCall]

-----------------------------------------------------------------------------
Tick ==
    /\ clock < MaxTime
    /\ clock' = clock + 1
    /\ published' = published \cup {<<clock', live>>}
    /\ UNCHANGED <<live, cache, call>>

Publish(l) ==
    /\ l # live
    /\ live' = l
    /\ published' = published \cup {<<clock, l>>}
    /\ UNCHANGED <<clock, cache, call>>

Good(entry) == entry.list # NoList
Returned(pc, list) == [NoCall EXCEPT !.pc = pc, !.out = list]

ListOf(entry) == IF Good(entry) THEN entry.list ELSE {}

\* fetch_all_models until its await: a fresh entry is returned at once.
FetchAll(c) ==
    call' = [call EXCEPT ![c] =
        IF Good(cache) /\ clock - cache.at < TTL
        THEN Returned("done", cache.list)
        ELSE [NoCall EXCEPT !.pc = "asking", !.now = clock, !.cached = cache]]

\* The provider answers with the list of now; the answer is on its way.
Served(c) ==
    /\ call[c].pc = "asking"
    /\ call' = [call EXCEPT ![c].pc = "answered", ![c].data = live]
    /\ UNCHANGED <<clock, live, published, cache>>

\* Mutant: the entry is stamped when the answer arrives.
FetchedStampedLate(c) ==
    /\ call[c].pc = "answered"
    /\ cache' = [at |-> clock, list |-> call[c].data]
    /\ call' = [call EXCEPT ![c] = Returned("done", call[c].data)]
    /\ UNCHANGED <<clock, live, published>>

\* The answer is cached under the time at which it was asked for.
Fetched(c) ==
    /\ call[c].pc = "answered"
    /\ cache' = [at |-> call[c].now, list |-> call[c].data]
    /\ call' = [call EXCEPT ![c] = Returned("done", call[c].data)]
    /\ UNCHANGED <<clock, live, published>>

\* A transport error, a bad status or a bad body: the entry read before the
\* await, if there was one.
FetchFailed(c) ==
    /\ call[c].pc \in {"asking", "answered"}
    /\ call' = [call EXCEPT ![c] = Returned("failed", ListOf(call[c].cached))]
    /\ UNCHANGED <<clock, live, published, cache>>

\* The answer arrives, but an entry of its list is malformed: the list is built
\* outside the try, and the exception is the caller's.
FetchRaises(c) ==
    /\ call[c].pc = "answered"
    /\ call' = [call EXCEPT ![c] = [NoCall EXCEPT !.pc = "raised"]]
    /\ UNCHANGED <<clock, live, published, cache>>

Provider == Tick \/ \E l \in Lists : Publish(l)
CatalogStep(c) == Served(c) \/ Fetched(c) \/ FetchFailed(c) \/ FetchRaises(c)

-----------------------------------------------------------------------------
\* GET /v1/models: the picker asks again and again.
Pick(c) ==
    /\ call[c].pc \in {"idle", "done", "failed", "raised"}
    /\ FetchAll(c)
    /\ UNCHANGED <<clock, live, published, cache>>

-----------------------------------------------------------------------------
(***************************************************************************)
(* Every variable of the catalog has its type.                             *)
(***************************************************************************)
CatalogTypeOK ==
    LET Entries == [at : Times, list : Lists \cup {NoList}] IN
    /\ clock \in Times
    /\ live \in Lists
    /\ published \subseteq Times \X Lists
    /\ cache \in Entries
    /\ call \in [Callers -> [pc : {"idle", "asking", "answered", "done", "failed", "raised"},
                             now : Times, cached : Entries,
                             data : Lists \cup {NoList}, out : Lists \cup {{}, NoList}]]
    /\ \A c \in Callers : call[c].pc \in {"done", "failed"} => call[c].out # NoList

(***************************************************************************)
(* models_catalog.py:26 "refresh the catalog at most every 5 min": an entry*)
(* that is still served without asking the provider was published less than*)
(* a TTL ago, however slow its answer was and whichever of several answers *)
(* was cached last.                                                        *)
(***************************************************************************)
CacheFresh ==
    Good(cache) /\ clock - cache.at < TTL =>
        \E t \in Times : t <= clock /\ clock - t < TTL /\ <<t, cache.list>> \in published
=============================================================================
