----------------------------- MODULE ModelPicker -----------------------------
(***************************************************************************)
(* The list of models the picker offers: the shim's GET /api/models, which *)
(* asks the gateway and keeps the answer for MODELS_TTL_MS.  Calls overlap:*)
(* each reads the clock, may await the gateway, and then writes the one    *)
(* cache.  The gateway's list changes over time and may be empty.          *)
(***************************************************************************)
EXTENDS Naturals

CONSTANTS
    Calls,          \* calls of /api/models
    TTL,            \* MODELS_TTL_MS, in ticks of the timeout
    MaxTime,        \* bound
    MaxLists,       \* bound: lists the gateway publishes, one after the other
    Fallback,       \* the single model offered when there is no list
    None

Times == 0..MaxTime

\* The gateway's lists are numbered; one of them is empty.
EmptyList == 1
Lists == 0..MaxLists

VARIABLES
    now,
    list,           \* the gateway's list
    published,      \* published[t]: the lists that were current at time t
    modelsCache,    \* _modelsCache
    call            \* call[c]: one run of the handler

vars == <<now, list, published, modelsCache, call>>

NotCalled == [pc |-> "idle", at |-> 0, got |-> None, failed |-> FALSE, ids |-> None]

Init ==
    /\ now = 0
    /\ list = 0
    /\ published = [t \in Times |-> IF t = 0 THEN {0} ELSE {}]
    /\ modelsCache = None
    /\ call = [c \in Calls |-> NotCalled]

\* An empty or missing cache is answered with the single fallback model.
Offer(k) == IF k = None \/ k.ids = EmptyList THEN Fallback ELSE k.ids

Stale(k) == k = None \/ now - k.at > TTL

\* A call is answered from a fresh cache, or asks the gateway.
Open(c) ==
    /\ call[c].pc = "idle"
    /\ call' = [call EXCEPT ![c] = IF Stale(modelsCache)
                                   THEN [@ EXCEPT !.pc = "asking", !.at = now]
                                   ELSE [@ EXCEPT !.pc = "done", !.at = now, !.ids = Offer(modelsCache)]]
    /\ UNCHANGED <<now, list, published, modelsCache>>

\* The gateway answers with the list of that moment.
Answer(c) ==
    /\ call[c].pc = "asking"
    /\ call' = [call EXCEPT ![c].pc = "transit", ![c].got = list]
    /\ UNCHANGED <<now, list, published, modelsCache>>

\* Mutant: the cache is stamped when the answer arrives.
ArriveStamped(c) ==
    /\ call[c].pc = "transit"
    /\ modelsCache' = [at |-> now, ids |-> call[c].got]
    /\ call' = [call EXCEPT ![c].pc = "done", ![c].ids = Offer(modelsCache')]
    /\ UNCHANGED <<now, list, published>>

\* The answer replaces the cache, stamped with the start of the call, even if
\* a later call has been answered meanwhile.
Arrive(c) ==
    /\ call[c].pc = "transit"
    /\ modelsCache' = [at |-> call[c].at, ids |-> call[c].got]
    /\ call' = [call EXCEPT ![c].pc = "done", ![c].ids = Offer(modelsCache')]
    /\ UNCHANGED <<now, list, published>>

\* The gateway refuses, breaks off, or has not answered in time: what is
\* cached is offered, however old.
Fail(c) ==
    /\ call[c].pc \in {"asking", "transit"}
    /\ call' = [call EXCEPT ![c].pc = "done", ![c].failed = TRUE, ![c].ids = Offer(modelsCache)]
    /\ UNCHANGED <<now, list, published, modelsCache>>

\* The gateway publishes its next list.
Publish ==
    /\ list < MaxLists
    /\ list' = list + 1
    /\ published' = [published EXCEPT ![now] = @ \cup {list'}]
    /\ UNCHANGED <<now, modelsCache, call>>

\* A tick is the timeout of the fetch: no call outlasts the one after its own.
Tick ==
    /\ now < MaxTime
    /\ \A c \in Calls : call[c].pc \in {"asking", "transit"} => call[c].at = now
    /\ now' = now + 1
    /\ published' = [published EXCEPT ![now + 1] = {list}]
    /\ UNCHANGED <<list, modelsCache, call>>

Next ==
    \/ \E c \in Calls : Open(c) \/ Answer(c) \/ Arrive(c) \/ Fail(c)
    \/ Publish
    \/ Tick

Spec == Init /\ [][Next]_vars

-----------------------------------------------------------------------------
\* The picker always has a model to offer, and a call whose own fetch did not
\* fail offers no list the gateway had replaced more than MODELS_TTL_MS before
\* the call, however calls overlap ("Cached briefly ... so the picker always
\* renders", server.ts:328-329).
PickerFresh ==
    \A c \in Calls :
        call[c].pc = "done" =>
            /\ call[c].ids # EmptyList
            /\ call[c].ids \in Lists /\ ~call[c].failed =>
                   \E t \in Times : t + TTL >= call[c].at /\ call[c].ids \in published[t]
=============================================================================
