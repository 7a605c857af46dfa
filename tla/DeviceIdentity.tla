---------------------------- MODULE DeviceIdentity ----------------------------
(***************************************************************************)
(* One browser tab: unlocking a seed, locking again, and what runs across  *)
(* a lock.  AuthContext.unlock awaits the handshake of the shared client   *)
(* and the opening of the device store; lock is synchronous.  A chat turn  *)
(* that is still gathering its prompt, and a document that is still being  *)
(* embedded, go on running while the user locks the tab and unlocks it with*)
(* another seed.                                                           *)
(*                                                                         *)
(* The tab is single-threaded: an action is what runs from one await that  *)
(* leaves the microtask queue (a fetch, a worker's answer, a WebCrypto     *)
(* call) to the next.                                                      *)
(*                                                                         *)
(* A seed stands for its identity, account and store key.  A session key is*)
(* named by the unlock that agreed it.  The store proxy, its worker and the*)
(* RAG index live from one lock to the next and are numbered by `gen`.     *)
(***************************************************************************)
EXTENDS Naturals

CONSTANTS
    Seeds,
    MaxUnlocks,     \* bound: unlock attempts of the tab
    Turns,
    MaxSubagents,   \* subagents consulted by one turn (5 in the code)
    Docs,           \* documents attached for retrieval
    Overlap,        \* TRUE iff the login screen may be remounted during an unlock, and
                    \* a second one be started while the first is in flight
    None

Attempts == 1..MaxUnlocks
Gens == 0..MaxUnlocks

ASSUME UnlocksAssumption == MaxUnlocks \in Nat
ASSUME SubagentsAssumption == MaxSubagents \in Nat
ASSUME OverlapAssumption == Overlap \in BOOLEAN
ASSUME NoneAssumption == None \notin Seeds /\ None \notin Gens

VARIABLES
    client,     \* the shared CaladonClient, named by the attempt that created it
    cident,     \* cident[c]: the identity held inside client c
    ident,      \* lib/caladon: identity
    hs,         \* lib/caladon: handshakeResult (its session key)
    auth,       \* AuthContext: the account of the authenticated user
    gsess,      \* the gateway's session key of each account
    att,        \* att[u]: one run of AuthContext.unlock
    gen,        \* generation of the StoreProxy singleton and of the RAG index
    px,         \* px[g]: store proxy g and the database its worker has open
    idx,        \* idx[g]: the store whose vectors RAG index g holds
    hyd,        \* generations whose RAG index is being hydrated
    rows,       \* rows[s]: the documents in the store file of seed s
    turn,       \* turn[t]: useSSE's setup of one submission
    doc,        \* doc[d]: useRag's ingestion of one document
    mixed,      \* history: TRUE from an unlock that begins while another is in
                \* flight until the tab is locked with none in flight
    mixedTurns  \* history: submissions that were under way while the tab was mixed

authVars == <<client, cident, ident, hs, auth, gsess, att>>
storeVars == <<gen, px, idx, hyd, rows>>
history == <<mixed, mixedTurns>>
vars == <<authVars, storeVars, turn, doc, history>>

-----------------------------------------------------------------------------
NewProxy == [opened |-> FALSE, ready |-> "pending", db |-> None]

Init ==
    /\ client = None
    /\ cident = [u \in Attempts |-> None]
    /\ ident = None
    /\ hs = None
    /\ auth = None
    /\ gsess = [s \in Seeds |-> None]
    /\ att = [u \in Attempts |-> [pc |-> "idle", seed |-> None, client |-> None,
                                  wmk |-> None, gen |-> None]]
    /\ gen = 0
    /\ px = [g \in Gens |-> NewProxy]
    /\ idx = [g \in Gens |-> None]
    /\ hyd = {}
    /\ rows = [s \in Seeds |-> {}]
    /\ turn = [t \in Turns |-> [pc |-> "idle", by |-> None, gen |-> None, parts |-> {},
                                acct |-> None, sk |-> None, hdr |-> None, cancelled |-> FALSE,
                                left |-> 0, live |-> FALSE, asked |-> {}]]
    /\ doc = [d \in Docs |-> [pc |-> "idle", by |-> None, gen |-> None]]
    /\ mixed = FALSE /\ mixedTurns = {}

InFlight(u) == att[u].pc \notin {"idle", "done", "failed"}
Overlapping == \E u \in Attempts : InFlight(u)
Gathering(r) == r.pc \notin {"idle", "sent", "dropped", "failed"}

-----------------------------------------------------------------------------
(* AuthContext.unlock, caladonUnlock and CaladonClient.handshake *)

\* The login screen is shown while nobody is authenticated.  It hides its
\* buttons during an unlock, unless it is remounted.
Unlock(u, s) ==
    /\ auth = None
    /\ att[u].pc = "idle"
    /\ \A v \in Attempts : v < u => att[v].pc # "idle"
    /\ Overlapping => Overlap
    /\ mixed' = (mixed \/ Overlapping)
    /\ mixedTurns' = IF Overlapping THEN mixedTurns \cup {t \in Turns : Gathering(turn[t])}
                     ELSE mixedTurns
    /\ client' = IF client = None THEN u ELSE client
    /\ att' = [att EXCEPT ![u].pc = "init", ![u].seed = s, ![u].client = client']
    /\ UNCHANGED <<cident, ident, hs, auth, gsess, storeVars, turn, doc>>

\* After init(): the identity is derived into the client; onboarding is posted.
UnlockSeed(u) ==
    /\ att[u].pc = "init"
    /\ cident' = [cident EXCEPT ![att[u].client] = att[u].seed]
    /\ att' = [att EXCEPT ![u].pc = "onboarding"]
    /\ UNCHANGED <<client, ident, hs, auth, gsess, storeVars, turn, doc, history>>

\* Whatever status onboarding was answered with, evidence is fetched next.
Onboarded(u) ==
    /\ att[u].pc = "onboarding"
    /\ att' = [att EXCEPT ![u].pc = "attesting"]
    /\ UNCHANGED <<client, cident, ident, hs, auth, gsess, storeVars, turn, doc, history>>

\* The verdict is ok: establishSession seals the WMK of the identity that the
\* client holds now.
EstablishSession(u) ==
    /\ att[u].pc = "attesting"
    /\ att' = [att EXCEPT ![u].pc = "sealing", ![u].wmk = cident[att[u].client]]
    /\ UNCHANGED <<client, cident, ident, hs, auth, gsess, storeVars, turn, doc, history>>

\* POST /v1/session, signed by the identity that the client holds now.  The
\* gateway installs the key when the WMK is sealed for the signing account.
PostSession(u, served) ==
    LET signer == cident[att[u].client]
        ok == served /\ att[u].wmk = signer IN
    /\ att[u].pc = "sealing"
    /\ gsess' = IF ok THEN [gsess EXCEPT ![signer] = u] ELSE gsess
    /\ att' = [att EXCEPT ![u].pc = IF ok THEN "established" ELSE "refused"]
    /\ UNCHANGED <<client, cident, ident, hs, auth, storeVars, turn, doc, history>>

\* applyUserContext, and the RAG index hydrated in the background.
Authenticate(u, p) ==
    /\ auth' = att[u].seed
    /\ att' = [att EXCEPT ![u].pc = "done", ![u].gen = gen]
    /\ hyd' = IF p[gen].opened THEN hyd \cup {gen} ELSE hyd

\* 200: caladonUnlock keeps identity and session, whatever happened meanwhile;
\* openStore does nothing when the current proxy is already open.
Unlocked(u) ==
    /\ att[u].pc = "established"
    /\ ident' = att[u].seed
    /\ hs' = u
    /\ IF px[gen].opened THEN Authenticate(u, px)
       ELSE /\ att' = [att EXCEPT ![u].pc = "opening", ![u].gen = gen]
            /\ UNCHANGED <<auth, hyd>>
    /\ UNCHANGED <<client, cident, gsess, gen, px, idx, rows, turn, doc, history>>

\* A fetch failed, a status or the verdict was bad: the seed's identity stays
\* in the client, the login screen offers another try.
UnlockFailed(u) ==
    /\ att[u].pc \in {"init", "onboarding", "attesting", "sealing", "refused"}
    /\ att' = [att EXCEPT ![u].pc = "failed"]
    /\ UNCHANGED <<client, cident, ident, hs, auth, gsess, storeVars, turn, doc, history>>

\* INIT answered: the worker keeps a database that it already has open.
StoreOpened(u) ==
    LET g == att[u].gen IN
    /\ att[u].pc = "opening"
    /\ g = gen
    /\ px' = [px EXCEPT ![g].opened = TRUE,
                        ![g].ready = IF @ = "pending" THEN "resolved" ELSE @,
                        ![g].db = IF @ = None THEN att[u].seed ELSE @]
    /\ Authenticate(u, px')
    /\ UNCHANGED <<client, cident, ident, hs, gsess, gen, idx, rows, turn, doc, history>>

\* Mutant: a failed open leaves `ready` pending.
OpenFailedSilently(u) ==
    /\ att[u].pc = "opening"
    /\ px' = px
    /\ Authenticate(u, px')
    /\ UNCHANGED <<client, cident, ident, hs, gsess, gen, idx, rows, turn, doc, history>>

\* INIT failed, or its proxy was terminated: `ready` is rejected, the error is
\* swallowed and the user is authenticated without a store.
OpenFailed(u) ==
    /\ att[u].pc = "opening"
    /\ px' = [px EXCEPT ![att[u].gen].ready = IF @ = "pending" THEN "rejected" ELSE @]
    /\ Authenticate(u, px')
    /\ UNCHANGED <<client, cident, ident, hs, gsess, gen, idx, rows, turn, doc, history>>

\* Mutant: the store proxy survives the lock.
LockKeepsStore ==
    /\ auth # None
    /\ gen < MaxUnlocks
    /\ ident' = None
    /\ hs' = None
    /\ client' = None
    /\ auth' = None
    /\ hyd' = {}
    /\ turn' = [t \in Turns |-> [turn[t] EXCEPT !.cancelled = @ \/ turn[t].pc # "idle"]]
    /\ mixed' = (mixed /\ Overlapping)
    /\ UNCHANGED <<cident, gsess, att, gen, px, idx, rows, doc, mixedTurns>>

\* lock() and logout(): synchronous.  The proxy and the RAG index are dropped,
\* and leaving the chat view runs the cleanup of every running submission.
Lock ==
    /\ auth # None
    /\ gen < MaxUnlocks
    /\ ident' = None
    /\ hs' = None
    /\ client' = None
    /\ auth' = None
    /\ gen' = gen + 1
    /\ px' = [px EXCEPT ![gen] = NewProxy]
    /\ hyd' = {}
    /\ turn' = [t \in Turns |-> [turn[t] EXCEPT !.cancelled = @ \/ turn[t].pc # "idle"]]
    /\ mixed' = (mixed /\ Overlapping)
    /\ UNCHANGED <<cident, gsess, att, idx, rows, doc, mixedTurns>>

\* hydrateRagIndex: the vectors of the open store become the RAG index.
Hydrate(g) ==
    /\ g \in hyd
    /\ idx' = [idx EXCEPT ![g] = px[g].db]
    /\ hyd' = hyd \ {g}
    /\ UNCHANGED <<authVars, gen, px, rows, turn, doc, history>>

-----------------------------------------------------------------------------
(* useSSE: gathering, sealing and sending the prompt of one submission *)

Held(s) == IF s = None THEN {} ELSE {s}
Alive(g) == g = gen
OpenGen == IF px[gen].opened THEN gen ELSE None

\* setup(): refused when locked; else the index of now is searched once it is
\* hydrated and the query is embedded.
Submit(t) ==
    /\ auth # None
    /\ turn[t].pc = "idle"
    /\ turn' = [turn EXCEPT ![t].by = auth, ![t].gen = gen,
                            ![t].pc = IF ident # None /\ hs # None THEN "rag" ELSE "failed"]
    /\ hyd' = IF px[gen].opened THEN hyd \cup {gen} ELSE hyd
    /\ mixedTurns' = IF mixed THEN mixedTurns \cup {t} ELSE mixedTurns
    /\ UNCHANGED <<authVars, gen, px, idx, rows, doc, mixed>>

\* Context found, or augmentation failed: the memories are asked for next, from
\* the proxy of now if it is open.
Augmented(t, hits) ==
    /\ turn[t].pc = "rag"
    /\ turn[t].gen \notin hyd
    /\ turn' = [turn EXCEPT ![t].pc = "memory", ![t].gen = OpenGen,
                            ![t].parts = @ \cup IF hits THEN Held(idx[turn[t].gen]) ELSE {}]
    /\ UNCHANGED <<authVars, storeVars, doc, history>>

\* What a read of the captured proxy returns; a terminated one rejects.
ReadOf(g) == IF g # None /\ Alive(g) THEN Held(px[g].db) ELSE {}

Injected(t) ==
    /\ turn[t].pc = "memory"
    /\ turn' = [turn EXCEPT ![t].pc = "skill", ![t].gen = OpenGen,
                            ![t].parts = @ \cup ReadOf(turn[t].gen)]
    /\ UNCHANGED <<authVars, storeVars, doc, history>>

\* sealChat, as far as its WebCrypto digest: under the session of now.
SealChat(t, parts) ==
    IF ident # None /\ hs # None
    THEN turn' = [turn EXCEPT ![t].pc = "sealed", ![t].parts = parts,
                              ![t].acct = ident, ![t].sk = hs]
    ELSE turn' = [turn EXCEPT ![t].pc = "failed"]

\* Only a submission to an agent has an agent_id.
SkillInjected(t, agent) ==
    LET parts == turn[t].parts \cup ReadOf(turn[t].gen) IN
    /\ turn[t].pc = "skill"
    /\ IF agent
       THEN turn' = [turn EXCEPT ![t].pc = "agent", ![t].gen = gen, ![t].parts = parts]
       ELSE SealChat(t, parts)
    /\ UNCHANGED <<authVars, storeVars, doc, history>>

\* getAgent does not ask whether the store is open: it waits for `ready`.  The
\* agent's id is found in its author's store only; it may delegate to `chain`
\* subagents.
AgentResolved(t, found, chain) ==
    LET g == turn[t].gen
        agent == found /\ px[g].ready = "resolved" /\ ReadOf(g) = {turn[t].by}
        parts == turn[t].parts \cup IF agent THEN ReadOf(g) ELSE {} IN
    /\ turn[t].pc = "agent"
    /\ Alive(g) => px[g].ready # "pending"
    /\ chain > 0 => agent
    /\ IF chain > 0
       THEN turn' = [turn EXCEPT ![t].pc = "listing", ![t].parts = parts, ![t].left = chain]
       ELSE SealChat(t, parts)
    /\ UNCHANGED <<authVars, storeVars, doc, history>>

\* The loop of orchestrateSubagents: the next getAgent goes to the proxy that
\* was captured at its start.  A terminated one has a new `ready`, which nothing
\* resolves: ~live waits for ever.
NextSubagent(t, left) ==
    IF left > 0
    THEN turn' = [turn EXCEPT ![t].pc = "resolving", ![t].left = left,
                              ![t].live = Alive(turn[t].gen)]
    ELSE SealChat(t, turn[t].parts)

\* listAgents answered or was rejected.
Listed(t) ==
    /\ turn[t].pc = "listing"
    /\ NextSubagent(t, turn[t].left)
    /\ UNCHANGED <<authVars, storeVars, doc, history>>

\* runSealedCompletion seals the prompt under the session of now; a subagent
\* that is missing, and a lookup that the lock rejected, are skipped.
SubagentResolved(t, found) ==
    /\ turn[t].pc = "resolving"
    /\ turn[t].live
    /\ IF found /\ Alive(turn[t].gen) /\ ident # None /\ hs # None
       THEN turn' = [turn EXCEPT ![t].pc = "consulting", ![t].acct = ident]
       ELSE NextSubagent(t, turn[t].left - 1)
    /\ UNCHANGED <<authVars, storeVars, doc, history>>

\* signRequest throws when locked; else the sealed prompt is posted.
SubagentSend(t) ==
    /\ turn[t].pc = "consulting"
    /\ IF ident = None THEN NextSubagent(t, turn[t].left - 1)
       ELSE turn' = [turn EXCEPT ![t].pc = "awaiting",
                                 ![t].asked = @ \cup {[acct |-> turn[t].acct, parts |-> turn[t].parts]}]
    /\ UNCHANGED <<authVars, storeVars, doc, history>>

\* An answer, an error status or a failed fetch.
SubagentAnswered(t) ==
    /\ turn[t].pc = "awaiting"
    /\ NextSubagent(t, turn[t].left - 1)
    /\ UNCHANGED <<authVars, storeVars, doc, history>>

\* Mutant: the submission does not ask whether it was cancelled meanwhile.
SendUncancelled(t) ==
    /\ turn[t].pc = "sealed"
    /\ turn' = [turn EXCEPT ![t].hdr = ident,
                            ![t].pc = IF ident = None THEN "failed" ELSE "sent"]
    /\ UNCHANGED <<authVars, storeVars, doc, history>>

\* signRequest with the identity of now, then the cancelled check, then stream().
Send(t) ==
    /\ turn[t].pc = "sealed"
    /\ turn' = [turn EXCEPT ![t].hdr = ident,
                            ![t].pc = IF ident = None THEN "failed"
                                      ELSE IF turn[t].cancelled THEN "dropped" ELSE "sent"]
    /\ UNCHANGED <<authVars, storeVars, doc, history>>

-----------------------------------------------------------------------------
(* useRag: ingesting one document *)

Ingest(d) ==
    /\ auth # None
    /\ doc[d].pc = "idle"
    /\ doc' = [doc EXCEPT ![d].pc = "embedding", ![d].by = auth]
    /\ UNCHANGED <<authVars, storeVars, turn, history>>

\* Parsed and embedded: storeVectors is called on the proxy of now.
Embedded(d) ==
    /\ doc[d].pc = "embedding"
    /\ doc' = [doc EXCEPT ![d].pc = "storing", ![d].gen = gen]
    /\ UNCHANGED <<authVars, storeVars, turn, history>>

\* Once `ready` is resolved the vectors are written and the index re-hydrated.
Stored(d) ==
    LET g == doc[d].gen IN
    /\ doc[d].pc = "storing"
    /\ Alive(g)
    /\ px[g].ready = "resolved"
    /\ rows' = [rows EXCEPT ![px[g].db] = @ \cup {d}]
    /\ hyd' = hyd \cup {gen}
    /\ doc' = [doc EXCEPT ![d].pc = "done"]
    /\ UNCHANGED <<authVars, gen, px, idx, turn, history>>

\* Parsing or embedding failed, or the store could not be opened or was locked.
IngestFailed(d) ==
    /\ \/ doc[d].pc = "embedding"
       \/ doc[d].pc = "storing" /\ (~Alive(doc[d].gen) \/ px[doc[d].gen].ready = "rejected")
    /\ doc' = [doc EXCEPT ![d].pc = "error"]
    /\ UNCHANGED <<authVars, storeVars, turn, history>>

-----------------------------------------------------------------------------
UnlockStep(u) ==
    \/ UnlockSeed(u) \/ Onboarded(u) \/ EstablishSession(u)
    \/ PostSession(u, TRUE) \/ PostSession(u, FALSE)
    \/ Unlocked(u) \/ UnlockFailed(u) \/ StoreOpened(u) \/ OpenFailed(u)

TurnStep(t) ==
    \/ Augmented(t, TRUE) \/ Augmented(t, FALSE)
    \/ Injected(t) \/ SkillInjected(t, TRUE) \/ SkillInjected(t, FALSE)
    \/ \E found \in BOOLEAN, chain \in 0..MaxSubagents : AgentResolved(t, found, chain)
    \/ Listed(t) \/ SubagentResolved(t, TRUE) \/ SubagentResolved(t, FALSE)
    \/ SubagentSend(t) \/ SubagentAnswered(t)
    \/ Send(t)

IngestStep(d) == Ingest(d) \/ Embedded(d) \/ Stored(d) \/ IngestFailed(d)

Next ==
    \/ \E u \in Attempts : UnlockStep(u) \/ \E s \in Seeds : Unlock(u, s)
    \/ Lock
    \/ \E g \in Gens : Hydrate(g)
    \/ \E t \in Turns : Submit(t) \/ TurnStep(t)
    \/ \E d \in Docs : IngestStep(d)

Spec == Init /\ [][Next]_vars

\* Workers, WebCrypto and fetches answer, and the tab's event loop runs every
\* continuation that is ready.
Fairness ==
    /\ \A u \in Attempts : WF_vars(UnlockStep(u))
    /\ \A g \in Gens : WF_vars(Hydrate(g))
    /\ \A t \in Turns : WF_vars(TurnStep(t))

FairSpec == Spec /\ Fairness

-----------------------------------------------------------------------------
(***************************************************************************)
(* Every variable of the tab has its type.                                 *)
(***************************************************************************)
TypeOK ==
    /\ client \in Attempts \cup {None} /\ hs \in Attempts \cup {None}
    /\ ident \in Seeds \cup {None} /\ auth \in Seeds \cup {None}
    /\ cident \in [Attempts -> Seeds \cup {None}]
    /\ gsess \in [Seeds -> Attempts \cup {None}]
    /\ att \in [Attempts -> [pc : {"idle", "init", "onboarding", "attesting", "sealing",
                                   "established", "refused", "opening", "done", "failed"},
                             seed : Seeds \cup {None}, client : Attempts \cup {None},
                             wmk : Seeds \cup {None}, gen : Gens \cup {None}]]
    /\ gen \in Gens /\ hyd \subseteq Gens
    /\ px \in [Gens -> [opened : BOOLEAN, ready : {"pending", "resolved", "rejected"},
                        db : Seeds \cup {None}]]
    /\ idx \in [Gens -> Seeds \cup {None}]
    /\ rows \in [Seeds -> SUBSET Docs]
    /\ turn \in [Turns -> [pc : {"idle", "rag", "memory", "skill", "agent", "listing",
                                 "resolving", "consulting", "awaiting", "sealed", "sent",
                                 "dropped", "failed"},
                           by : Seeds \cup {None}, gen : Gens \cup {None}, parts : SUBSET Seeds,
                           acct : Seeds \cup {None}, sk : Attempts \cup {None},
                           hdr : Seeds \cup {None}, cancelled : BOOLEAN,
                           left : 0..MaxSubagents, live : BOOLEAN,
                           asked : SUBSET [acct : Seeds, parts : SUBSET Seeds]]]
    /\ doc \in [Docs -> [pc : {"idle", "embedding", "storing", "done", "error"},
                         by : Seeds \cup {None}, gen : Gens \cup {None}]]
    /\ mixed \in BOOLEAN /\ mixedTurns \subseteq Turns

(***************************************************************************)
(* AuthContext.lock: the store that is open belongs to the identity that   *)
(* is unlocked, however often the tab is locked and unlocked with another  *)
(* seed ("identity B would read/write A's encrypted DB" otherwise).        *)
(* Unlocks that overlap do not keep it: see "Disagreements" in the README. *)
(***************************************************************************)
StoreMatchesIdentity ==
    auth # None /\ px[gen].opened => px[gen].db = auth /\ ident = auth

(***************************************************************************)
(* caladonUnlock: the session key kept for chat turns is the one that the  *)
(* gateway holds for the identity that is kept with it.                    *)
(***************************************************************************)
SessionMatchesIdentity == ident # None /\ hs # None => gsess[ident] = hs

(***************************************************************************)
(* useSSE: a prompt that is sent is sealed and signed for the identity that*)
(* typed it, and holds context and memories of that identity's store only, *)
(* even when the tab changed hands while the prompt was being gathered; a  *)
(* prompt that was sent to a subagent before is sealed for its author too. *)
(* A submission that was under way while unlocks overlapped is excepted:   *)
(* the second of them sets identity and session and cancels nothing.       *)
(***************************************************************************)
SentAsAuthor ==
    \A t \in Turns \ mixedTurns :
        /\ turn[t].pc = "sent" =>
            /\ turn[t].acct = turn[t].by /\ turn[t].hdr = turn[t].by
            /\ turn[t].parts \subseteq {turn[t].by}
        /\ \A q \in turn[t].asked : q.acct = turn[t].by

(***************************************************************************)
(* retrieval.ts: a store that does not open never blocks a send: every     *)
(* submission is sent, fails or is cancelled, subagents included.          *)
(***************************************************************************)
SubmissionEnds ==
    \A t \in Turns : turn[t].pc # "idle" ~>
        turn[t].pc \in {"sent", "dropped", "failed"} \/ turn[t].cancelled

(***************************************************************************)
(* store.worker.ts:113-114: "each identity's device_store_key gets its OWN *)
(* encrypted file, so different identities on one device never collide":   *)
(* a store file holds documents of its own identity only.                  *)
(***************************************************************************)
RowsOfOwner == \A s \in Seeds : \A d \in rows[s] : doc[d].by = s

(***************************************************************************)
(* store/client.ts:364-365: the store is torn down on lock "so a re-unlock *)
(* with a different seed cannot read or write the previous identity's      *)
(* encrypted store": what is sent to a subagent was read from the store of *)
(* the submission's author only.                                           *)
(* The code does not keep this: see "Disagreements" in the README.         *)
(***************************************************************************)
SubagentsAsAuthor ==
    \A t \in Turns : \A q \in turn[t].asked : q.parts \subseteq {turn[t].by}

(***************************************************************************)
(* A tab is of one identity: store, session and user belong together,      *)
(* whatever is locked, unlocked or answered late.  Unlocks that overlap mix*)
(* the tab; the next lock with no unlock in flight makes it whole again,   *)
(* whatever the mixed tab has left in the client, the stores and the turns.*)
(***************************************************************************)
TabIsOneIdentity ==
    TypeOK /\ (~mixed => StoreMatchesIdentity /\ SessionMatchesIdentity)
=============================================================================
