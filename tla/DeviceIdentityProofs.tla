------------------------- MODULE DeviceIdentityProofs -------------------------
(***************************************************************************)
(* Proofs about DeviceIdentity for every number of seeds, unlocks, turns,  *)
(* subagents and documents, whether or not unlocks overlap.                *)
(***************************************************************************)
EXTENDS DeviceIdentity, TLAPS

-----------------------------------------------------------------------------
(* The inductive invariant *)

AttRecords == [pc : {"idle", "init", "onboarding", "attesting", "sealing",
                     "established", "refused", "opening", "done", "failed"},
               seed : Seeds \cup {None}, client : Attempts \cup {None},
               wmk : Seeds \cup {None}, gen : Gens \cup {None}]
ProxyRecords == [opened : BOOLEAN, ready : {"pending", "resolved", "rejected"},
                 db : Seeds \cup {None}]
TurnRecords == [pc : {"idle", "rag", "memory", "skill", "agent", "listing",
                      "resolving", "consulting", "awaiting", "sealed", "sent",
                      "dropped", "failed"},
                by : Seeds \cup {None}, gen : Gens \cup {None}, parts : SUBSET Seeds,
                acct : Seeds \cup {None}, sk : Attempts \cup {None},
                hdr : Seeds \cup {None}, cancelled : BOOLEAN,
                left : 0..MaxSubagents, live : BOOLEAN,
                asked : SUBSET [acct : Seeds, parts : SUBSET Seeds]]
DocRecords == [pc : {"idle", "embedding", "storing", "done", "error"},
               by : Seeds \cup {None}, gen : Gens \cup {None}]

Types ==
    /\ client \in Attempts \cup {None} /\ hs \in Attempts \cup {None}
    /\ ident \in Seeds \cup {None} /\ auth \in Seeds \cup {None}
    /\ cident \in [Attempts -> Seeds \cup {None}]
    /\ gsess \in [Seeds -> Attempts \cup {None}]
    /\ att \in [Attempts -> AttRecords]
    /\ gen \in Gens /\ hyd \subseteq Gens
    /\ px \in [Gens -> ProxyRecords]
    /\ idx \in [Gens -> Seeds \cup {None}]
    /\ rows \in [Seeds -> SUBSET Docs]
    /\ turn \in [Turns -> TurnRecords]
    /\ doc \in [Docs -> DocRecords]
    /\ mixed \in BOOLEAN /\ mixedTurns \subseteq Turns

Running(r) == r.pc \notin {"idle", "done", "failed"}
Delegating == {"listing", "resolving", "consulting", "awaiting"}

\* What holds of every attempt, turn, document and store, whichever unlocks overlap.
AttFormed(r) ==
    /\ r.pc # "idle" => r.seed \in Seeds
    /\ Running(r) => r.client \in Attempts
    /\ r.pc = "opening" => r.gen \in Gens /\ r.gen <= gen

TurnFormed(r) ==
    /\ r.pc \in {"rag", "agent"} \cup Delegating => r.gen \in Gens
    /\ r.pc \in Delegating => 0 < r.left
    /\ r.pc = "consulting" => r.acct \in Seeds

DocSound(r) == r.pc = "storing" => r.gen \in Gens

StoreFormed ==
    /\ \A g \in Gens : gen < g => px[g] = NewProxy /\ idx[g] = None
    /\ hyd \subseteq {gen}

Basic ==
    /\ Types
    /\ \A u \in Attempts : AttFormed(att[u])
    /\ \A t \in Turns : TurnFormed(turn[t])
    /\ \A d \in Docs : DocSound(doc[d])
    /\ StoreFormed

(***************************************************************************)
(* One run of AuthContext.unlock: while it runs, nobody is authenticated,  *)
(* the shared client is the one it began with and holds its seed; the key  *)
(* that was established is the gateway's, and a store that is being opened *)
(* is the current one.                                                     *)
(***************************************************************************)
AttSound(u, r) ==
    /\ r.pc # "idle" => r.seed \in Seeds
    /\ Running(r) => r.client = client /\ client \in Attempts /\ auth = None
    /\ r.pc \in {"onboarding", "attesting", "sealing", "established", "opening"} =>
           cident[client] = r.seed
    /\ r.pc = "sealing" => r.wmk = r.seed
    /\ r.pc \in {"established", "opening"} => gsess[r.seed] = u
    /\ r.pc = "opening" => ident = r.seed /\ hs = u /\ r.gen = gen

\* The tab: one unlock at a time, and an identity is kept only by the unlock that is opening
\* its store or by the authenticated user.
TabSound ==
    /\ \A u, v \in Attempts : Running(att[u]) /\ Running(att[v]) => u = v
    /\ (ident = None) <=> (hs = None)
    /\ auth # None => ident = auth
    /\ auth = None /\ ident # None => \E u \in Attempts : att[u].pc = "opening"
    /\ SessionMatchesIdentity

\* The store proxy and the RAG index in use are the current user's.
StoreSound ==
    /\ auth = None => px[gen] = NewProxy
    /\ px[gen].opened <=> px[gen].ready = "resolved"
    /\ px[gen].db = IF px[gen].ready = "resolved" THEN auth ELSE None
    /\ gen \in hyd => px[gen].ready = "resolved"
    /\ idx[gen] \in {None, auth}

(***************************************************************************)
(* One submission: until a lock cancels it the tab is its author's and it  *)
(* has read its author's store only; it delegates under its author's       *)
(* identity, because the agent was found in its author's store and a lock  *)
(* terminates the proxy of that store.                                     *)
(***************************************************************************)
TurnSound(r) ==
    /\ r.pc = "idle" => r.parts = {} /\ r.asked = {}
    /\ r.pc # "idle" => r.by \in Seeds
    /\ r.pc # "idle" /\ ~r.cancelled => auth = r.by /\ r.parts \subseteq {r.by}
    /\ r.pc = "rag" => r.gen \in Gens /\ (~r.cancelled => r.gen = gen)
    /\ r.pc = "sealed" /\ ~r.cancelled => r.acct = r.by
    /\ r.pc = "sent" => r.acct = r.by /\ r.hdr = r.by /\ r.parts \subseteq {r.by}
    /\ r.pc \in {"agent"} \cup Delegating => r.gen \in Gens
    /\ r.pc \in Delegating => r.gen <= gen /\ (r.gen = gen => auth = r.by) /\ 0 < r.left
    /\ r.pc = "consulting" => r.acct = r.by
    /\ \A q \in r.asked : q.acct = r.by

\* The submissions that were not under way while the tab was mixed.
TurnsSound == \A t \in Turns \ mixedTurns : TurnSound(turn[t])

\* A tab that is not mixed.
TabInv ==
    /\ Basic
    /\ \A u \in Attempts : AttSound(u, att[u])
    /\ TabSound
    /\ StoreSound
    /\ TurnsSound

\* In a mixed tab the other submissions have ended, and a lock has cancelled them before.
Marked ==
    mixed => \A t \in Turns \ mixedTurns :
        turn[t].pc = "idle" \/ (~Gathering(turn[t]) /\ turn[t].cancelled)

IInv == Basic /\ Marked /\ TurnsSound /\ (~mixed => TabInv)

LEMMA NoneIsNew == None \notin Seeds /\ None \notin Gens /\ None \notin Attempts
                   /\ Attempts \subseteq Gens /\ Gens \subseteq Nat /\ 0 \in Gens
  BY NoneAssumption, UnlocksAssumption DEF Attempts, Gens

-----------------------------------------------------------------------------
(* Types, and what is well formed in every tab *)

LEMMA BasicInitial == Init => Basic
<1> SUFFICES ASSUME Init PROVE Basic
    OBVIOUS
<1> DEFINE a == [pc |-> "idle", seed |-> None, client |-> None, wmk |-> None, gen |-> None]
           r == [pc |-> "idle", by |-> None, gen |-> None, parts |-> {},
                 acct |-> None, sk |-> None, hdr |-> None, cancelled |-> FALSE,
                 left |-> 0, live |-> FALSE, asked |-> {}]
           d == [pc |-> "idle", by |-> None, gen |-> None]
<1>1. a \in AttRecords /\ d \in DocRecords /\ NewProxy \in ProxyRecords
      BY DEF AttRecords, DocRecords, ProxyRecords, NewProxy
<1>2. r \in TurnRecords
  <2>1. 0 \in 0..MaxSubagents /\ {} \in SUBSET Seeds
        /\ {} \in SUBSET [acct : Seeds, parts : SUBSET Seeds]
        BY SubagentsAssumption
  <2> QED BY <2>1 DEF TurnRecords
<1>3. Types
      BY <1>1, <1>2, NoneIsNew DEF Init, Types
<1>4. AttFormed(a) /\ TurnFormed(r) /\ DocSound(d)
      BY DEF AttFormed, TurnFormed, DocSound, Running, Delegating
<1>5. /\ \A u \in Attempts : att[u] = a
      /\ \A t \in Turns : turn[t] = r
      /\ \A x \in Docs : doc[x] = d
      BY DEF Init
<1>6. StoreFormed
      BY DEF Init, StoreFormed
<1> HIDE DEF a, r, d
<1> QED BY <1>3, <1>4, <1>5, <1>6 DEF Basic

\* An attempt, a submission or a document takes a well-formed step.
LEMMA AttemptForms ==
    ASSUME Basic, NEW u \in Attempts, NEW r \in AttRecords, AttFormed(r),
           att' = [att EXCEPT ![u] = r], gen' = gen
    PROVE  att' \in [Attempts -> AttRecords] /\ \A v \in Attempts : AttFormed(att[v])'
<1>1. att' \in [Attempts -> AttRecords] /\ \A v \in Attempts : AttFormed(att'[v])
      BY DEF Basic, Types
<1> QED BY <1>1 DEF AttFormed

LEMMA TurnForms ==
    ASSUME Basic, NEW t \in Turns, NEW r \in TurnRecords, TurnFormed(r),
           turn' = [turn EXCEPT ![t] = r]
    PROVE  turn' \in [Turns -> TurnRecords] /\ \A x \in Turns : TurnFormed(turn'[x])
  BY DEF Basic, Types

LEMMA DocForms ==
    ASSUME Basic, NEW d \in Docs, NEW r \in DocRecords, DocSound(r),
           doc' = [doc EXCEPT ![d] = r]
    PROVE  doc' \in [Docs -> DocRecords] /\ \A x \in Docs : DocSound(doc'[x])
  BY DEF Basic, Types

LEMMA UnlockStartForms ==
    ASSUME Basic, NEW u \in Attempts, NEW s \in Seeds, Unlock(u, s)
    PROVE  Basic'
<1> DEFINE c == IF client = None THEN u ELSE client
           r == [att[u] EXCEPT !.pc = "init", !.seed = s, !.client = c]
<1>1. /\ client' = c /\ att' = [att EXCEPT ![u] = r]
      /\ UNCHANGED <<cident, ident, hs, auth, gsess, storeVars, turn, doc>>
      BY DEF Unlock
<1>2. c \in Attempts
      BY DEF Basic, Types
<1>3. mixed' \in BOOLEAN
      BY DEF Unlock, Overlapping
<1>4. mixedTurns' \subseteq Turns
      BY DEF Unlock, Basic, Types
<1> HIDE DEF c
<1>5. r \in AttRecords /\ r.pc = "init" /\ r.seed = s /\ r.client = c
      BY <1>2 DEF Basic, Types, AttRecords
<1> HIDE DEF r
<1>6. AttFormed(r)
      BY <1>2, <1>5 DEF AttFormed
<1>7. att' \in [Attempts -> AttRecords] /\ \A v \in Attempts : AttFormed(att[v])'
      BY <1>1, <1>5, <1>6, AttemptForms DEF storeVars
<1>8. Types'
      BY <1>1, <1>2, <1>3, <1>4, <1>7 DEF Basic, Types, storeVars
<1>9. StoreFormed'
      BY <1>1 DEF Basic, StoreFormed, storeVars
<1> QED BY <1>1, <1>7, <1>8, <1>9 DEF Basic

LEMMA UnlockForms ==
    ASSUME Basic, NEW u \in Attempts, UnlockStep(u)
    PROVE  Basic'
<1> DEFINE a == att[u]
<1>0. a \in AttRecords /\ AttFormed(a) /\ gen \in Gens /\ gen \in Nat /\ gen <= gen
      BY NoneIsNew DEF Basic, Types
<1>a. a.pc \notin {"idle", "done", "failed"} => a.seed \in Seeds /\ a.client \in Attempts
      BY <1>0 DEF AttFormed, Running
<1>1. ASSUME NEW r \in AttRecords, AttFormed(r), att' = [att EXCEPT ![u] = r],
             UNCHANGED <<client, gen, idx, rows, turn, doc, history>>,
             cident' \in [Attempts -> Seeds \cup {None}], gsess' \in [Seeds -> Attempts \cup {None}],
             ident' \in Seeds \cup {None}, hs' \in Attempts \cup {None}, auth' \in Seeds \cup {None},
             px' \in [Gens -> ProxyRecords], \A g \in Gens : gen < g => px'[g] = px[g],
             hyd' \subseteq hyd \cup {gen}
      PROVE  Basic'
  <2>1. att' \in [Attempts -> AttRecords] /\ \A v \in Attempts : AttFormed(att[v])'
        BY <1>1, AttemptForms
  <2>2. StoreFormed'
        BY <1>1 DEF Basic, StoreFormed
  <2>3. Types'
        BY <1>1, <1>0, <2>1, <2>2 DEF Basic, Types, history, StoreFormed
  <2> QED BY <1>1, <2>1, <2>2, <2>3 DEF Basic
\* Before the store: nothing but the attempt, the client's identity and the gateway.
<1>2. ASSUME NEW r \in AttRecords, AttFormed(r), att' = [att EXCEPT ![u] = r],
             UNCHANGED <<client, ident, hs, auth, storeVars, turn, doc, history>>,
             cident' \in [Attempts -> Seeds \cup {None}], gsess' \in [Seeds -> Attempts \cup {None}]
      PROVE  Basic'
      BY <1>1, <1>2 DEF Basic, Types, storeVars
<1>b. cident \in [Attempts -> Seeds \cup {None}] /\ gsess \in [Seeds -> Attempts \cup {None}]
      BY DEF Basic, Types
<1> HIDE DEF a
<1>3. CASE UnlockSeed(u)
  <2> DEFINE r == [a EXCEPT !.pc = "onboarding"]
  <2>1. /\ a.pc = "init" /\ att' = [att EXCEPT ![u] = r] /\ cident' = [cident EXCEPT ![a.client] = a.seed]
        /\ UNCHANGED <<client, ident, hs, auth, gsess, storeVars, turn, doc, history>>
        BY <1>3 DEF UnlockSeed, a
  <2>2. r \in AttRecords /\ r.pc = "onboarding" /\ r.seed = a.seed /\ r.client = a.client
        BY <1>0 DEF AttRecords
  <2> HIDE DEF r
  <2>3. AttFormed(r) /\ cident' \in [Attempts -> Seeds \cup {None}] /\ gsess' = gsess
        BY <1>a, <1>b, <2>1, <2>2 DEF AttFormed
  <2> QED BY <1>2, <1>b, <2>1, <2>2, <2>3
<1>4. CASE Onboarded(u) \/ UnlockFailed(u)
  <2>1. PICK p \in {"attesting", "failed"} :
          /\ a.pc \notin {"idle", "done", "failed"} /\ att' = [att EXCEPT ![u] = [a EXCEPT !.pc = p]]
          /\ UNCHANGED <<client, cident, ident, hs, auth, gsess, storeVars, turn, doc, history>>
        BY <1>4 DEF Onboarded, UnlockFailed, a
  <2> DEFINE r == [a EXCEPT !.pc = p]
  <2>2. r \in AttRecords /\ r.pc = p /\ r.seed = a.seed /\ r.client = a.client
        BY <1>0 DEF AttRecords
  <2>3. att' = [att EXCEPT ![u] = r]
        BY <2>1
  <2> HIDE DEF r
  <2>4. AttFormed(r)
        BY <1>a, <2>1, <2>2 DEF AttFormed
  <2> QED BY <1>2, <1>b, <2>1, <2>2, <2>3, <2>4
<1>5. CASE EstablishSession(u)
  <2> DEFINE w == cident[a.client]
             r == [a EXCEPT !.pc = "sealing", !.wmk = w]
  <2>1. /\ a.pc = "attesting" /\ att' = [att EXCEPT ![u] = r]
        /\ UNCHANGED <<client, cident, ident, hs, auth, gsess, storeVars, turn, doc, history>>
        BY <1>5 DEF EstablishSession, a
  <2>2. w \in Seeds \cup {None}
        BY <1>a, <1>b, <2>1
  <2> HIDE DEF w
  <2>3. r \in AttRecords /\ r.pc = "sealing" /\ r.seed = a.seed /\ r.client = a.client
        BY <1>0, <2>2 DEF AttRecords
  <2> HIDE DEF r
  <2>4. AttFormed(r)
        BY <1>a, <2>1, <2>3 DEF AttFormed
  <2> QED BY <1>2, <1>b, <2>1, <2>3, <2>4
<1>6. ASSUME NEW served \in BOOLEAN, PostSession(u, served) PROVE Basic'
  <2> DEFINE w == cident[a.client]
             ok == served /\ a.wmk = w
             p == IF ok THEN "established" ELSE "refused"
             r == [a EXCEPT !.pc = p]
  <2>1. /\ a.pc = "sealing" /\ att' = [att EXCEPT ![u] = r]
        /\ gsess' = IF ok THEN [gsess EXCEPT ![w] = u] ELSE gsess
        /\ UNCHANGED <<client, cident, ident, hs, auth, storeVars, turn, doc, history>>
        BY <1>6 DEF PostSession, a
  <2>2. p \in {"established", "refused"}
        OBVIOUS
  <2> HIDE DEF p, w, ok
  <2>3. r \in AttRecords /\ r.pc = p /\ r.seed = a.seed /\ r.client = a.client
        BY <1>0, <2>2 DEF AttRecords
  <2>4. gsess' \in [Seeds -> Attempts \cup {None}]
        BY <1>b, <2>1
  <2> HIDE DEF r
  <2>5. AttFormed(r)
        BY <1>a, <2>1, <2>2, <2>3 DEF AttFormed
  <2> QED BY <1>2, <1>b, <2>1, <2>3, <2>4, <2>5
<1>c. px \in [Gens -> ProxyRecords] /\ ident \in Seeds \cup {None} /\ hs \in Attempts \cup {None}
      /\ auth \in Seeds \cup {None}
      BY DEF Basic, Types
<1>7. CASE Unlocked(u)
  <2>1. PICK p \in {"opening", "done"} :
          /\ att' = [att EXCEPT ![u] = [a EXCEPT !.pc = p, !.gen = gen]]
          /\ auth' \in {auth, a.seed} /\ hyd' \subseteq hyd \cup {gen}
        BY <1>7 DEF Unlocked, Authenticate, a
  <2> DEFINE r == [a EXCEPT !.pc = p, !.gen = gen]
  <2>2. /\ a.pc = "established" /\ ident' = a.seed /\ hs' = u
        /\ UNCHANGED <<client, cident, gsess, gen, px, idx, rows, turn, doc, history>>
        BY <1>7 DEF Unlocked, a
  <2>3. r \in AttRecords /\ r.pc = p /\ r.seed = a.seed /\ r.client = a.client /\ r.gen = gen
        BY <1>0 DEF AttRecords
  <2>4. att' = [att EXCEPT ![u] = r]
        BY <2>1
  <2> HIDE DEF r
  <2>5. AttFormed(r)
        BY <1>0, <1>a, <2>2, <2>3 DEF AttFormed
  <2>6. auth' \in Seeds \cup {None} /\ ident' \in Seeds \cup {None} /\ hs' \in Attempts \cup {None}
        BY <1>a, <1>c, <2>1, <2>2
  <2> QED BY <1>1, <1>b, <1>c, <2>1, <2>2, <2>3, <2>4, <2>5, <2>6
<1>8. CASE StoreOpened(u) \/ OpenFailed(u)
  <2> DEFINE r == [a EXCEPT !.pc = "done", !.gen = gen]
  <2>1. /\ a.pc = "opening" /\ att' = [att EXCEPT ![u] = r] /\ auth' = a.seed
        /\ hyd' \subseteq hyd \cup {gen}
        /\ UNCHANGED <<client, cident, ident, hs, gsess, gen, idx, rows, turn, doc, history>>
        BY <1>8 DEF StoreOpened, OpenFailed, Authenticate, a
  <2>2. r \in AttRecords /\ r.pc = "done" /\ r.seed = a.seed
        BY <1>0 DEF AttRecords
  <2>3. a.gen \in Gens /\ a.gen <= gen
        BY <1>0, <2>1 DEF AttFormed
  <2>4. PICK x \in ProxyRecords : px' = [px EXCEPT ![a.gen] = x]
    <3>1. px[a.gen] \in ProxyRecords
          BY <1>c, <2>3
    <3>2. CASE StoreOpened(u)
      <4> DEFINE y == px[a.gen]
                 z == IF y.ready = "pending" THEN "resolved" ELSE y.ready
                 w == IF y.db = None THEN a.seed ELSE y.db
                 x == [y EXCEPT !.opened = TRUE, !.ready = z, !.db = w]
      <4>1. px' = [px EXCEPT ![a.gen] = x]
            BY <3>2, <1>c DEF StoreOpened, a
      <4>2. z \in {"pending", "resolved", "rejected"} /\ w \in Seeds \cup {None}
            BY <3>1, <1>a, <2>1 DEF ProxyRecords
      <4>a. y \in ProxyRecords
            BY <3>1
      <4> HIDE DEF z, w, y
      <4>3. x \in ProxyRecords
            BY <4>a, <4>2 DEF ProxyRecords
      <4> QED BY <4>1, <4>3
    <3>3. CASE OpenFailed(u)
      <4> DEFINE y == px[a.gen]
                 z == IF y.ready = "pending" THEN "rejected" ELSE y.ready
                 x == [y EXCEPT !.ready = z]
      <4>1. px' = [px EXCEPT ![a.gen] = x]
            BY <3>3, <1>c DEF OpenFailed, a
      <4>2. z \in {"pending", "resolved", "rejected"}
            BY <3>1 DEF ProxyRecords
      <4> HIDE DEF z
      <4>3. x \in ProxyRecords
            BY <3>1, <4>2 DEF ProxyRecords
      <4> QED BY <4>1, <4>3
    <3> QED BY <1>8, <3>2, <3>3
  <2>5. px' \in [Gens -> ProxyRecords] /\ \A g \in Gens : gen < g => px'[g] = px[g]
        BY <1>0, <1>c, <2>3, <2>4, NoneIsNew
  <2>6. AttFormed(r)
        BY <1>a, <2>1, <2>2 DEF AttFormed, Running
  <2>7. ident' \in Seeds \cup {None} /\ hs' \in Attempts \cup {None} /\ auth' \in Seeds \cup {None}
        BY <1>a, <1>c, <2>1
  <2> HIDE DEF r
  <2> QED BY <1>1, <1>b, <2>1, <2>2, <2>5, <2>6, <2>7
<1> QED BY <1>3, <1>4, <1>5, <1>6, <1>7, <1>8 DEF UnlockStep

LEMMA LockForms ==
    ASSUME Basic, Lock
    PROVE  Basic'
<1>0. /\ auth # None /\ gen \in Gens /\ gen < MaxUnlocks
      /\ ident' = None /\ hs' = None /\ client' = None /\ auth' = None
      /\ gen' = gen + 1 /\ px' = [px EXCEPT ![gen] = NewProxy] /\ hyd' = {}
      /\ turn' = [t \in Turns |-> [turn[t] EXCEPT !.cancelled = @ \/ turn[t].pc # "idle"]]
      /\ UNCHANGED <<cident, gsess, att, idx, rows, doc, mixedTurns>>
      BY DEF Lock, Basic, Types
<1>1. gen' \in Gens /\ gen < gen' /\ \A g \in Gens : gen' < g => gen < g
      BY <1>0, UnlocksAssumption DEF Gens
<1>2. mixed' \in BOOLEAN
      BY DEF Lock, Overlapping
<1>3. ASSUME NEW t \in Turns
      PROVE  turn'[t] \in TurnRecords /\ TurnFormed(turn'[t])
  <2> DEFINE q == turn[t]
             b == q.cancelled \/ q.pc # "idle"
             r == [q EXCEPT !.cancelled = b]
  <2>1. q \in TurnRecords /\ TurnFormed(q) /\ turn'[t] = r
        BY <1>0 DEF Basic, Types
  <2>2. b \in BOOLEAN
        BY <2>1 DEF TurnRecords
  <2>3. /\ r \in TurnRecords /\ r.pc = q.pc /\ r.gen = q.gen /\ r.left = q.left /\ r.acct = q.acct
    <3> HIDE DEF b, q
    <3> QED BY <2>1, <2>2 DEF TurnRecords
  <2> HIDE DEF r
  <2> QED BY <2>1, <2>3 DEF TurnFormed
<1>4. turn' \in [Turns -> TurnRecords]
      BY <1>0, <1>3
<1>5. px' \in [Gens -> ProxyRecords] /\ \A g \in Gens : gen' < g => px'[g] = px[g]
  <2>1. NewProxy \in ProxyRecords
        BY DEF ProxyRecords, NewProxy
  <2>2. \A g \in Gens : gen' < g => g # gen
        BY <1>0, <1>1, NoneIsNew
  <2> QED BY <1>0, <2>1, <2>2 DEF Basic, Types
<1>6. Types'
      BY <1>0, <1>1, <1>2, <1>4, <1>5 DEF Basic, Types
<1>7. StoreFormed'
      BY <1>0, <1>1, <1>5 DEF Basic, StoreFormed
<1>8. \A u \in Attempts : AttFormed(att[u])'
  <2> SUFFICES ASSUME NEW u \in Attempts PROVE AttFormed(att[u])'
      OBVIOUS
  <2>1. AttFormed(att[u])
        BY DEF Basic
  <2>2. \A g \in Gens : g <= gen => g <= gen'
        BY <1>0, NoneIsNew
  <2> QED BY <1>0, <2>1, <2>2 DEF AttFormed
<1> QED BY <1>0, <1>3, <1>6, <1>7, <1>8 DEF Basic

LEMMA HydrateForms ==
    ASSUME Basic, NEW g \in Gens, Hydrate(g)
    PROVE  Basic'
<1>1. g = gen /\ px[g].db \in Seeds \cup {None}
      BY DEF Hydrate, Basic, StoreFormed, Types, ProxyRecords
<1>2. idx' = [idx EXCEPT ![gen] = px[g].db] /\ hyd' = hyd \ {g}
      /\ UNCHANGED <<authVars, gen, px, rows, turn, doc, history>>
      BY <1>1 DEF Hydrate
<1>3. Types'
      BY <1>1, <1>2 DEF Basic, Types, authVars, history
<1>4. StoreFormed'
  <2>1. \A h \in Gens : gen < h => h # gen
        BY NoneIsNew DEF Basic, Types
  <2> QED BY <1>2, <2>1 DEF Basic, Types, StoreFormed
<1> QED BY <1>2, <1>3, <1>4 DEF Basic, AttFormed, authVars

LEMMA SubmitForms ==
    ASSUME Basic, NEW t \in Turns, Submit(t)
    PROVE  Basic'
<1> DEFINE q == turn[t]
           p == IF ident # None /\ hs # None THEN "rag" ELSE "failed"
           r == [q EXCEPT !.by = auth, !.gen = gen, !.pc = p]
<1>0. /\ auth \in Seeds /\ turn' = [turn EXCEPT ![t] = r] /\ q \in TurnRecords
      /\ hyd' \subseteq hyd \cup {gen}
      /\ UNCHANGED <<authVars, gen, px, idx, rows, doc, mixed>> /\ gen \in Gens
      BY DEF Basic, Types, Submit
<1>1. mixedTurns' \subseteq Turns
      BY DEF Basic, Types, Submit
<1>2. r \in TurnRecords /\ r.pc = p /\ r.gen = gen /\ p \in {"rag", "failed"}
      BY <1>0 DEF TurnRecords
<1> HIDE DEF r, p
<1>3. TurnFormed(r)
      BY <1>0, <1>2 DEF TurnFormed, Delegating
<1>4. turn' \in [Turns -> TurnRecords] /\ \A x \in Turns : TurnFormed(turn'[x])
      BY <1>0, <1>2, <1>3, TurnForms
<1>5. Types'
      BY <1>0, <1>1, <1>4 DEF Basic, Types, StoreFormed, authVars
<1>6. StoreFormed'
      BY <1>0 DEF Basic, StoreFormed
<1> QED BY <1>0, <1>4, <1>5, <1>6 DEF Basic, AttFormed, authVars

\* What a proxy or an index holds is a seed's.
LEMMA ReadsSeeds ==
    ASSUME Basic
    PROVE  /\ OpenGen \in Gens \cup {None} /\ gen \in Gens
           /\ \A g \in Gens \cup {None} : ReadOf(g) \subseteq Seeds
           /\ \A g \in Gens : Held(idx[g]) \subseteq Seeds
<1>1. ASSUME NEW g \in Gens PROVE px[g].db \in Seeds \cup {None} /\ idx[g] \in Seeds \cup {None}
      BY DEF Basic, Types, ProxyRecords
<1>2. gen \in Gens
      BY DEF Basic, Types
<1> QED BY <1>1, <1>2 DEF OpenGen, ReadOf, Held

LEMMA TurnStepForms ==
    ASSUME Basic, NEW t \in Turns, TurnStep(t)
    PROVE  Basic' /\ UNCHANGED <<authVars, storeVars, doc, history>>
<1> DEFINE q == turn[t]
           Moves == \E r \in TurnRecords : TurnFormed(r) /\ turn' = [turn EXCEPT ![t] = r]
<1>0. q \in TurnRecords /\ TurnFormed(q) /\ q.parts \in SUBSET Seeds /\ q.gen \in Gens \cup {None}
      /\ q.left \in 0..MaxSubagents
      BY DEF Basic, Types, TurnRecords
<1>a. OpenGen \in Gens \cup {None} /\ gen \in Gens /\ ReadOf(q.gen) \subseteq Seeds
      /\ (q.gen \in Gens => Held(idx[q.gen]) \subseteq Seeds)
      BY <1>0, ReadsSeeds
<1>b. ident \in Seeds \cup {None} /\ hs \in Attempts \cup {None}
      BY DEF Basic, Types
<1>1. UNCHANGED <<authVars, storeVars, doc, history>>
      BY DEF TurnStep, Augmented, Injected, SkillInjected, AgentResolved, Listed, SubagentResolved,
             SubagentSend, SubagentAnswered, Send
<1>2. ASSUME NEW p \in {"memory", "skill", "agent"}, NEW g \in Gens \cup {None}, p = "agent" => g \in Gens,
             NEW parts \in SUBSET Seeds,
             turn' = [turn EXCEPT ![t] = [q EXCEPT !.pc = p, !.gen = g, !.parts = parts]]
      PROVE  Moves
  <2> DEFINE r == [q EXCEPT !.pc = p, !.gen = g, !.parts = parts]
  <2>1. r \in TurnRecords /\ r.pc = p /\ r.gen = g
        BY <1>0 DEF TurnRecords
  <2>2. turn' = [turn EXCEPT ![t] = r]
        BY <1>2
  <2> HIDE DEF r
  <2>3. TurnFormed(r)
        BY <1>2, <2>1 DEF TurnFormed, Delegating
  <2> QED BY <2>1, <2>2, <2>3
<1>3. ASSUME NEW parts \in SUBSET Seeds, SealChat(t, parts) PROVE Moves
  <2>1. CASE ident # None /\ hs # None
    <3> DEFINE r == [q EXCEPT !.pc = "sealed", !.parts = parts, !.acct = ident, !.sk = hs]
    <3>1. turn' = [turn EXCEPT ![t] = r]
          BY <1>3, <2>1 DEF SealChat
    <3>2. r \in TurnRecords /\ r.pc = "sealed"
          BY <1>0, <1>b DEF TurnRecords
    <3> HIDE DEF r
    <3>3. TurnFormed(r)
          BY <3>2 DEF TurnFormed, Delegating
    <3> QED BY <3>1, <3>2, <3>3
  <2>2. CASE ~(ident # None /\ hs # None)
    <3> DEFINE r == [q EXCEPT !.pc = "failed"]
    <3>1. turn' = [turn EXCEPT ![t] = r]
          BY <1>3, <2>2 DEF SealChat
    <3>2. r \in TurnRecords /\ r.pc = "failed"
          BY <1>0 DEF TurnRecords
    <3> HIDE DEF r
    <3>3. TurnFormed(r)
          BY <3>2 DEF TurnFormed, Delegating
    <3> QED BY <3>1, <3>2, <3>3
  <2> QED BY <2>1, <2>2
<1>4. ASSUME NEW left \in 0..MaxSubagents, NextSubagent(t, left), q.pc \in Delegating PROVE Moves
  <2>1. CASE 0 < left
    <3> DEFINE b == Alive(q.gen)
               r == [q EXCEPT !.pc = "resolving", !.left = left, !.live = b]
    <3>1. turn' = [turn EXCEPT ![t] = r]
          BY <1>4, <2>1 DEF NextSubagent
    <3>2. b \in BOOLEAN
          BY DEF Alive
    <3> HIDE DEF b
    <3>3. r \in TurnRecords /\ r.pc = "resolving" /\ r.gen = q.gen /\ r.left = left
          BY <1>0, <3>2 DEF TurnRecords
    <3> HIDE DEF r
    <3>4. TurnFormed(r)
          BY <1>0, <1>4, <2>1, <3>3 DEF TurnFormed, Delegating
    <3> QED BY <3>1, <3>3, <3>4
  <2>2. CASE ~(0 < left)
    <3>1. SealChat(t, q.parts)
          BY <1>4, <2>2 DEF NextSubagent
    <3> QED BY <1>0, <1>3, <3>1
  <2> QED BY <2>1, <2>2
<1> HIDE DEF Moves
<1>c. q.pc \in Delegating => q.left - 1 \in 0..MaxSubagents
      BY <1>0, SubagentsAssumption DEF TurnFormed
<1>5. ASSUME NEW hits \in BOOLEAN, Augmented(t, hits) PROVE Moves
  <2> DEFINE parts == q.parts \cup IF hits THEN Held(idx[q.gen]) ELSE {}
  <2>1. q.pc = "rag"
        /\ turn' = [turn EXCEPT ![t] = [q EXCEPT !.pc = "memory", !.gen = OpenGen, !.parts = parts]]
        BY <1>5 DEF Augmented
  <2>2. parts \in SUBSET Seeds
        BY <1>0, <1>a, <2>1 DEF TurnFormed
  <2> HIDE DEF parts
  <2> QED BY <1>2, <1>a, <2>1, <2>2
<1>6. ASSUME Injected(t) PROVE Moves
  <2> DEFINE parts == q.parts \cup ReadOf(q.gen)
  <2>1. turn' = [turn EXCEPT ![t] = [q EXCEPT !.pc = "skill", !.gen = OpenGen, !.parts = parts]]
        BY <1>6 DEF Injected
  <2>2. parts \in SUBSET Seeds
        BY <1>0, <1>a
  <2> HIDE DEF parts
  <2> QED BY <1>2, <1>a, <2>1, <2>2
<1>7. ASSUME NEW agent \in BOOLEAN, SkillInjected(t, agent) PROVE Moves
  <2> DEFINE parts == q.parts \cup ReadOf(q.gen)
  <2>1. parts \in SUBSET Seeds
        BY <1>0, <1>a
  <2>2. CASE agent
    <3>1. turn' = [turn EXCEPT ![t] = [q EXCEPT !.pc = "agent", !.gen = gen, !.parts = parts]]
          BY <1>7, <2>2 DEF SkillInjected
    <3> HIDE DEF parts
    <3> QED BY <1>2, <1>a, <2>1, <3>1
  <2>3. CASE ~agent
    <3>1. SealChat(t, parts)
          BY <1>7, <2>3 DEF SkillInjected
    <3> HIDE DEF parts
    <3> QED BY <1>3, <2>1, <3>1
  <2> QED BY <2>2, <2>3
<1>8. ASSUME NEW found \in BOOLEAN, NEW chain \in 0..MaxSubagents, AgentResolved(t, found, chain)
      PROVE  Moves
  <2> DEFINE agent == found /\ px[q.gen].ready = "resolved" /\ ReadOf(q.gen) = {q.by}
             parts == q.parts \cup IF agent THEN ReadOf(q.gen) ELSE {}
  <2>1. parts \in SUBSET Seeds /\ q.pc = "agent"
        BY <1>0, <1>8, <1>a DEF AgentResolved
  <2>2. CASE 0 < chain
    <3> DEFINE r == [q EXCEPT !.pc = "listing", !.parts = parts, !.left = chain]
    <3>1. turn' = [turn EXCEPT ![t] = r]
          BY <1>8, <2>2 DEF AgentResolved
    <3> HIDE DEF parts
    <3>2. r \in TurnRecords /\ r.pc = "listing" /\ r.gen = q.gen /\ r.left = chain
          BY <1>0, <2>1 DEF TurnRecords
    <3> HIDE DEF r
    <3>3. TurnFormed(r)
          BY <1>0, <2>1, <2>2, <3>2 DEF TurnFormed, Delegating
    <3> QED BY <3>1, <3>2, <3>3 DEF Moves
  <2>3. CASE ~(0 < chain)
    <3>1. SealChat(t, parts)
          BY <1>8, <2>3 DEF AgentResolved
    <3> HIDE DEF parts
    <3> QED BY <1>3, <2>1, <3>1
  <2> QED BY <2>2, <2>3
<1>9. ASSUME Listed(t) \/ SubagentAnswered(t) PROVE Moves
  <2>1. q.pc \in Delegating /\ \E left \in {q.left, q.left - 1} : NextSubagent(t, left)
        BY <1>9 DEF Listed, SubagentAnswered, Delegating
  <2> QED BY <1>0, <1>4, <1>c, <2>1
<1>10. ASSUME NEW found \in BOOLEAN, SubagentResolved(t, found) PROVE Moves
  <2>1. q.pc = "resolving"
        BY <1>10 DEF SubagentResolved
  <2>2. CASE found /\ Alive(q.gen) /\ ident # None /\ hs # None
    <3> DEFINE r == [q EXCEPT !.pc = "consulting", !.acct = ident]
    <3>1. turn' = [turn EXCEPT ![t] = r]
          BY <1>10, <2>2 DEF SubagentResolved
    <3>2. r \in TurnRecords /\ r.pc = "consulting" /\ r.gen = q.gen /\ r.left = q.left /\ r.acct = ident
          BY <1>0, <1>b DEF TurnRecords
    <3> HIDE DEF r
    <3>3. TurnFormed(r)
          BY <1>0, <1>b, <2>1, <2>2, <3>2 DEF TurnFormed, Delegating
    <3> QED BY <3>1, <3>2, <3>3 DEF Moves
  <2>3. CASE ~(found /\ Alive(q.gen) /\ ident # None /\ hs # None)
    <3>1. NextSubagent(t, q.left - 1)
          BY <1>10, <2>3 DEF SubagentResolved
    <3> QED BY <1>4, <1>c, <2>1, <3>1 DEF Delegating
  <2> QED BY <2>2, <2>3
<1>11. ASSUME SubagentSend(t) PROVE Moves
  <2>1. q.pc = "consulting"
        BY <1>11 DEF SubagentSend
  <2>2. CASE ident = None
    <3>1. NextSubagent(t, q.left - 1)
          BY <1>11, <2>2 DEF SubagentSend
    <3> QED BY <1>4, <1>c, <2>1, <3>1 DEF Delegating
  <2>3. CASE ident # None
    <3> DEFINE as == q.asked \cup {[acct |-> q.acct, parts |-> q.parts]}
               r == [q EXCEPT !.pc = "awaiting", !.asked = as]
    <3>1. turn' = [turn EXCEPT ![t] = r]
          BY <1>11, <2>3 DEF SubagentSend
    <3>2. as \in SUBSET [acct : Seeds, parts : SUBSET Seeds]
          BY <1>0, <2>1 DEF TurnRecords, TurnFormed
    <3> HIDE DEF as
    <3>3. r \in TurnRecords /\ r.pc = "awaiting" /\ r.gen = q.gen /\ r.left = q.left
          BY <1>0, <3>2 DEF TurnRecords
    <3> HIDE DEF r
    <3>4. TurnFormed(r)
          BY <1>0, <2>1, <3>3 DEF TurnFormed, Delegating
    <3> QED BY <3>1, <3>3, <3>4 DEF Moves
  <2> QED BY <2>2, <2>3
<1>12. ASSUME Send(t) PROVE Moves
  <2> DEFINE p == IF ident = None THEN "failed" ELSE IF q.cancelled THEN "dropped" ELSE "sent"
             r == [q EXCEPT !.hdr = ident, !.pc = p]
  <2>1. turn' = [turn EXCEPT ![t] = r]
        BY <1>12 DEF Send
  <2>2. p \in {"failed", "dropped", "sent"}
        OBVIOUS
  <2> HIDE DEF p
  <2>3. r \in TurnRecords /\ r.pc = p
        BY <1>0, <1>b, <2>2 DEF TurnRecords
  <2> HIDE DEF r
  <2>4. TurnFormed(r)
        BY <2>2, <2>3 DEF TurnFormed, Delegating
  <2> QED BY <2>1, <2>3, <2>4 DEF Moves
<1>13. Moves
      BY <1>5, <1>6, <1>7, <1>8, <1>9, <1>10, <1>11, <1>12 DEF TurnStep
<1>14. turn' \in [Turns -> TurnRecords] /\ \A x \in Turns : TurnFormed(turn'[x])
      BY <1>13, TurnForms DEF Moves
<1>15. Types'
      BY <1>1, <1>14 DEF Basic, Types, authVars, storeVars, history
<1> QED BY <1>1, <1>14, <1>15 DEF Basic, AttFormed, StoreFormed, authVars, storeVars

LEMMA IngestForms ==
    ASSUME Basic, NEW d \in Docs, IngestStep(d)
    PROVE  Basic'
<1> DEFINE q == doc[d]
<1>0. q \in DocRecords /\ DocSound(q) /\ gen \in Gens
      BY DEF Basic, Types
<1>1. UNCHANGED <<authVars, gen, px, idx, turn, history>>
      BY DEF IngestStep, Ingest, Embedded, Stored, IngestFailed, storeVars
<1>2. rows' \in [Seeds -> SUBSET Docs] /\ hyd' \subseteq hyd \cup {gen}
  <2>1. CASE Stored(d)
    <3> DEFINE w == px[q.gen].db
               y == rows[w] \cup {d}
    <3>1. rows' = [rows EXCEPT ![w] = y] /\ hyd' = hyd \cup {gen}
          BY <2>1 DEF Stored
    <3>2. w \in Seeds => y \in SUBSET Docs
          BY DEF Basic, Types
    <3> HIDE DEF w, y
    <3> QED BY <3>1, <3>2 DEF Basic, Types
  <2>2. CASE UNCHANGED storeVars
        BY <2>2 DEF storeVars, Basic, Types
  <2> QED BY <2>1, <2>2 DEF IngestStep, Ingest, Embedded, IngestFailed
<1>3. \E r \in DocRecords : DocSound(r) /\ doc' = [doc EXCEPT ![d] = r]
  <2>1. CASE Ingest(d)
    <3> DEFINE r == [q EXCEPT !.pc = "embedding", !.by = auth]
    <3>1. r \in DocRecords /\ r.pc = "embedding" /\ doc' = [doc EXCEPT ![d] = r]
          BY <1>0, <2>1 DEF Ingest, DocRecords, Basic, Types
    <3> HIDE DEF r
    <3> QED BY <3>1 DEF DocSound
  <2>2. CASE Embedded(d)
    <3> DEFINE r == [q EXCEPT !.pc = "storing", !.gen = gen]
    <3>1. r \in DocRecords /\ r.gen = gen /\ doc' = [doc EXCEPT ![d] = r]
          BY <1>0, <2>2 DEF Embedded, DocRecords
    <3> HIDE DEF r
    <3> QED BY <1>0, <3>1 DEF DocSound
  <2>3. CASE IngestFailed(d)
    <3> DEFINE r == [q EXCEPT !.pc = "error"]
    <3>1. r \in DocRecords /\ r.pc = "error" /\ doc' = [doc EXCEPT ![d] = r]
          BY <1>0, <2>3 DEF IngestFailed, DocRecords
    <3> HIDE DEF r
    <3> QED BY <3>1 DEF DocSound
  <2>4. CASE Stored(d)
    <3> DEFINE r == [q EXCEPT !.pc = "done"]
    <3>1. r \in DocRecords /\ r.pc = "done" /\ doc' = [doc EXCEPT ![d] = r]
          BY <1>0, <2>4 DEF Stored, DocRecords
    <3> HIDE DEF r
    <3> QED BY <3>1 DEF DocSound
  <2> QED BY <2>1, <2>2, <2>3, <2>4 DEF IngestStep
<1>4. doc' \in [Docs -> DocRecords] /\ \A x \in Docs : DocSound(doc'[x])
      BY <1>3, DocForms
<1>5. \A x \in Docs : DocSound(doc[x])'
      BY <1>4 DEF DocSound
<1>6. Types'
      BY <1>0, <1>1, <1>2, <1>4 DEF Basic, Types, StoreFormed, authVars, history
<1>7. StoreFormed'
      BY <1>1, <1>2 DEF Basic, StoreFormed
<1> QED BY <1>1, <1>5, <1>6, <1>7 DEF Basic, AttFormed, authVars

LEMMA BasicStep == Basic /\ [Next]_vars => Basic'
<1> SUFFICES ASSUME Basic, [Next]_vars PROVE Basic'
    OBVIOUS
<1>1. CASE UNCHANGED vars
  <2>1. Types'
        BY <1>1 DEF vars, authVars, storeVars, history, Basic, Types
  <2>2. StoreFormed'
        BY <1>1 DEF vars, storeVars, Basic, StoreFormed
  <2> QED BY <1>1, <2>1, <2>2 DEF vars, authVars, storeVars, Basic, AttFormed
<1> QED BY <1>1, UnlockStartForms, UnlockForms, LockForms, HydrateForms, SubmitForms, TurnStepForms,
           IngestForms DEF Next

-----------------------------------------------------------------------------
(* The initial state *)

LEMMA TabInitial == Init => IInv
<1> SUFFICES ASSUME Init PROVE IInv
    OBVIOUS
<1>1. /\ \A u \in Attempts : att[u].pc = "idle"
      /\ \A t \in Turns : turn[t].pc = "idle" /\ turn[t].parts = {} /\ turn[t].asked = {}
      BY DEF Init
<1>2. /\ mixed = FALSE /\ gen = 0 /\ hyd = {} /\ auth = None /\ ident = None /\ hs = None
      /\ \A g \in Gens : px[g] = NewProxy /\ idx[g] = None
      BY DEF Init
<1>3. (\A u \in Attempts : AttSound(u, att[u])) /\ TurnsSound
      BY <1>1 DEF AttSound, TurnsSound, TurnSound, Running, Delegating
<1>4. TabSound
      BY <1>1, <1>2 DEF TabSound, Running, SessionMatchesIdentity
<1>5. StoreSound
  <2>1. gen \in Gens /\ NewProxy.ready = "pending" /\ NewProxy.db = None /\ NewProxy.opened = FALSE
        BY <1>2, NoneIsNew DEF NewProxy
  <2>2. px[gen] = NewProxy /\ idx[gen] = None
        BY <1>2, <2>1
  <2> QED BY <1>2, <2>1, <2>2 DEF StoreSound
<1> QED BY <1>2, <1>3, <1>4, <1>5, BasicInitial DEF IInv, TabInv, Marked

-----------------------------------------------------------------------------
(* What a step leaves alone *)

\* A turn is not disturbed by another user's arrival in a locked tab.
LEMMA TurnsKept ==
    ASSUME TabInv, UNCHANGED <<turn, gen, mixedTurns>>, auth' = auth \/ auth = None
    PROVE  TurnsSound'
<1>1. CASE auth' = auth
      BY <1>1 DEF TabInv, TurnsSound, TurnSound
<1>2. CASE auth = None
  <2> SUFFICES ASSUME NEW t \in Turns \ mixedTurns PROVE TurnSound(turn[t])'
      BY DEF TurnsSound
  <2>1. TurnSound(turn[t])
        BY DEF TabInv, TurnsSound
  <2>2. ~(turn[t].pc # "idle" /\ ~turn[t].cancelled)
        BY <1>2, <2>1, NoneIsNew DEF TurnSound
  <2>3. turn[t].pc \in Delegating => turn[t].pc # "idle" /\ turn[t].gen # gen
        BY <1>2, <2>1, NoneIsNew DEF TurnSound, Delegating
  <2> QED BY <2>1, <2>2, <2>3 DEF TurnSound
<1> QED BY <1>1, <1>2

LEMMA StoreKept ==
    ASSUME TabInv, UNCHANGED <<gen, px, hyd, idx, auth>>
    PROVE  StoreSound'
  BY DEF TabInv, StoreSound

LEMMA AttemptsKept ==
    ASSUME TabInv, UNCHANGED authVars, UNCHANGED gen
    PROVE  TabSound' /\ \A u \in Attempts : AttSound(u, att[u])'
<1>1. TabSound'
      BY DEF TabInv, authVars, TabSound, SessionMatchesIdentity, Running
<1>2. \A u \in Attempts : AttSound(u, att[u])'
      BY DEF TabInv, authVars, AttSound, Running
<1> QED BY <1>1, <1>2

\* One attempt moves while no other runs.
LEMMA AttemptMoves ==
    ASSUME TabInv, NEW u \in Attempts, NEW r \in AttRecords,
           \A v \in Attempts : v # u => ~Running(att[v]),
           att' = [att EXCEPT ![u] = r], AttSound(u, att[u])'
    PROVE  /\ att' \in [Attempts -> AttRecords]
           /\ \A v \in Attempts : AttSound(v, att[v])'
           /\ \A v, w \in Attempts : Running(att'[v]) /\ Running(att'[w]) => v = w
           /\ att'[u] = r
<1>1. att \in [Attempts -> AttRecords]
      BY DEF TabInv, Basic, Types
<1>2. att' \in [Attempts -> AttRecords] /\ att'[u] = r
      BY <1>1
<1>3. \A v \in Attempts : v # u => att'[v] = att[v] /\ ~Running(att'[v])
      BY <1>1
<1>4. ASSUME NEW v \in Attempts, v # u PROVE AttSound(v, att[v])'
      BY <1>3, <1>4 DEF TabInv, AttSound, Running
<1> QED BY <1>2, <1>3, <1>4

LEMMA OnlyOne ==
    ASSUME TabInv, NEW u \in Attempts, Running(att[u])
    PROVE  \A v \in Attempts : v # u => ~Running(att[v])
  BY DEF TabInv, TabSound
-----------------------------------------------------------------------------
(* Unlocking *)

LEMMA UnlockStarts ==
    ASSUME ~Overlapping, TabInv, Basic', NEW u \in Attempts, NEW s \in Seeds, Unlock(u, s)
    PROVE  TabInv'
<1> DEFINE c == IF client = None THEN u ELSE client
           r == [att[u] EXCEPT !.pc = "init", !.seed = s, !.client = c]
<1>0. att[u] \in AttRecords /\ auth = None /\ (\A v \in Attempts : ~Running(att[v]))
      /\ UNCHANGED <<cident, ident, hs, auth, gsess, storeVars, turn, doc, mixedTurns>> /\ client' = c
      BY DEF TabInv, Basic, Types, Unlock, Overlapping, InFlight, Running
<1>1. c \in Attempts
      BY DEF TabInv, Basic, Types
<1>2. r \in AttRecords /\ r.pc = "init" /\ r.seed = s /\ r.client = c
  <2> HIDE DEF c
  <2> QED BY <1>0, <1>1 DEF AttRecords
<1>3. att' = [att EXCEPT ![u] = r]
      BY <1>0 DEF Unlock
<1>4. att'[u] = r
      BY <1>3 DEF TabInv, Basic, Types
<1>5. AttSound(u, att[u])'
  <2> HIDE DEF r, c
  <2> QED BY <1>0, <1>1, <1>2, <1>4 DEF AttSound, Running
<1>6. /\ att' \in [Attempts -> AttRecords]
      /\ \A v \in Attempts : AttSound(v, att[v])'
      /\ \A v, w \in Attempts : Running(att'[v]) /\ Running(att'[w]) => v = w
  <2> HIDE DEF r
  <2> QED BY <1>0, <1>2, <1>3, <1>5, AttemptMoves
<1>7. TabSound'
  <2>1. ident = None
        BY <1>0 DEF TabInv, TabSound, Running
  <2>2. (SessionMatchesIdentity)'
        BY <1>0, <2>1 DEF SessionMatchesIdentity
  <2> QED BY <1>0, <1>6, <2>1, <2>2 DEF TabInv, TabSound, Running
<1>8. StoreSound' /\ TurnsSound'
      BY <1>0, StoreKept, TurnsKept DEF storeVars
<1> QED BY <1>6, <1>7, <1>8 DEF TabInv

LEMMA UnlockGoesOn ==
    ASSUME TabInv, Basic', NEW u \in Attempts, UnlockStep(u)
    PROVE  TabInv'
<1> DEFINE a == att[u]
<1>0. a \in AttRecords /\ AttSound(u, a) /\ Running(a)
  <2>1. a \in AttRecords /\ AttSound(u, a)
        BY DEF TabInv, Basic, Types
  <2>2. Running(a)
        BY DEF UnlockStep, UnlockSeed, Onboarded, EstablishSession, PostSession, Unlocked,
               UnlockFailed, StoreOpened, OpenFailed, Running
  <2> QED BY <2>1, <2>2
<1>a. /\ a.seed \in Seeds /\ a.client = client /\ client \in Attempts /\ auth = None
      /\ \A v \in Attempts : v # u => ~Running(att[v])
      BY <1>0, OnlyOne DEF AttSound, Running
<1>b. px[gen] = NewProxy /\ px[gen].opened = FALSE /\ gen \in Gens
      /\ px[gen].ready = "pending" /\ px[gen].db = None
      BY <1>a DEF TabInv, Basic, StoreSound, Types, NewProxy
<1>c. a.pc # "opening" => ident = None /\ hs = None
      BY <1>a DEF TabInv, TabSound, Running
<1>d. \A v \in Attempts : v # u => att[v].pc # "opening"
      BY <1>a DEF Running
\* A step that changes nothing but the attempt, the client's identity and the gateway.
<1>1. ASSUME NEW r \in AttRecords, r.pc \notin {"idle", "opening"}, a.pc # "opening",
             att' = [att EXCEPT ![u] = r], AttSound(u, att[u])',
             UNCHANGED <<client, ident, hs, auth, storeVars, turn, doc, history>>,
             cident' \in [Attempts -> Seeds \cup {None}], gsess' \in [Seeds -> Attempts \cup {None}]
      PROVE  TabInv'
  <2>1. /\ att' \in [Attempts -> AttRecords] /\ att'[u] = r
        /\ \A v \in Attempts : AttSound(v, att[v])'
        /\ \A v, w \in Attempts : Running(att'[v]) /\ Running(att'[w]) => v = w
        BY <1>1, <1>a, AttemptMoves
  <2>2. TabSound'
    <3>1. SessionMatchesIdentity'
          BY <1>1, <1>c DEF SessionMatchesIdentity
    <3> QED BY <1>1, <1>a, <1>c, <2>1, <3>1 DEF TabSound, Running
  <2>3. StoreSound' /\ TurnsSound'
        BY <1>1, StoreKept, TurnsKept DEF storeVars, history
  <2> QED BY <2>1, <2>2, <2>3 DEF TabInv
<1> HIDE DEF a
<1>2. CASE UnlockSeed(u)
  <2> DEFINE r == [a EXCEPT !.pc = "onboarding"]
  <2>1. /\ a.pc = "init" /\ att' = [att EXCEPT ![u] = r] /\ cident' = [cident EXCEPT ![client] = a.seed]
        /\ UNCHANGED <<client, ident, hs, auth, gsess, storeVars, turn, doc, history>>
        BY <1>2, <1>a DEF UnlockSeed, a
  <2>2. r \in AttRecords /\ r.pc = "onboarding" /\ r.seed = a.seed /\ r.client = a.client
        BY <1>0 DEF AttRecords
  <2>3. cident' \in [Attempts -> Seeds \cup {None}] /\ cident'[client] = a.seed
        BY <2>1, <1>a DEF TabInv, Basic, Types
  <2>4. att'[u] = r
        BY <2>1 DEF TabInv, Basic, Types
  <2> HIDE DEF r
  <2>5. AttSound(u, att[u])'
        BY <1>a, <2>1, <2>2, <2>3, <2>4 DEF AttSound, Running
  <2>6. gsess' \in [Seeds -> Attempts \cup {None}]
        BY <2>1 DEF TabInv, Basic, Types
  <2> QED BY <1>1, <2>1, <2>2, <2>3, <2>5, <2>6
<1>3. CASE Onboarded(u)
  <2> DEFINE r == [a EXCEPT !.pc = "attesting"]
  <2>1. /\ a.pc = "onboarding" /\ att' = [att EXCEPT ![u] = r]
        /\ UNCHANGED <<client, cident, ident, hs, auth, gsess, storeVars, turn, doc, history>>
        BY <1>3 DEF Onboarded, a
  <2>2. r \in AttRecords /\ r.pc = "attesting" /\ r.seed = a.seed /\ r.client = a.client
        BY <1>0 DEF AttRecords
  <2>4. att'[u] = r
        BY <2>1 DEF TabInv, Basic, Types
  <2> HIDE DEF r
  <2>5. AttSound(u, att[u])'
        BY <1>0, <1>a, <2>1, <2>2, <2>4 DEF AttSound, Running
  <2>6. cident' \in [Attempts -> Seeds \cup {None}] /\ gsess' \in [Seeds -> Attempts \cup {None}]
        BY <2>1 DEF TabInv, Basic, Types
  <2> QED BY <1>1, <2>1, <2>2, <2>5, <2>6
<1>4. CASE EstablishSession(u)
  <2> DEFINE r == [a EXCEPT !.pc = "sealing", !.wmk = cident[a.client]]
  <2>1. /\ a.pc = "attesting" /\ att' = [att EXCEPT ![u] = r]
        /\ UNCHANGED <<client, cident, ident, hs, auth, gsess, storeVars, turn, doc, history>>
        BY <1>4 DEF EstablishSession, a
  <2>2. cident[a.client] = a.seed
        BY <1>0, <1>a, <2>1 DEF AttSound
  <2>3. r \in AttRecords /\ r.pc = "sealing" /\ r.seed = a.seed /\ r.client = a.client /\ r.wmk = a.seed
        BY <1>0, <1>a, <2>2 DEF AttRecords
  <2>4. att'[u] = r
        BY <2>1 DEF TabInv, Basic, Types
  <2> HIDE DEF r
  <2>5. AttSound(u, att[u])'
        BY <1>0, <1>a, <2>1, <2>2, <2>3, <2>4 DEF AttSound, Running
  <2>6. cident' \in [Attempts -> Seeds \cup {None}] /\ gsess' \in [Seeds -> Attempts \cup {None}]
        BY <2>1 DEF TabInv, Basic, Types
  <2> QED BY <1>1, <2>1, <2>3, <2>5, <2>6
<1>5. ASSUME NEW served \in BOOLEAN, PostSession(u, served) PROVE TabInv'
  <2>0. a.pc = "sealing" /\ cident[a.client] = a.seed /\ a.wmk = a.seed
        BY <1>0, <1>5, <1>a DEF PostSession, a, AttSound
  <2> DEFINE p == IF served THEN "established" ELSE "refused"
             r == [a EXCEPT !.pc = p]
  <2>1. /\ att' = [att EXCEPT ![u] = r]
        /\ gsess' = IF served THEN [gsess EXCEPT ![a.seed] = u] ELSE gsess
        /\ UNCHANGED <<client, cident, ident, hs, auth, storeVars, turn, doc, history>>
        BY <1>5, <2>0 DEF PostSession, a
  <2>2. r \in AttRecords /\ r.pc = p /\ r.seed = a.seed /\ r.client = a.client
        BY <1>0 DEF AttRecords
  <2>3. gsess' \in [Seeds -> Attempts \cup {None}] /\ (served => gsess'[a.seed] = u)
        BY <1>a, <2>1 DEF TabInv, Basic, Types
  <2>4. att'[u] = r
        BY <2>1 DEF TabInv, Basic, Types
  <2> HIDE DEF r
  <2>5. AttSound(u, att[u])'
        BY <1>0, <1>a, <2>0, <2>1, <2>2, <2>3, <2>4 DEF AttSound, Running
  <2>6. cident' \in [Attempts -> Seeds \cup {None}] /\ p \notin {"idle", "opening"}
        BY <2>1 DEF TabInv, Basic, Types
  <2> QED BY <1>1, <2>0, <2>1, <2>2, <2>3, <2>5, <2>6
<1>6. CASE UnlockFailed(u)
  <2> DEFINE r == [a EXCEPT !.pc = "failed"]
  <2>1. /\ a.pc # "opening" /\ att' = [att EXCEPT ![u] = r]
        /\ UNCHANGED <<client, cident, ident, hs, auth, gsess, storeVars, turn, doc, history>>
        BY <1>6 DEF UnlockFailed, a
  <2>2. r \in AttRecords /\ r.pc = "failed" /\ r.seed = a.seed
        BY <1>0 DEF AttRecords
  <2>4. att'[u] = r
        BY <2>1 DEF TabInv, Basic, Types
  <2> HIDE DEF r
  <2>5. AttSound(u, att[u])'
        BY <1>0, <1>a, <2>1, <2>2, <2>4 DEF AttSound, Running
  <2>6. cident' \in [Attempts -> Seeds \cup {None}] /\ gsess' \in [Seeds -> Attempts \cup {None}]
        BY <2>1 DEF TabInv, Basic, Types
  <2> QED BY <1>1, <2>1, <2>2, <2>5, <2>6
<1>7. CASE Unlocked(u)
  <2> DEFINE r == [a EXCEPT !.pc = "opening", !.gen = gen]
  <2>1. /\ a.pc = "established" /\ att' = [att EXCEPT ![u] = r] /\ ident' = a.seed /\ hs' = u
        /\ UNCHANGED <<client, cident, auth, gsess, storeVars, turn, doc, history>>
        BY <1>7, <1>b DEF Unlocked, a, storeVars
  <2>2. r \in AttRecords /\ r.pc = "opening" /\ r.seed = a.seed /\ r.client = a.client /\ r.gen = gen
        BY <1>0, <1>b DEF AttRecords
  <2>3. gsess[a.seed] = u /\ cident[client] = a.seed
        BY <1>0, <2>1 DEF AttSound
  <2>4. att'[u] = r
        BY <2>1 DEF TabInv, Basic, Types
  <2> HIDE DEF r
  <2>5. AttSound(u, att[u])'
        BY <1>a, <2>1, <2>2, <2>3, <2>4 DEF AttSound, Running, storeVars
  <2>6. /\ att' \in [Attempts -> AttRecords]
        /\ \A v \in Attempts : AttSound(v, att[v])'
        /\ \A v, w \in Attempts : Running(att'[v]) /\ Running(att'[w]) => v = w
        BY <1>a, <2>1, <2>2, <2>5, AttemptMoves
  <2>7. TabSound'
    <3>1. SessionMatchesIdentity'
          BY <2>1, <2>3 DEF SessionMatchesIdentity
    <3>2. ident' # None /\ hs' # None /\ auth' = None /\ att'[u].pc = "opening"
          BY <1>a, <2>1, <2>2, <2>4, NoneIsNew
    <3> QED BY <2>6, <3>1, <3>2 DEF TabSound
  <2>8. StoreSound' /\ TurnsSound'
        BY <2>1, StoreKept, TurnsKept DEF storeVars, history
  <2> QED BY <2>6, <2>7, <2>8 DEF TabInv
\* The store was opened, or could not be: the user is authenticated.
<1>8. CASE StoreOpened(u) \/ OpenFailed(u)
  <2> DEFINE r == [a EXCEPT !.pc = "done", !.gen = gen]
  <2>1. /\ a.pc = "opening" /\ a.gen = gen /\ ident = a.seed /\ hs = u /\ gsess[a.seed] = u
        BY <1>0, <1>8 DEF StoreOpened, OpenFailed, AttSound, a
  <2>2. PICK x \in ProxyRecords :
          /\ px' = [px EXCEPT ![gen] = x]
          /\ \/ x.opened = TRUE /\ x.ready = "resolved" /\ x.db = a.seed /\ hyd' = hyd \cup {gen}
             \/ x.opened = FALSE /\ x.ready = "rejected" /\ x.db = None /\ hyd' = hyd
    <3>0. px \in [Gens -> ProxyRecords]
          BY DEF TabInv, Basic, Types
    <3>1. CASE StoreOpened(u)
      <4> DEFINE x == [opened |-> TRUE, ready |-> "resolved", db |-> a.seed]
      <4>1. px' = [px EXCEPT ![gen] = x]
            BY <3>1, <1>b, <2>1, <3>0, NoneIsNew DEF StoreOpened, a, ProxyRecords, NewProxy
      <4>2. x \in ProxyRecords
            BY <1>a DEF ProxyRecords
      <4>3. px'[gen] = x
            BY <1>b, <3>0, <4>1
      <4>4. hyd' = hyd \cup {gen}
            BY <3>1, <4>3 DEF StoreOpened, Authenticate
      <4> QED BY <4>1, <4>2, <4>4
    <3>2. CASE OpenFailed(u)
      <4> DEFINE x == [px[gen] EXCEPT !.ready = "rejected"]
      <4>1. px' = [px EXCEPT ![gen] = x]
            BY <3>2, <1>b, <2>1, <3>0 DEF OpenFailed, a
      <4>2. x \in ProxyRecords /\ x.opened = FALSE /\ x.ready = "rejected" /\ x.db = None
            BY <1>b, <3>0 DEF ProxyRecords
      <4>3. px'[gen] = x
            BY <1>b, <3>0, <4>1
      <4>4. hyd' = hyd
            BY <3>2, <4>2, <4>3 DEF OpenFailed, Authenticate
      <4> QED BY <4>1, <4>2, <4>4
    <3> QED BY <1>8, <3>1, <3>2
  <2>3. /\ att' = [att EXCEPT ![u] = r] /\ auth' = a.seed
        /\ UNCHANGED <<client, cident, ident, hs, gsess, gen, idx, rows, turn, doc, history>>
        BY <1>8 DEF StoreOpened, OpenFailed, Authenticate, a
  <2>4. r \in AttRecords /\ r.pc = "done" /\ r.seed = a.seed
        BY <1>0, <1>b DEF AttRecords
  <2>5. att'[u] = r /\ px'[gen] = x /\ px' \in [Gens -> ProxyRecords]
        /\ (\A g \in Gens : g # gen => px'[g] = px[g])
        BY <2>2, <2>3, <1>b DEF TabInv, Basic, Types
  <2> HIDE DEF r
  <2>6. AttSound(u, att[u])'
        BY <1>a, <2>4, <2>5 DEF AttSound, Running
  <2>7. /\ att' \in [Attempts -> AttRecords]
        /\ \A v \in Attempts : AttSound(v, att[v])'
        /\ \A v, w \in Attempts : Running(att'[v]) /\ Running(att'[w]) => v = w
        BY <1>a, <2>3, <2>4, <2>6, AttemptMoves
  <2>8. TabSound'
    <3>1. SessionMatchesIdentity'
          BY <2>1, <2>3 DEF SessionMatchesIdentity
    <3>2. ident' # None /\ hs' # None /\ auth' # None /\ auth' = ident'
          BY <1>a, <2>1, <2>3, NoneIsNew
    <3> QED BY <2>7, <3>1, <3>2 DEF TabSound
  <2>9. StoreSound'
    <3>1. gen' = gen /\ idx' = idx /\ auth' # None /\ auth' = a.seed
          BY <1>a, <2>3, NoneIsNew
    <3>2. idx[gen] = None
          BY <1>a DEF TabInv, StoreSound
    <3>3. gen \notin hyd
          BY <1>b DEF TabInv, StoreSound
    <3>4. px'[gen].opened <=> px'[gen].ready = "resolved"
          BY <2>2, <2>5
    <3>5. px'[gen].db = IF px'[gen].ready = "resolved" THEN auth' ELSE None
          BY <2>2, <2>5, <3>1
    <3>6. gen \in hyd' => px'[gen].ready = "resolved"
          BY <2>2, <2>5, <3>3
    <3> QED BY <3>1, <3>2, <3>4, <3>5, <3>6 DEF StoreSound
  <2>10. TurnsSound'
        BY <1>a, <2>3, TurnsKept DEF history
  <2> QED BY <2>7, <2>8, <2>9, <2>10 DEF TabInv
<1> QED BY <1>2, <1>3, <1>4, <1>5, <1>6, <1>7, <1>8 DEF UnlockStep
-----------------------------------------------------------------------------
(* Locking, and the RAG index *)

\* A lock with no unlock in flight leaves a whole tab, mixed or not before.
LEMMA LockCancels ==
    ASSUME Basic, Basic', TurnsSound, Lock, \A u \in Attempts : ~Running(att[u])
    PROVE  TabInv'
<1>0. /\ auth # None /\ gen \in Gens /\ gen < MaxUnlocks
      /\ ident' = None /\ hs' = None /\ client' = None /\ auth' = None
      /\ gen' = gen + 1 /\ px' = [px EXCEPT ![gen] = NewProxy] /\ hyd' = {}
      /\ turn' = [t \in Turns |-> [turn[t] EXCEPT !.cancelled = @ \/ turn[t].pc # "idle"]]
      /\ UNCHANGED <<cident, gsess, att, idx, rows, doc, mixedTurns>>
      BY DEF Lock, Basic, Types
<1>1. gen' \in Gens /\ gen' # gen /\ gen < gen' /\ \A g \in Gens : gen' < g => gen < g
      BY <1>0, UnlocksAssumption DEF Gens
<1>2. \A u \in Attempts : AttSound(u, att[u])'
      BY <1>0 DEF Basic, AttFormed, AttSound, Running
<1>3. TabSound'
  <2>1. SessionMatchesIdentity'
        BY <1>0 DEF SessionMatchesIdentity
  <2> QED BY <1>0, <2>1 DEF TabSound, Running
<1>4. StoreSound'
  <2>1. NewProxy.ready = "pending" /\ NewProxy.db = None /\ NewProxy.opened = FALSE
        BY DEF NewProxy
  <2>2. px'[gen'] = NewProxy /\ idx'[gen'] = None
        BY <1>0, <1>1 DEF Basic, Types, StoreFormed
  <2> QED BY <1>0, <2>1, <2>2 DEF StoreSound
<1>5. ASSUME NEW t \in Turns \ mixedTurns PROVE TurnSound(turn[t])'
  <2> DEFINE q == turn[t]
             b == q.cancelled \/ q.pc # "idle"
             r == [q EXCEPT !.cancelled = b]
  <2>1. q \in TurnRecords /\ TurnSound(q)
        BY DEF Basic, Types, TurnsSound
  <2>2. turn'[t] = r
        BY <1>0
  <2>3. b \in BOOLEAN
        BY <2>1 DEF TurnRecords
  <2>4. /\ r \in TurnRecords /\ r.pc = q.pc /\ r.by = q.by /\ r.gen = q.gen /\ r.parts = q.parts
        /\ r.acct = q.acct /\ r.hdr = q.hdr /\ r.left = q.left /\ r.asked = q.asked /\ r.cancelled = b
    <3> HIDE DEF b, q
    <3> QED BY <2>1, <2>3 DEF TurnRecords
  <2>5. q.pc \in Delegating => q.gen \in Gens /\ q.gen <= gen /\ 0 < q.left
        BY <2>1 DEF TurnSound
  <2>6. q.pc \in Delegating => q.gen <= gen' /\ q.gen # gen'
        BY <1>0, <1>1, <2>5, NoneIsNew, UnlocksAssumption DEF Gens
  <2> HIDE DEF r
  <2>7. TurnSound(turn[t])'
    <3>1. r.pc # "idle" => r.cancelled
          BY <2>4
    <3> HIDE DEF b
    <3> QED BY <2>1, <2>2, <2>4, <2>5, <2>6, <3>1 DEF TurnSound
  <2> QED BY <2>7
<1> QED BY <1>0, <1>2, <1>3, <1>4, <1>5 DEF TabInv, TurnsSound

LEMMA HydrateFills ==
    ASSUME TabInv, Basic', NEW g \in Gens, Hydrate(g)
    PROVE  TabInv'
<1>1. g = gen /\ gen \in Gens /\ px[gen].ready = "resolved" /\ px[gen].db = auth
      BY DEF TabInv, Basic, Types, StoreFormed, StoreSound, Hydrate
<1>2. idx' = [idx EXCEPT ![gen] = auth] /\ hyd' = hyd \ {gen}
      /\ UNCHANGED <<authVars, gen, px, rows, turn, doc, history>>
      BY <1>1 DEF Hydrate
<1>3. idx'[gen] = auth
      BY <1>1, <1>2 DEF TabInv, Basic, Types
<1>4. StoreSound'
      BY <1>2, <1>3 DEF TabInv, StoreSound, authVars
<1> QED BY <1>2, <1>4, AttemptsKept, TurnsKept DEF TabInv, authVars, history
-----------------------------------------------------------------------------
(* Submissions *)

\* One submission moves on.
LEMMA TurnMoves ==
    ASSUME TabInv, Basic', NEW t \in Turns \ mixedTurns, NEW r \in TurnRecords, TurnSound(r),
           turn' = [turn EXCEPT ![t] = r], UNCHANGED <<authVars, storeVars, doc, history>>
    PROVE  TabInv'
<1>1. \A u \in Turns \ mixedTurns : TurnSound(turn'[u])
      BY DEF TabInv, Basic, Types, TurnsSound
<1>2. TurnsSound'
      BY <1>1 DEF TurnsSound, TurnSound, authVars, storeVars, history
<1> QED BY <1>2, AttemptsKept, StoreKept DEF TabInv, authVars, storeVars

LEMMA SubmitStarts ==
    ASSUME TabInv, Basic', ~mixed, NEW t \in Turns, Submit(t)
    PROVE  TabInv'
<1> DEFINE q == turn[t]
           p == IF ident # None /\ hs # None THEN "rag" ELSE "failed"
           r == [q EXCEPT !.by = auth, !.gen = gen, !.pc = p]
<1>0. /\ auth \in Seeds /\ q.pc = "idle" /\ turn' = [turn EXCEPT ![t] = r]
      /\ hyd' = (IF px[gen].opened THEN hyd \cup {gen} ELSE hyd)
      /\ UNCHANGED <<authVars, gen, px, idx, rows, doc, history>> /\ gen \in Gens
      BY DEF TabInv, Basic, Types, Submit, history
<1>1. q \in TurnRecords /\ (t \notin mixedTurns => TurnSound(q))
      BY DEF TabInv, Basic, Types, TurnsSound
<1>2. /\ r.pc = p /\ r.by = auth /\ r.gen = gen /\ r.parts = q.parts
      /\ r.asked = q.asked /\ p \in {"rag", "failed"}
      BY <1>0, <1>1 DEF TurnRecords
<1>3. t \notin mixedTurns => q.parts = {} /\ q.asked = {}
      BY <1>0, <1>1 DEF TurnSound
<1> HIDE DEF r, p
<1>4. t \notin mixedTurns => TurnSound(r)
      BY <1>0, <1>2, <1>3 DEF TurnSound, Delegating
<1>5. \A u \in Turns \ mixedTurns : TurnSound(turn'[u])
      BY <1>0, <1>4 DEF TabInv, Basic, Types, TurnsSound
<1>6. TurnsSound'
      BY <1>0, <1>5 DEF TurnsSound, TurnSound, authVars, history
<1>7. StoreSound'
  <2>1. px[gen].opened => px[gen].ready = "resolved"
        BY DEF TabInv, StoreSound
  <2> QED BY <1>0, <2>1 DEF TabInv, StoreSound, authVars
<1> QED BY <1>0, <1>6, <1>7, AttemptsKept DEF TabInv

\* What a live proxy has open is the user's.
LEMMA ReadsOwn ==
    ASSUME TabInv, NEW g \in Gens \cup {None}
    PROVE  ReadOf(g) \subseteq Seeds /\ ReadOf(g) \subseteq {auth}
           /\ (ReadOf(g) # {} => g = gen /\ px[gen].ready = "resolved")
<1>1. CASE g # None /\ g = gen
  <2>1. px[gen].db = IF px[gen].ready = "resolved" THEN auth ELSE None
        BY DEF TabInv, StoreSound
  <2> QED BY <1>1, <2>1 DEF ReadOf, Alive, Held, TabInv, Basic, Types
<1>2. CASE ~(g # None /\ g = gen)
      BY <1>2 DEF ReadOf, Alive
<1> QED BY <1>1, <1>2
LEMMA SealMoves ==
    ASSUME TabInv, Basic', NEW t \in Turns \ mixedTurns, turn[t].pc \in {"skill", "agent"} \cup Delegating,
           NEW parts \in SUBSET Seeds, ~turn[t].cancelled => parts \subseteq {turn[t].by},
           SealChat(t, parts), UNCHANGED <<authVars, storeVars, doc, history>>
    PROVE  TabInv'
<1> DEFINE q == turn[t]
<1>0. q \in TurnRecords /\ TurnSound(q) /\ q.pc # "idle"
      BY DEF TabInv, Basic, Types, TurnsSound, Delegating
<1>1. q.by \in Seeds /\ (~q.cancelled => auth = q.by /\ q.parts \subseteq {q.by}) /\ \A x \in q.asked : x.acct = q.by
      BY <1>0 DEF TurnSound
<1>2. CASE ident # None /\ hs # None
  <2> DEFINE r == [q EXCEPT !.pc = "sealed", !.parts = parts, !.acct = ident, !.sk = hs]
  <2>1. turn' = [turn EXCEPT ![t] = r]
        BY <1>2 DEF SealChat
  <2>2. /\ r \in TurnRecords /\ r.pc = "sealed" /\ r.parts = parts /\ r.acct = ident
        /\ r.by = q.by /\ r.asked = q.asked /\ r.cancelled = q.cancelled
        BY <1>0 DEF TurnRecords, TabInv, Basic, Types
  <2>3. ~q.cancelled => ident = q.by
        BY <1>1, NoneIsNew DEF TabInv, TabSound
  <2> HIDE DEF r
  <2>4. TurnSound(r)
        BY <1>1, <2>2, <2>3 DEF TurnSound, Delegating
  <2> QED BY <2>1, <2>2, <2>4, TurnMoves
<1>3. CASE ~(ident # None /\ hs # None)
  <2> DEFINE r == [q EXCEPT !.pc = "failed"]
  <2>1. turn' = [turn EXCEPT ![t] = r]
        BY <1>3 DEF SealChat
  <2>2. /\ r \in TurnRecords /\ r.pc = "failed" /\ r.parts = q.parts
        /\ r.by = q.by /\ r.asked = q.asked /\ r.cancelled = q.cancelled
        BY <1>0 DEF TurnRecords
  <2> HIDE DEF r
  <2>4. TurnSound(r)
        BY <1>1, <2>2 DEF TurnSound, Delegating
  <2> QED BY <2>1, <2>2, <2>4, TurnMoves
<1> QED BY <1>2, <1>3

LEMMA NextSubagentMoves ==
    ASSUME TabInv, Basic', NEW t \in Turns \ mixedTurns, turn[t].pc \in Delegating,
           NEW left \in 0..MaxSubagents, NextSubagent(t, left), UNCHANGED <<authVars, storeVars, doc, history>>
    PROVE  TabInv'
<1> DEFINE q == turn[t]
<1>0. q \in TurnRecords /\ TurnSound(q) /\ q.pc # "idle"
      BY DEF TabInv, Basic, Types, TurnsSound, Delegating
<1>1. /\ q.by \in Seeds /\ (~q.cancelled => auth = q.by /\ q.parts \subseteq {q.by})
      /\ (\A x \in q.asked : x.acct = q.by) /\ q.parts \subseteq Seeds
      /\ q.gen \in Gens /\ q.gen <= gen /\ (q.gen = gen => auth = q.by)
      BY <1>0 DEF TurnSound, TurnRecords
<1>2. CASE 0 < left
  <2> DEFINE b == Alive(q.gen)
             r == [q EXCEPT !.pc = "resolving", !.left = left, !.live = b]
  <2>1. turn' = [turn EXCEPT ![t] = r]
        BY <1>2 DEF NextSubagent
  <2>2. b \in BOOLEAN
        BY DEF Alive
  <2>3. /\ r \in TurnRecords /\ r.pc = "resolving" /\ r.parts = q.parts /\ r.left = left
        /\ r.by = q.by /\ r.asked = q.asked /\ r.cancelled = q.cancelled /\ r.gen = q.gen
    <3> HIDE DEF b
    <3> QED BY <1>0, <2>2 DEF TurnRecords
  <2> HIDE DEF r
  <2>4. TurnSound(r)
        BY <1>1, <1>2, <2>3 DEF TurnSound, Delegating
  <2> QED BY <2>1, <2>3, <2>4, TurnMoves
<1>3. CASE ~(0 < left)
  <2>1. SealChat(t, turn[t].parts)
        BY <1>3 DEF NextSubagent
  <2> QED BY <1>1, <2>1, SealMoves
<1> QED BY <1>2, <1>3

LEMMA TurnGoesOn ==
    ASSUME TabInv, Basic', NEW t \in Turns \ mixedTurns, TurnStep(t)
    PROVE  TabInv'
<1> DEFINE q == turn[t]
<1>0. q \in TurnRecords /\ TurnSound(q)
      BY DEF TabInv, Basic, Types, TurnsSound
<1>a. gen \in Gens /\ OpenGen \in Gens \cup {None}
      BY DEF TabInv, Basic, Types, OpenGen
<1>b. q.gen \in Gens \cup {None}
      BY <1>0 DEF TurnRecords
<1>c. ReadOf(q.gen) \subseteq Seeds /\ ReadOf(q.gen) \subseteq {auth}
      /\ (ReadOf(q.gen) # {} => q.gen = gen /\ px[gen].ready = "resolved")
      BY <1>b, ReadsOwn
<1>d. q.pc # "idle" => /\ q.by \in Seeds /\ q.parts \subseteq Seeds
                       /\ (~q.cancelled => auth = q.by /\ q.parts \subseteq {q.by})
                       /\ \A x \in q.asked : x.acct = q.by
      BY <1>0 DEF TurnSound, TurnRecords
\* Context is gathered.
<1>1. ASSUME NEW p \in {"memory", "skill", "agent"}, NEW g \in Gens \cup {None}, NEW parts \in SUBSET Seeds,
             q.pc \in {"rag", "memory", "skill"}, p = "agent" => g \in Gens,
             ~q.cancelled => parts \subseteq {q.by},
             turn' = [turn EXCEPT ![t] = [q EXCEPT !.pc = p, !.gen = g, !.parts = parts]],
             UNCHANGED <<authVars, storeVars, doc, history>>
      PROVE  TabInv'
  <2> DEFINE r == [q EXCEPT !.pc = p, !.gen = g, !.parts = parts]
  <2>1. /\ r \in TurnRecords /\ r.pc = p /\ r.parts = parts /\ r.gen = g
        /\ r.by = q.by /\ r.asked = q.asked /\ r.cancelled = q.cancelled
        BY <1>0, <1>1 DEF TurnRecords
  <2>2. turn' = [turn EXCEPT ![t] = r]
        BY <1>1
  <2> HIDE DEF r
  <2>3. TurnSound(r)
        BY <1>1, <1>d, <2>1 DEF TurnSound, Delegating
  <2> QED BY <1>1, <2>1, <2>2, <2>3, TurnMoves
<1>2. ASSUME NEW hits \in BOOLEAN, Augmented(t, hits) PROVE TabInv'
  <2> DEFINE parts == q.parts \cup IF hits THEN Held(idx[q.gen]) ELSE {}
  <2>1. /\ q.pc = "rag" /\ UNCHANGED <<authVars, storeVars, doc, history>>
        /\ turn' = [turn EXCEPT ![t] = [q EXCEPT !.pc = "memory", !.gen = OpenGen, !.parts = parts]]
        BY <1>2 DEF Augmented
  <2>2. q.gen \in Gens /\ (~q.cancelled => q.gen = gen)
        BY <1>0, <2>1 DEF TurnSound
  <2>3. Held(idx[q.gen]) \subseteq Seeds
        BY <2>2 DEF Held, TabInv, Basic, Types
  <2>4. ~q.cancelled => Held(idx[q.gen]) \subseteq {auth}
        BY <2>2 DEF Held, TabInv, StoreSound
  <2>5. parts \subseteq Seeds /\ (~q.cancelled => parts \subseteq {q.by})
        BY <1>d, <2>1, <2>3, <2>4
  <2> HIDE DEF parts
  <2> QED BY <1>1, <1>a, <2>1, <2>5
<1>3. CASE Injected(t)
  <2> DEFINE parts == q.parts \cup ReadOf(q.gen)
  <2>1. /\ q.pc = "memory" /\ UNCHANGED <<authVars, storeVars, doc, history>>
        /\ turn' = [turn EXCEPT ![t] = [q EXCEPT !.pc = "skill", !.gen = OpenGen, !.parts = parts]]
        BY <1>3 DEF Injected
  <2>2. parts \subseteq Seeds /\ (~q.cancelled => parts \subseteq {q.by})
        BY <1>d, <1>c, <2>1
  <2> HIDE DEF parts
  <2> QED BY <1>1, <1>a, <2>1, <2>2
<1>4. ASSUME NEW agent \in BOOLEAN, SkillInjected(t, agent) PROVE TabInv'
  <2> DEFINE parts == q.parts \cup ReadOf(q.gen)
  <2>1. q.pc = "skill" /\ UNCHANGED <<authVars, storeVars, doc, history>>
        BY <1>4 DEF SkillInjected
  <2>2. parts \subseteq Seeds /\ (~q.cancelled => parts \subseteq {q.by})
        BY <1>d, <1>c, <2>1
  <2>3. CASE agent
    <3>1. turn' = [turn EXCEPT ![t] = [q EXCEPT !.pc = "agent", !.gen = gen, !.parts = parts]]
          BY <1>4, <2>3 DEF SkillInjected
    <3> HIDE DEF parts
    <3> QED BY <1>1, <1>a, <2>1, <2>2, <3>1
  <2>4. CASE ~agent
    <3>1. SealChat(t, parts)
          BY <1>4, <2>4 DEF SkillInjected
    <3> HIDE DEF parts
    <3> QED BY <2>1, <2>2, <3>1, SealMoves
  <2> QED BY <2>3, <2>4
<1>5. ASSUME NEW found \in BOOLEAN, NEW chain \in 0..MaxSubagents, AgentResolved(t, found, chain)
      PROVE  TabInv'
  <2> DEFINE agent == found /\ px[q.gen].ready = "resolved" /\ ReadOf(q.gen) = {q.by}
             parts == q.parts \cup IF agent THEN ReadOf(q.gen) ELSE {}
  <2>1. q.pc = "agent" /\ UNCHANGED <<authVars, storeVars, doc, history>> /\ (0 < chain => agent)
        BY <1>5 DEF AgentResolved
  <2>2. parts \subseteq Seeds /\ (~q.cancelled => parts \subseteq {q.by})
        BY <1>d, <1>c, <2>1
  <2>3. CASE 0 < chain
    <3> DEFINE r == [q EXCEPT !.pc = "listing", !.parts = parts, !.left = chain]
    <3>1. turn' = [turn EXCEPT ![t] = r]
          BY <1>5, <2>3 DEF AgentResolved
    <3>2. q.gen = gen /\ auth = q.by
          BY <1>c, <1>d, <2>1, <2>3
    <3>3. /\ r \in TurnRecords /\ r.pc = "listing" /\ r.parts = parts /\ r.gen = q.gen /\ r.left = chain
          /\ r.by = q.by /\ r.asked = q.asked /\ r.cancelled = q.cancelled
      <4> HIDE DEF parts, agent
      <4> QED BY <1>0, <2>2 DEF TurnRecords
    <3>4. gen <= gen
          BY <1>a, NoneIsNew
    <3> HIDE DEF r, parts, agent
    <3>5. TurnSound(r)
          BY <1>a, <1>d, <2>1, <2>2, <2>3, <3>2, <3>3, <3>4 DEF TurnSound, Delegating
    <3> QED BY <2>1, <3>1, <3>3, <3>5, TurnMoves
  <2>4. CASE ~(0 < chain)
    <3>1. SealChat(t, parts)
          BY <1>5, <2>4 DEF AgentResolved
    <3> HIDE DEF parts, agent
    <3> QED BY <2>1, <2>2, <3>1, SealMoves
  <2> QED BY <2>3, <2>4
<1>6. q.pc \in Delegating => q.left \in 0..MaxSubagents /\ q.left - 1 \in 0..MaxSubagents
      BY <1>0, SubagentsAssumption DEF TurnSound, TurnRecords
<1>7. CASE Listed(t)
      BY <1>6, <1>7, NextSubagentMoves DEF Listed, Delegating
<1>8. ASSUME NEW found \in BOOLEAN, SubagentResolved(t, found) PROVE TabInv'
  <2>1. q.pc = "resolving" /\ UNCHANGED <<authVars, storeVars, doc, history>>
        BY <1>8 DEF SubagentResolved
  <2>2. CASE found /\ Alive(q.gen) /\ ident # None /\ hs # None
    <3> DEFINE r == [q EXCEPT !.pc = "consulting", !.acct = ident]
    <3>1. turn' = [turn EXCEPT ![t] = r]
          BY <1>8, <2>2 DEF SubagentResolved
    <3>2. /\ r \in TurnRecords /\ r.pc = "consulting" /\ r.parts = q.parts /\ r.gen = q.gen /\ r.left = q.left
          /\ r.by = q.by /\ r.asked = q.asked /\ r.cancelled = q.cancelled /\ r.acct = ident
          BY <1>0 DEF TurnRecords, TabInv, Basic, Types
    <3>3. /\ q.gen \in Gens /\ q.gen <= gen /\ auth = q.by /\ 0 < q.left
          BY <1>0, <2>1, <2>2 DEF TurnSound, Delegating, Alive
    <3>4. ident = q.by
          BY <1>d, <2>1, <3>3, NoneIsNew DEF TabInv, TabSound
    <3> HIDE DEF r
    <3>5. TurnSound(r)
          BY <1>d, <2>1, <3>2, <3>3, <3>4 DEF TurnSound, Delegating
    <3> QED BY <2>1, <3>1, <3>2, <3>5, TurnMoves
  <2>3. CASE ~(found /\ Alive(q.gen) /\ ident # None /\ hs # None)
    <3>1. NextSubagent(t, q.left - 1)
          BY <1>8, <2>3 DEF SubagentResolved
    <3> QED BY <1>6, <2>1, <3>1, NextSubagentMoves DEF Delegating
  <2> QED BY <2>2, <2>3
<1>9. CASE SubagentSend(t)
  <2>1. q.pc = "consulting" /\ UNCHANGED <<authVars, storeVars, doc, history>>
        BY <1>9 DEF SubagentSend
  <2>2. CASE ident = None
    <3>1. NextSubagent(t, q.left - 1)
          BY <1>9, <2>2 DEF SubagentSend
    <3> QED BY <1>6, <2>1, <3>1, NextSubagentMoves DEF Delegating
  <2>3. CASE ident # None
    <3> DEFINE x == [acct |-> q.acct, parts |-> q.parts]
               as == q.asked \cup {x}
               r == [q EXCEPT !.pc = "awaiting", !.asked = as]
    <3>1. turn' = [turn EXCEPT ![t] = r]
          BY <1>9, <2>3 DEF SubagentSend
    <3>2. q.acct = q.by /\ q.gen \in Gens /\ q.gen <= gen /\ (q.gen = gen => auth = q.by) /\ 0 < q.left
          BY <1>0, <2>1 DEF TurnSound, Delegating
    <3>3. as \in SUBSET [acct : Seeds, parts : SUBSET Seeds]
          BY <1>0, <1>d, <2>1, <3>2 DEF TurnRecords
    <3>4. \A y \in as : y.acct = q.by
          BY <1>d, <2>1, <3>2
    <3> HIDE DEF as
    <3>5. /\ r \in TurnRecords /\ r.pc = "awaiting" /\ r.parts = q.parts /\ r.gen = q.gen /\ r.left = q.left
          /\ r.by = q.by /\ r.asked = as /\ r.cancelled = q.cancelled
          BY <1>0, <3>3 DEF TurnRecords
    <3> HIDE DEF r
    <3>6. TurnSound(r)
          BY <1>d, <2>1, <3>2, <3>4, <3>5 DEF TurnSound, Delegating
    <3> QED BY <2>1, <3>1, <3>5, <3>6, TurnMoves
  <2> QED BY <2>2, <2>3
<1>10. CASE SubagentAnswered(t)
      BY <1>6, <1>10, NextSubagentMoves DEF SubagentAnswered, Delegating
<1>11. CASE Send(t)
  <2> DEFINE p == IF ident = None THEN "failed" ELSE IF q.cancelled THEN "dropped" ELSE "sent"
             r == [q EXCEPT !.hdr = ident, !.pc = p]
  <2>1. q.pc = "sealed" /\ turn' = [turn EXCEPT ![t] = r] /\ UNCHANGED <<authVars, storeVars, doc, history>>
        BY <1>11 DEF Send
  <2>2. /\ r \in TurnRecords /\ r.pc = p /\ r.parts = q.parts /\ r.by = q.by /\ r.asked = q.asked
        /\ r.cancelled = q.cancelled /\ r.hdr = ident /\ r.acct = q.acct
    <3>1. p \in {"failed", "dropped", "sent"} /\ ident \in Seeds \cup {None}
          BY DEF TabInv, Basic, Types
    <3> HIDE DEF p, q
    <3> QED BY <1>0, <3>1 DEF TurnRecords
  <2>3. ~q.cancelled => q.acct = q.by /\ ident = q.by /\ q.parts \subseteq {q.by}
        BY <1>0, <1>d, <2>1, NoneIsNew DEF TurnSound, TabInv, TabSound
  <2>4. p \in {"failed", "dropped", "sent"} /\ (p = "sent" => ~q.cancelled)
        OBVIOUS
  <2> HIDE DEF r, p
  <2>5. TurnSound(r)
        BY <1>d, <2>1, <2>2, <2>3, <2>4 DEF TurnSound, Delegating
  <2> QED BY <2>1, <2>2, <2>5, TurnMoves
<1> QED BY <1>2, <1>3, <1>4, <1>5, <1>7, <1>8, <1>9, <1>10, <1>11 DEF TurnStep
-----------------------------------------------------------------------------
(* Documents *)

LEMMA IngestGoesOn ==
    ASSUME TabInv, Basic', NEW d \in Docs, IngestStep(d)
    PROVE  TabInv'
<1>1. CASE UNCHANGED <<authVars, storeVars, turn, history>>
      BY <1>1, AttemptsKept, StoreKept, TurnsKept DEF TabInv, authVars, storeVars, history
<1>2. CASE Stored(d)
  <2>1. /\ px[gen].ready = "resolved" /\ hyd' = hyd \cup {gen}
        /\ UNCHANGED <<authVars, gen, px, idx, turn, history>>
        BY <1>2 DEF Stored, Alive
  <2>2. StoreSound'
        BY <2>1 DEF TabInv, StoreSound, authVars
  <2> QED BY <2>1, <2>2, AttemptsKept, TurnsKept DEF TabInv, authVars, history
<1> QED BY <1>1, <1>2 DEF IngestStep, Ingest, Embedded, IngestFailed

-----------------------------------------------------------------------------
(* The theorems *)

\* A submission that ran in a mixed tab goes on after the lock that made the tab whole.
LEMMA OthersGoOn ==
    ASSUME TabInv, Basic', NEW t \in mixedTurns, TurnStep(t), UNCHANGED <<authVars, storeVars, doc, history>>
    PROVE  TabInv'
<1>1. \A x \in Turns : x # t => turn'[x] = turn[x]
      BY DEF TurnStep, Augmented, Injected, SkillInjected, AgentResolved, Listed, SubagentResolved,
             SubagentSend, SubagentAnswered, Send, SealChat, NextSubagent, TabInv, Basic, Types
<1>2. TurnsSound'
      BY <1>1 DEF TabInv, TurnsSound, TurnSound, authVars, storeVars, history
<1> QED BY <1>2, AttemptsKept, StoreKept DEF TabInv, authVars, storeVars

LEMMA WholeStep ==
    ASSUME IInv, ~mixed, [Next]_vars, Basic'
    PROVE  IInv'
<1>0. TabInv
      BY DEF IInv
<1>1. ASSUME mixed' = mixed, TabInv' PROVE IInv'
      BY <1>1 DEF IInv, TabInv, Marked
<1>2. ASSUME NEW u \in Attempts, UnlockStep(u) PROVE IInv'
  <2>1. mixed' = mixed
        BY <1>2 DEF UnlockStep, UnlockSeed, Onboarded, EstablishSession, PostSession, Unlocked,
                    UnlockFailed, StoreOpened, OpenFailed, history
  <2> QED BY <1>0, <1>1, <1>2, <2>1, UnlockGoesOn
<1>3. ASSUME NEW u \in Attempts, NEW s \in Seeds, Unlock(u, s) PROVE IInv'
  <2>1. CASE ~Overlapping
    <3>1. mixed' = mixed
          BY <1>3, <2>1 DEF Unlock, IInv, Basic, Types
    <3> QED BY <1>0, <1>1, <1>3, <2>1, <3>1, UnlockStarts
  \* The second unlock mixes the tab: what still runs is marked, the rest was cancelled.
  <2>2. CASE Overlapping
    <3>1. /\ auth = None /\ mixed' = TRUE /\ UNCHANGED <<turn, gen, auth>>
          /\ mixedTurns' = mixedTurns \cup {t \in Turns : Gathering(turn[t])}
          BY <1>3, <2>2 DEF Unlock, storeVars
    <3>2. TurnsSound'
          BY <1>0, <3>1 DEF TabInv, TurnsSound, TurnSound
    <3>3. Marked'
      <4> SUFFICES ASSUME NEW t \in Turns \ mixedTurns'
                   PROVE  turn[t].pc = "idle" \/ (~Gathering(turn[t]) /\ turn[t].cancelled)
          BY <3>1 DEF Marked, Gathering
      <4>1. TurnSound(turn[t]) /\ ~Gathering(turn[t])
            BY <1>0, <3>1 DEF TabInv, TurnsSound
      <4> QED BY <3>1, <4>1, NoneIsNew DEF TurnSound
    <3> QED BY <3>1, <3>2, <3>3 DEF IInv
  <2> QED BY <2>1, <2>2
<1>4. CASE Lock
  <2>1. \A u \in Attempts : ~Running(att[u])
        BY <1>0, <1>4 DEF TabInv, AttSound, Lock
  <2>2. mixed' = FALSE
        BY <1>4 DEF Lock
  <2> QED BY <1>0, <1>4, <2>1, <2>2, LockCancels DEF IInv, TabInv, Marked
<1>5. ASSUME NEW g \in Gens, Hydrate(g) PROVE IInv'
      BY <1>0, <1>1, <1>5, HydrateFills DEF Hydrate, history
<1>6. ASSUME NEW t \in Turns, Submit(t) PROVE IInv'
      BY <1>0, <1>1, <1>6, SubmitStarts DEF Submit
<1>7. ASSUME NEW t \in Turns, TurnStep(t) PROVE IInv'
  <2>1. UNCHANGED <<authVars, storeVars, doc, history>>
        BY <1>0, <1>7, TurnStepForms DEF TabInv
  <2>2. TabInv'
        BY <1>0, <1>7, <2>1, TurnGoesOn, OthersGoOn
  <2> QED BY <1>1, <2>1, <2>2 DEF history
<1>8. ASSUME NEW d \in Docs, IngestStep(d) PROVE IInv'
  <2>1. mixed' = mixed
        BY <1>8 DEF IngestStep, Ingest, Embedded, Stored, IngestFailed, history
  <2> QED BY <1>0, <1>1, <1>8, <2>1, IngestGoesOn
<1>9. CASE UNCHANGED vars
      BY <1>0, <1>1, <1>9, AttemptsKept, StoreKept, TurnsKept DEF vars, authVars, storeVars, history, TabInv
<1> QED BY <1>2, <1>3, <1>4, <1>5, <1>6, <1>7, <1>8, <1>9 DEF Next

LEMMA MixedStep ==
    ASSUME IInv, mixed, [Next]_vars, Basic'
    PROVE  IInv'
<1>0. \A t \in Turns \ mixedTurns :
        TurnSound(turn[t]) /\ (turn[t].pc = "idle" \/ (~Gathering(turn[t]) /\ turn[t].cancelled))
      BY DEF IInv, Marked, TurnsSound
<1>1. CASE Lock
  <2>1. CASE ~Overlapping
    <3>1. \A u \in Attempts : ~Running(att[u])
          BY <2>1 DEF Overlapping, InFlight, Running
    <3>2. mixed' = FALSE
          BY <1>1, <2>1 DEF Lock
    <3> QED BY <1>1, <3>1, <3>2, LockCancels DEF IInv, TabInv, Marked
  <2>2. CASE Overlapping
    <3>1. mixed' = TRUE /\ mixedTurns' = mixedTurns
          BY <1>1, <2>2 DEF Lock
    <3>2. ASSUME NEW t \in Turns \ mixedTurns
          PROVE  TurnSound(turn[t])' /\ (turn'[t].pc = "idle" \/ (~Gathering(turn'[t]) /\ turn'[t].cancelled))
      <4>1. PICK q \in TurnRecords : q = turn[t]
            BY DEF IInv, Basic, Types
      <4>2. PICK b \in BOOLEAN : b = (q.cancelled \/ q.pc # "idle")
            BY <4>1 DEF TurnRecords
      <4> DEFINE r == [q EXCEPT !.cancelled = b]
      <4>3. turn'[t] = r
            BY <1>1, <4>1, <4>2 DEF Lock
      <4>4. /\ r.pc = q.pc /\ r.by = q.by /\ r.gen = q.gen /\ r.parts = q.parts
            /\ r.acct = q.acct /\ r.hdr = q.hdr /\ r.left = q.left /\ r.asked = q.asked /\ r.cancelled = b
            BY DEF TurnRecords
      <4>5. TurnSound(q) /\ (q.pc = "idle" \/ (~Gathering(q) /\ q.cancelled))
            BY <1>0, <4>1
      <4> HIDE DEF r
      <4>6. TurnSound(r)'
            BY <4>2, <4>4, <4>5 DEF TurnSound, Delegating, Gathering
      <4> QED BY <4>2, <4>3, <4>4, <4>5, <4>6 DEF Gathering
    <3> QED BY <3>1, <3>2 DEF IInv, Marked, TurnsSound
  <2> QED BY <2>1, <2>2
<1>2. CASE ~Lock
  <2>1. mixed' = TRUE /\ mixedTurns \subseteq mixedTurns'
    <3>1. mixed = TRUE
          BY DEF IInv, Basic, Types
    <3>2. ASSUME NEW u \in Attempts, UnlockStep(u) PROVE UNCHANGED history
          BY <3>2 DEF UnlockStep, UnlockSeed, Onboarded, EstablishSession, PostSession, Unlocked,
                      UnlockFailed, StoreOpened, OpenFailed
    <3>3. ASSUME NEW u \in Attempts, NEW s \in Seeds, Unlock(u, s)
          PROVE  mixed' = TRUE /\ mixedTurns \subseteq mixedTurns'
          BY <3>1, <3>3 DEF Unlock
    <3>4. ASSUME NEW t \in Turns, Submit(t) \/ TurnStep(t)
          PROVE  mixed' = mixed /\ mixedTurns \subseteq mixedTurns'
          BY <3>4, TurnStepForms DEF IInv, Submit, history
    <3>5. ASSUME NEW g \in Gens, Hydrate(g) PROVE UNCHANGED history
          BY <3>5 DEF Hydrate
    <3>6. ASSUME NEW d \in Docs, IngestStep(d) PROVE UNCHANGED history
          BY <3>6 DEF IngestStep, Ingest, Embedded, Stored, IngestFailed
    <3> QED BY <1>2, <3>1, <3>2, <3>3, <3>4, <3>5, <3>6 DEF Next, vars, history
  <2>2. \A t \in Turns \ mixedTurns' : turn'[t] = turn[t]
    <3>1. ASSUME NEW u \in Attempts, UnlockStep(u) \/ \E s \in Seeds : Unlock(u, s) PROVE turn' = turn
          BY <3>1 DEF Unlock, UnlockStep, UnlockSeed, Onboarded, EstablishSession, PostSession, Unlocked,
                      UnlockFailed, StoreOpened, OpenFailed
    <3>2. ASSUME NEW t \in Turns, Submit(t)
          PROVE  t \in mixedTurns' /\ \A x \in Turns : x # t => turn'[x] = turn[x]
          BY <3>2 DEF Submit, IInv, Basic, Types
    \* Only marked submissions go on.
    <3>3. ASSUME NEW t \in Turns, TurnStep(t)
          PROVE  t \in mixedTurns' /\ \A x \in Turns : x # t => turn'[x] = turn[x]
      <4>1. Gathering(turn[t]) /\ turn[t].pc # "idle"
            BY <3>3 DEF TurnStep, Augmented, Injected, SkillInjected, AgentResolved, Listed, SubagentResolved,
                        SubagentSend, SubagentAnswered, Send, Gathering
      <4>2. \A x \in Turns : x # t => turn'[x] = turn[x]
            BY <3>3 DEF TurnStep, Augmented, Injected, SkillInjected, AgentResolved, Listed, SubagentResolved,
                        SubagentSend, SubagentAnswered, Send, SealChat, NextSubagent, IInv, Basic, Types
      <4> QED BY <1>0, <2>1, <4>1, <4>2
    <3>4. ASSUME NEW g \in Gens, Hydrate(g) PROVE turn' = turn
          BY <3>4 DEF Hydrate
    <3>5. ASSUME NEW d \in Docs, IngestStep(d) PROVE turn' = turn
          BY <3>5 DEF IngestStep, Ingest, Embedded, Stored, IngestFailed
    <3> QED BY <1>2, <3>1, <3>2, <3>3, <3>4, <3>5 DEF Next, vars
  <2>3. TurnsSound' /\ Marked'
        BY <1>0, <2>1, <2>2 DEF TurnsSound, TurnSound, Marked, Gathering, Delegating
  <2> QED BY <2>1, <2>3 DEF IInv
<1> QED BY <1>1, <1>2

LEMMA TabStep == IInv /\ [Next]_vars => IInv'
<1> SUFFICES ASSUME IInv, [Next]_vars PROVE IInv'
    OBVIOUS
<1>1. Basic'
      BY BasicStep DEF IInv
<1> QED BY <1>1, WholeStep, MixedStep

LEMMA TabImplies == IInv => TabIsOneIdentity /\ SentAsAuthor
<1> SUFFICES ASSUME IInv PROVE TabIsOneIdentity /\ SentAsAuthor
    OBVIOUS
<1>1. TypeOK
      BY DEF IInv, Basic, Types, TypeOK, AttRecords, ProxyRecords, TurnRecords, DocRecords
<1>2. ~mixed => StoreMatchesIdentity /\ SessionMatchesIdentity
      BY DEF IInv, TabInv, StoreSound, TabSound, StoreMatchesIdentity
<1>3. SentAsAuthor
      BY DEF IInv, TurnsSound, TurnSound, SentAsAuthor
<1> QED BY <1>1, <1>2, <1>3 DEF TabIsOneIdentity

LEMMA TabInvariant == Spec => []IInv
  BY TabInitial, TabStep, PTL DEF Spec

(***************************************************************************)
(* AuthContext: the open store, the identity, the session and the user of a*)
(* tab belong together through any number of locks, failed unlocks and late*)
(* answers, unless an unlock began while another was in flight; and then   *)
(* they do so again from the next lock that finds no unlock in flight.     *)
(***************************************************************************)
THEOREM TabHasOneIdentity == Spec => []TabIsOneIdentity
  BY TabInvariant, TabImplies, PTL

(***************************************************************************)
(* useSSE: a prompt is sealed, signed and filled from the store for the    *)
(* identity that typed it, and a subagent is asked under that identity,    *)
(* whoever unlocks the tab while it is being gathered, unless unlocks      *)
(* overlapped while it was under way.                                      *)
(***************************************************************************)
THEOREM PromptsSentAsAuthor == Spec => []SentAsAuthor
  BY TabInvariant, TabImplies, PTL
=============================================================================
