---------------------------- MODULE SessionChannel ----------------------------
(***************************************************************************)
(* The confidential session channel between client devices and the gateway *)
(* that runs inside the CVM: the attestation fetch, the delivery of the    *)
(* working-memory key (WMK) over POST /v1/session, and sealed chat turns   *)
(* over POST /v1/chat, with other devices of the same account, abandoned   *)
(* handshakes and gateway restarts in between.                             *)
(*                                                                         *)
(* The gateway is one asyncio process.  A handler runs without interleaving*)
(* up to its first await, so POST /v1/session is one step, the opening of a*)
(* prompt is one step, and every delta of a streamed reply is one step:    *)
(* anything may happen between two deltas.                                 *)
(*                                                                         *)
(* A key pair is an abstract identity: a client's ephemeral key is the pair*)
(* <<device, number>>, the CVM's key is the number of the gateway process. *)
(* A sealed envelope records the key, account and purpose it was sealed    *)
(* for.                                                                    *)
(***************************************************************************)
EXTENDS Naturals, Sequences

CONSTANTS
    Devices,        \* browsers and apps
    Accounts,
    Owner,          \* Owner[d]: the account whose seed device d holds
    Turns,          \* chat turns, each submitted at most once
    MaxHandshakes,  \* bound: handshakes started by one device
    MaxProcesses,   \* bound: gateway processes (restarts + 1)
    MaxDeltas,      \* bound: sealed deltas of one reply
    RelayFaithful,  \* TRUE iff the relay pairs every header with its own body
    NoSession,      \* sessions[a] when account a has no session
    NoKey           \* the session key of a device that has none

Ephs == Devices \X Nat
SKs == [eph : Ephs, cvm : Nat]
Kinds == {"wmk-delivery", "chat"}
Envelopes == [sk : SKs, acct : Accounts, purpose : Kinds, body : Kinds \X Accounts]

ASSUME OwnerAssumption == Owner \in [Devices -> Accounts]
ASSUME BoundsAssumption ==
    MaxHandshakes \in Nat /\ MaxProcesses \in Nat /\ MaxDeltas \in Nat
ASSUME RelayAssumption == RelayFaithful \in BOOLEAN
ASSUME NoKeyAssumption ==
    NoKey \notin SKs /\ NoSession \notin [sk : SKs, wmk : Kinds \X Accounts]

VARIABLES
    cvm,        \* the running gateway process and hence its X25519 key pair
    sessions,   \* SessionManager._sessions: account -> {SK, WMK}
    dev,        \* dev[d]: the client's handshake phase, current ephemeral key and SK
    attestQ,    \* GET /v1/attestation requests in flight (the challenged key)
    evidence,   \* attestation answers in flight
    sessionQ,   \* POST /v1/session requests in flight
    sessionR,   \* answers to POST /v1/session in flight
    chatQ,      \* POST /v1/chat requests in flight
    cl,         \* cl[t]: the submitting device's view of turn t
    gw,         \* gw[t]: the gateway's view of turn t
    stream      \* stream[t]: SSE events of turn t not yet handled by the client

handshakeVars == <<dev, attestQ, evidence, sessionQ, sessionR>>
turnVars == <<chatQ, cl, gw, stream>>
vars == <<cvm, sessions, handshakeVars, turnVars>>

-----------------------------------------------------------------------------
(* Cryptography, by what it distinguishes *)

\* Both ends derive the same SK from the two public keys bound into the KDF.
DeriveSessionKey(eph, pub) == [eph |-> eph, cvm |-> pub]

Seal(sk, acct, purpose, body) ==
    [sk |-> sk, acct |-> acct, purpose |-> purpose, body |-> body]

\* Mutant: the wire AAD is not compared with the authenticated account.
OpensAnyAccount(sk, acct, purpose, env) == env.purpose = purpose /\ env.sk = sk

\* _open: the AAD must bind this account and purpose, and the AEAD this key.
Opens(sk, acct, purpose, env) ==
    /\ env.acct = acct
    /\ env.purpose = purpose
    /\ env.sk = sk

Wmk(a) == <<"wmk-delivery", a>>
Prompt(a) == <<"chat", a>>

-----------------------------------------------------------------------------
Init ==
    /\ cvm = 1
    /\ sessions = [a \in Accounts |-> NoSession]
    /\ dev = [d \in Devices |-> [phase |-> "locked", eph |-> 0, sk |-> NoKey]]
    /\ attestQ = {}
    /\ evidence = {}
    /\ sessionQ = {}
    /\ sessionR = {}
    /\ chatQ = {}
    /\ cl = [t \in Turns |-> [st |-> "idle", sk |-> NoKey, lost |-> FALSE]]
    /\ gw = [t \in Turns |-> [st |-> "idle", acct |-> NoSession,
                              prompt |-> NoSession, sealed |-> 0]]
    /\ stream = [t \in Turns |-> <<>>]

-----------------------------------------------------------------------------
(* Client: the handshake *)

\* handshake(): a fresh ephemeral key, challenged in GET /v1/attestation.
StartHandshake(d) ==
    /\ dev[d].phase = "locked"
    /\ dev[d].eph < MaxHandshakes
    /\ dev' = [dev EXCEPT ![d].phase = "attesting", ![d].eph = @ + 1]
    /\ attestQ' = attestQ \cup {<<d, dev[d].eph + 1>>}
    /\ UNCHANGED <<cvm, sessions, evidence, sessionQ, sessionR, turnVars>>

\* Mutant: the handshake does not wait for the answer to POST /v1/session.
EstablishUnawaited(d, e) ==
    LET sk == DeriveSessionKey(e.eph, e.pub) IN
    /\ dev[d].phase = "attesting"
    /\ e.eph = <<d, dev[d].eph>>
    /\ evidence' = evidence \ {e}
    /\ sessionQ' = sessionQ \cup
         {[acct |-> Owner[d], eph |-> e.eph,
           env |-> Seal(sk, Owner[d], "wmk-delivery", Wmk(Owner[d]))]}
    /\ dev' = [dev EXCEPT ![d].phase = "ready", ![d].sk = sk]
    /\ UNCHANGED <<cvm, sessions, attestQ, sessionR, turnVars>>

\* The evidence answers this handshake's challenge and the verdict is ok (a
\* refusal is Abandon): derive SK against its session_pub, deliver the sealed WMK.
EstablishSession(d, e) ==
    LET sk == DeriveSessionKey(e.eph, e.pub) IN
    /\ dev[d].phase = "attesting"
    /\ e.eph = <<d, dev[d].eph>>
    /\ evidence' = evidence \ {e}
    /\ sessionQ' = sessionQ \cup
         {[acct |-> Owner[d], eph |-> e.eph,
           env |-> Seal(sk, Owner[d], "wmk-delivery", Wmk(Owner[d]))]}
    /\ dev' = [dev EXCEPT ![d].phase = "establishing", ![d].sk = sk]
    /\ UNCHANGED <<cvm, sessions, attestQ, sessionR, turnVars>>

\* Mutant: the phase after a 200 is one no other step knows.
EstablishedUnknown(d, r) ==
    /\ dev[d].phase = "establishing"
    /\ r.eph = <<d, dev[d].eph>>
    /\ r.ok
    /\ sessionR' = sessionR \ {r}
    /\ dev' = [dev EXCEPT ![d].phase = "established"]
    /\ UNCHANGED <<cvm, sessions, attestQ, evidence, sessionQ, turnVars>>

\* POST /v1/session answered 200: the session key is kept and chat is possible.
SessionEstablished(d, r) ==
    /\ dev[d].phase = "establishing"
    /\ r.eph = <<d, dev[d].eph>>
    /\ r.ok
    /\ sessionR' = sessionR \ {r}
    /\ dev' = [dev EXCEPT ![d].phase = "ready"]
    /\ UNCHANGED <<cvm, sessions, attestQ, evidence, sessionQ, turnVars>>

\* Lock, page reload, a failed verdict, an error status or a failed fetch: the
\* client forgets the handshake and its open turns.  Requests it has already
\* sent stay in flight.
Abandon(d) ==
    /\ dev[d].phase # "locked"
    /\ dev' = [dev EXCEPT ![d].phase = "locked", ![d].sk = NoKey]
    /\ cl' = [t \in Turns |->
                IF cl[t].st = "open" /\ cl[t].sk.eph[1] = d
                THEN [cl[t] EXCEPT !.st = "abandoned"] ELSE cl[t]]
    /\ UNCHANGED <<cvm, sessions, attestQ, evidence, sessionQ, sessionR, chatQ, gw, stream>>

\* sealChat: seal the prompt under the held SK and POST /v1/chat.
Submit(d, t) ==
    /\ dev[d].phase = "ready"
    /\ cl[t].st = "idle"
    /\ cl' = [cl EXCEPT ![t] = [st |-> "open", sk |-> dev[d].sk, lost |-> FALSE]]
    /\ chatQ' = chatQ \cup
         {[turn |-> t, acct |-> Owner[d],
           env |-> Seal(dev[d].sk, Owner[d], "chat", Prompt(Owner[d]))]}
    /\ UNCHANGED <<cvm, sessions, handshakeVars, gw, stream>>

\* One SSE event at the client.  A delta is opened under the held SK; one that
\* does not open is logged and left out of the text (useSSE's delta chain).
Receive(t) ==
    LET ev == Head(stream[t]) IN
    /\ cl[t].st = "open"
    /\ stream[t] # <<>>
    /\ stream' = [stream EXCEPT ![t] = Tail(@)]
    /\ cl' = [cl EXCEPT ![t].st   = CASE ev.kind = "token" -> "open"
                                      [] ev.kind = "done"  -> "done"
                                      [] ev.kind = "error" -> "failed"
                                      [] ev.kind = "refused" -> "refused",
                        ![t].lost = @ \/ (ev.kind = "token" /\ ev.sk # cl[t].sk)]
    /\ UNCHANGED <<cvm, sessions, handshakeVars, chatQ, gw>>

-----------------------------------------------------------------------------
(* Gateway: one action per handler step *)

\* GET /v1/attestation: evidence for the challenge, carrying this process's
\* session_pub (after a 503 the client abandons the handshake).
Attest(eph) ==
    /\ attestQ' = attestQ \ {eph}
    /\ evidence' = evidence \cup {[eph |-> eph, pub |-> cvm]}
    /\ UNCHANGED <<cvm, sessions, dev, sessionQ, sessionR, turnVars>>

\* SessionManager.establish, reached with the account of m's signed header and
\* the body of b (b = m when the relay pairs them faithfully; the signature
\* does not cover the body).  Last write wins.
Establish(m, b) ==
    LET sk == DeriveSessionKey(b.eph, cvm)
        ok == Opens(sk, m.acct, "wmk-delivery", b.env) IN
    /\ sessionQ' = sessionQ \ {m}
    /\ sessions' = IF ok THEN [sessions EXCEPT ![m.acct] = [sk |-> sk, wmk |-> b.env.body]]
                         ELSE sessions
    /\ sessionR' = sessionR \cup {[eph |-> m.eph, ok |-> ok]}
    /\ UNCHANGED <<cvm, dev, attestQ, evidence, turnVars>>

\* Mutant: the account comes from the envelope, not from the signed header.
ChatByEnvelope(m, env) ==
    LET s  == sessions[env.acct]
        ok == s # NoSession /\ Opens(s.sk, env.acct, "chat", env) IN
    /\ chatQ' = chatQ \ {m}
    /\ gw' = [gw EXCEPT ![m.turn] =
                IF ok THEN [st |-> "running", acct |-> m.acct, prompt |-> env.body, sealed |-> 0]
                      ELSE [@ EXCEPT !.st = "ended"]]
    /\ stream' = IF ok THEN stream
                 ELSE [stream EXCEPT ![m.turn] = Append(@, [kind |-> "refused", sk |-> NoKey])]
    /\ UNCHANGED <<cvm, sessions, handshakeVars, cl>>

\* POST /v1/chat up to the stream: 428 without a session, 400 when the prompt
\* does not open under the account's current SK, else the prompt is in TEE RAM.
Chat(m, env) ==
    LET s  == sessions[m.acct]
        ok == s # NoSession /\ Opens(s.sk, m.acct, "chat", env) IN
    /\ chatQ' = chatQ \ {m}
    /\ gw' = [gw EXCEPT ![m.turn] =
                IF ok THEN [st |-> "running", acct |-> m.acct, prompt |-> env.body, sealed |-> 0]
                      ELSE [@ EXCEPT !.st = "ended"]]
    /\ stream' = IF ok THEN stream
                 ELSE [stream EXCEPT ![m.turn] = Append(@, [kind |-> "refused", sk |-> NoKey])]
    /\ UNCHANGED <<cvm, sessions, handshakeVars, cl>>

\* seal_for: one delta, under whatever SK the account has at this moment.
SealDelta(t) ==
    /\ gw[t].st = "running"
    /\ gw[t].sealed < MaxDeltas
    /\ gw' = [gw EXCEPT ![t].sealed = @ + 1]
    /\ stream' = [stream EXCEPT ![t] =
                    Append(@, [kind |-> "token", sk |-> sessions[gw[t].acct].sk])]
    /\ UNCHANGED <<cvm, sessions, handshakeVars, chatQ, cl>>

\* The reply ends with `done`, or with `error` when the upstream failed.
EndReply(t, kind) ==
    /\ gw[t].st = "running"
    /\ gw' = [gw EXCEPT ![t].st = "ended"]
    /\ stream' = [stream EXCEPT ![t] = Append(@, [kind |-> kind, sk |-> NoKey])]
    /\ UNCHANGED <<cvm, sessions, handshakeVars, chatQ, cl>>

\* Mutant: a restart leaves the clients of broken streams waiting.
RestartSilently ==
    /\ cvm < MaxProcesses
    /\ cvm' = cvm + 1
    /\ sessions' = [a \in Accounts |-> NoSession]
    /\ gw' = [t \in Turns |-> [gw[t] EXCEPT !.st = "ended"]]
    /\ UNCHANGED <<handshakeVars, chatQ, cl, stream>>

\* The process restarts: a new key pair, no sessions, open streams broken off.
Restart ==
    /\ cvm < MaxProcesses
    /\ cvm' = cvm + 1
    /\ sessions' = [a \in Accounts |-> NoSession]
    /\ gw' = [t \in Turns |-> IF gw[t].st = "running"
                              THEN [gw[t] EXCEPT !.st = "ended"] ELSE gw[t]]
    /\ stream' = [t \in Turns |-> IF gw[t].st = "running"
                                  THEN Append(stream[t], [kind |-> "error", sk |-> NoKey])
                                  ELSE stream[t]]
    /\ UNCHANGED <<handshakeVars, chatQ, cl>>

-----------------------------------------------------------------------------
\* What the relay may pair with a header: the request's own body, or, when it
\* is not faithful, that of another request of the same or the other route.
SessionBodies(m) == IF RelayFaithful THEN {m} ELSE sessionQ
ChatBodies(m) ==
    IF RelayFaithful THEN {m.env}
    ELSE {x.env : x \in chatQ} \cup {x.env : x \in sessionQ}

GatewayStep(t) == SealDelta(t) \/ EndReply(t, "done") \/ EndReply(t, "error")

ServeAttest(d) == \E eph \in attestQ : eph[1] = d /\ Attest(eph)
ServeSession(d) == \E m \in sessionQ : m.eph[1] = d /\ \E b \in SessionBodies(m) : Establish(m, b)
ServeChat(t) == \E m \in chatQ : m.turn = t /\ \E env \in ChatBodies(m) : Chat(m, env)

ClientHandshake(d) ==
    \/ \E e \in evidence : EstablishSession(d, e)
    \/ \E r \in sessionR : SessionEstablished(d, r)

Next ==
    \/ \E d \in Devices : \/ StartHandshake(d)
                          \/ ClientHandshake(d)
                          \/ Abandon(d)
                          \/ ServeAttest(d)
                          \/ ServeSession(d)
                          \/ \E t \in Turns : Submit(d, t)
    \/ \E t \in Turns : Receive(t) \/ ServeChat(t) \/ GatewayStep(t)
    \/ Restart

Spec == Init /\ [][Next]_vars

\* Handlers run to completion (the event loop serves every request, a call of
\* the inference provider ends by its answer or by inference_timeout; a Letta
\* stream, which has no timeout, is out of the question here) and the client's
\* event loop handles every event it is sent.
Fairness ==
    \A t \in Turns : WF_vars(Receive(t)) /\ WF_vars(ServeChat(t)) /\ WF_vars(GatewayStep(t))

FairSpec == Spec /\ Fairness

-----------------------------------------------------------------------------
Phases == {"locked", "attesting", "establishing", "ready"}
TurnStates == {"idle", "open", "done", "failed", "refused", "abandoned"}
Events == [kind : {"token", "done", "error", "refused"}, sk : SKs \cup {NoKey}]

SessionsType ==
    /\ cvm \in Nat
    /\ sessions \in [Accounts -> [sk : SKs, wmk : Kinds \X Accounts] \cup {NoSession}]
DevType == dev \in [Devices -> [phase : Phases, eph : Nat, sk : SKs \cup {NoKey}]]
AttestType ==
    /\ attestQ \subseteq Ephs
    /\ evidence \subseteq [eph : Ephs, pub : Nat]
SessionNetType ==
    /\ sessionQ \subseteq [acct : Accounts, eph : Ephs, env : Envelopes]
    /\ sessionR \subseteq [eph : Ephs, ok : BOOLEAN]
ChatNetType == chatQ \subseteq [turn : Turns, acct : Accounts, env : Envelopes]
ClType == cl \in [Turns -> [st : TurnStates, sk : SKs \cup {NoKey}, lost : BOOLEAN]]
GwType ==
    gw \in [Turns -> [st : {"idle", "running", "ended"}, acct : Accounts \cup {NoSession},
                      prompt : (Kinds \X Accounts) \cup {NoSession}, sealed : Nat]]
StreamType == stream \in [Turns -> Seq(Events)]

(***************************************************************************)
(* Every variable of the channel has its type.                             *)
(***************************************************************************)
TypeOK ==
    /\ SessionsType /\ DevType
    /\ AttestType /\ SessionNetType /\ ChatNetType
    /\ ClType /\ GwType /\ StreamType

(***************************************************************************)
(* SessionManager._sessions: whatever bodies the relay pairs with whatever *)
(* headers, an account's session holds that account's own WMK, and its SK  *)
(* was agreed between the running process and a device of that account.    *)
(***************************************************************************)
SessionOwnership ==
    \A a \in Accounts : sessions[a] # NoSession =>
        /\ sessions[a].wmk = Wmk(a)
        /\ Owner[sessions[a].sk.eph[1]] = a
        /\ sessions[a].sk.cvm = cvm

(***************************************************************************)
(* POST /v1/chat: what is handed to the inference provider for a turn is a *)
(* prompt of the account that is charged for the turn, never a WMK, and    *)
(* every delta streamed back is sealed to a key of that account.           *)
(***************************************************************************)
TurnConfidential ==
    \A t \in Turns :
        /\ gw[t].st = "running" => gw[t].prompt = Prompt(gw[t].acct)
        /\ \A i \in 1..Len(stream[t]) : stream[t][i].kind = "token" =>
              Owner[stream[t][i].sk.eph[1]] = gw[t].acct

Account(t) == Owner[cl[t].sk.eph[1]]
Truncated(t) == cl[t].st = "done" /\ cl[t].lost
Replaced(t) == sessions[Account(t)] = NoSession \/ sessions[Account(t)].sk # cl[t].sk

(***************************************************************************)
(* With a faithful relay, a turn is refused (428/400) or ends with text    *)
(* missing from its reply only when the account's session is no longer the *)
(* one the turn was sealed under: the session key a turn uses, once        *)
(* replaced, never comes back.                                             *)
(***************************************************************************)
LostOnlyIfReplaced ==
    RelayFaithful => \A t \in Turns : cl[t].st = "refused" \/ Truncated(t) => Replaced(t)

(***************************************************************************)
(* session.py: an establish never brings back a key that a device is       *)
(* already chatting under (the installed key is one no answer has reached  *)
(* the client for).                                                        *)
(***************************************************************************)
InstallsFreshKeys ==
    [][RelayFaithful => \A a \in Accounts, d \in Devices :
        sessions'[a] # sessions[a] /\ sessions'[a] # NoSession =>
            ~(dev[d].phase = "ready" /\ dev[d].sk = sessions'[a].sk)]_vars

(***************************************************************************)
(* Every submitted turn ends for the client: with done, an error, a        *)
(* refusal, or because the client gave it up.                              *)
(***************************************************************************)
TurnEnds == \A t \in Turns : cl[t].st = "open" ~> cl[t].st # "open"

(***************************************************************************)
(* session.py:119-121: "Concurrent establishes for the SAME account are    *)
(* content-idempotent ..., so a last-write-wins overwrite is harmless":    *)
(* no turn is refused or truncated while the gateway process that its      *)
(* session was established with is still running.                          *)
(* The code does not keep this: see "Disagreements" in the README.         *)
(***************************************************************************)
OverwriteIsHarmless ==
    \A t \in Turns : cl[t].st = "refused" \/ Truncated(t) => cl[t].sk.cvm # cvm

=============================================================================
