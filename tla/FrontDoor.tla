------------------------------ MODULE FrontDoor ------------------------------
(***************************************************************************)
(* The way in: the unlock screen, the handshake of the client SDK with the *)
(* attestation it verifies, and the relay shim through which every request *)
(* of the handshake travels.  The gateway and Intel's collateral service   *)
(* are upstreams of the shim that may answer, refuse, break off or never   *)
(* answer, and the evidence they return may be any evidence.               *)
(*                                                                         *)
(* An ephemeral key is named by the handshake that made it; SHA-256 of a   *)
(* key is the key.  One request is in flight at a time, because the        *)
(* handshake awaits each.  Identities and overlapping unlocks are the      *)
(* subject of DeviceIdentity; here the subject is what is verified before  *)
(* the master key leaves the device, and whether an unlock ends.           *)
(***************************************************************************)
EXTENDS Naturals, Sequences, FiniteSets

CONSTANTS
    Seeds,
    MaxTries,       \* bound: handshakes of the tab
    MaxFaults,      \* bound: how much is wrong at once with one evidence
    None

ASSUME TriesAssumption == MaxTries \in Nat \ {0}
ASSUME FaultsAssumption == MaxFaults \in Nat
ASSUME NoneAssumption ==
    /\ None \notin Seeds
    /\ None \notin [policy : {"strict", "observe", "skip"}, pinned : BOOLEAN]

Tries == 1..MaxTries

\* What the build was given: VITE_CALADON_ATTESTATION, DEV,
\* VITE_CALADON_ALLOW_INSECURE=1 and VITE_CALADON_PINNED.
Builds == [asked : {"strict", "observe", "skip", "unknown"}, dev : BOOLEAN,
           escape : BOOLEAN, pinned : {"set", "missing", "unreadable"}]

VARIABLES
    build,
    screen,     \* CaladonUnlock: its mode, phase, seeds and confirmation
    client,     \* the shared CaladonClient: its policy and pinned set, or None
    wasm,       \* has the WASM module been loaded
    hs,         \* CaladonClient.handshake
    req,        \* the request in flight through the shim
    jar,        \* the cookies the browser holds for the shim's origin
    saw,        \* the header kinds the upstreams have been sent
    sent,       \* the latest WMK delivered: by which handshake, on which evidence
    acked,      \* handshakes whose POST /v1/session was answered 200
    session     \* lib/caladon: the handshake that handshakeResult is of

shimVars == <<req, jar, saw>>
vars == <<build, screen, client, wasm, hs, shimVars, sent, acked, session>>

-----------------------------------------------------------------------------
(* Evidence and its verification *)

\* What may be wrong with a quote or with the dstack info beside it, apart
\* from what it is bound to.
Faults == {"no quote", "no certificates", "collateral unparsed", "bad signature",
           "stale collateral", "TCB degraded", "not a TD", "unpinned measurement",
           "info unparsed", "other compose", "other app", "logs"}

\* `challenge` is the evidence's claim; `quotedFor` and `quotedPub` are the
\* halves of the quote's report_data.
Evidences == [challenge : Tries, quotedFor : Tries, sessionPub : {"cvm", "other", None},
              quotedPub : {"cvm", "other"},
              faults : {F \in SUBSET Faults : Cardinality(F) <= MaxFaults}]

Mistakes(e, t) ==
    Cardinality(e.faults)
    + Cardinality({f \in {"challenge", "quotedFor"} : e[f] # t})
    + Cardinality({f \in {"sessionPub", "quotedPub"} : e[f] # "cvm"})

\* Mutant: the quote is not checked to name the session key.
VerifyQuoteUnbound(e, t) ==
    IF e.faults # {} THEN "QUOTE_SIG_INVALID"
    ELSE IF e.quotedFor # t THEN "BINDING_MISMATCH" ELSE "PASS"

\* verify_quote: the first check that fails gives the reason.
VerifyQuote(e, t) ==
    CASE "collateral unparsed" \in e.faults  -> "COLLATERAL_STALE"
      [] "bad signature" \in e.faults        -> "QUOTE_SIG_INVALID"
      [] "stale collateral" \in e.faults     -> "COLLATERAL_STALE"
      [] "TCB degraded" \in e.faults         -> "TCB_OUT_OF_DATE"
      [] e.faults \cap {"not a TD", "unpinned measurement"} # {} -> "MEASUREMENT_UNPINNED"
      [] e.faults \cap {"info unparsed", "other compose"} # {}   -> "COMPOSE_MISMATCH"
      [] "other app" \in e.faults            -> "APPID_MISMATCH"
      [] e.quotedFor # t                     -> "BINDING_MISMATCH"
      [] e.quotedPub # e.sessionPub          -> "BINDING_MISMATCH"
      [] "logs" \in e.faults                 -> "NO_LOG_ABSENT"
      [] OTHER                               -> "PASS"

\* readPolicy: a hosted build refuses anything but strict.
ReadPolicy(b) ==
    IF b.asked \in {"strict", "unknown"} THEN "strict"
    ELSE IF b.dev \/ b.escape THEN b.asked ELSE "refused"

\* readPinned: what cannot be parsed counts as not configured.
ReadPinned(b) == b.pinned = "set"

-----------------------------------------------------------------------------
NoRequest == [pc |-> "none", name |-> None, timer |-> FALSE, ok |-> FALSE, ev |-> None]
Idle == [pc |-> "idle", seed |-> None, try |-> 0, ev |-> None]
NewScreen == [mode |-> "choose", phase |-> "idle", new |-> None, saved |-> FALSE, last |-> None]

Init ==
    /\ build \in Builds
    /\ screen = NewScreen
    /\ client = None
    /\ wasm = FALSE
    /\ hs = Idle
    /\ req = NoRequest
    /\ jar = {}
    /\ saw = {}
    /\ sent = [try |-> 0, ev |-> None]
    /\ acked = {}
    /\ session = 0

-----------------------------------------------------------------------------
(* The relay shim *)

Collateral == <<"pckcrl", "tcb", "qe identity", "root-ca-crl">>
CaladonRoutes == {"accounts", "attestation", "session", "chat"}
RelayRoutes == CaladonRoutes \cup {"pckcrl", "tcb", "qe identity"}

\* The header kinds of a browser's request: only the SDK's calls are signed,
\* and the browser adds its cookies.
BrowserHeaders(name) ==
    {"content"} \cup (IF name \in CaladonRoutes THEN {"authorization"} ELSE {}) \cup jar

\* Mutant: the browser's cookies are forwarded.
StripToUpstreamHost == {"host"}

StripToUpstream == {"shim cookie", "upstream cookie"}

\* What an upstream may send back; buildClientHeaders lets no cookie through.
UpstreamHeaders == {"content", "upstream cookie"}
StripFromUpstream == {"upstream cookie"}

\* fetch: the browser sends a request to the shim.
Fetch(name) == req' = [NoRequest EXCEPT !.pc = "sent", !.name = name]

\* Mutant: the timer is armed on no route.
RelayUntimed ==
    /\ req.pc = "sent"
    /\ req' = [req EXCEPT !.pc = "upstream"]
    /\ UNCHANGED <<build, screen, client, wasm, hs, jar, saw, sent, acked, session>>

\* The shim forwards it.  The cookie middleware covers /api/caladon/*; the
\* timer is armed unless the route is chat; the root CRL has its own handler,
\* which forwards no header.
Relay ==
    /\ req.pc = "sent"
    /\ req' = [req EXCEPT !.pc = "upstream", !.timer = req.name # "chat"]
    /\ saw' = saw \cup (IF req.name \in RelayRoutes THEN BrowserHeaders(req.name) \ StripToUpstream
                        ELSE {})
    /\ UNCHANGED <<build, screen, client, wasm, hs, jar, sent, acked, session>>

\* The browser's cookies after an answer: the shim sets its own on
\* /api/caladon/* when the request had none.
JarAfter(name) ==
    jar \cup (IF name \in RelayRoutes THEN UpstreamHeaders \ (StripFromUpstream \cup {"content"})
              ELSE {})
        \cup (IF name \in CaladonRoutes THEN {"shim cookie"} ELSE {})

\* The upstream's headers arrive: the timer is cleared and the body is
\* streamed through.  `ok` says the status is 200 and the answer well formed.
Answered(ok, e) ==
    /\ req.pc = "upstream"
    /\ req.name \in RelayRoutes
    /\ e # None => req.name = "attestation" /\ ok
    /\ req.name = "attestation" /\ ok => e # None
    /\ req' = [req EXCEPT !.pc = "headers", !.timer = FALSE, !.ok = ok, !.ev = e]
    /\ jar' = JarAfter(req.name)
    /\ UNCHANGED <<build, screen, client, wasm, hs, saw, sent, acked, session>>

\* The root CRL is read to its end before the shim answers, within the timeout.
RootCrlRead(ok) ==
    /\ req.pc = "upstream"
    /\ req.name = "root-ca-crl"
    /\ req' = [req EXCEPT !.pc = "answered", !.timer = FALSE, !.ok = ok]
    /\ UNCHANGED <<build, screen, client, wasm, hs, jar, saw, sent, acked, session>>

BodyEnds ==
    /\ req.pc = "headers"
    /\ req' = [req EXCEPT !.pc = "answered"]
    /\ UNCHANGED <<build, screen, client, wasm, hs, jar, saw, sent, acked, session>>

\* 502: the upstream cannot be reached, or the timer aborts the fetch.
BadGateway ==
    /\ req' = [req EXCEPT !.pc = "answered", !.timer = FALSE, !.ok = FALSE]
    /\ jar' = IF req.name \in CaladonRoutes THEN jar \cup {"shim cookie"} ELSE jar
    /\ UNCHANGED <<build, screen, client, wasm, hs, saw, sent, acked, session>>

Unreachable == req.pc = "upstream" /\ BadGateway
Timeout == req.pc = "upstream" /\ req.timer /\ BadGateway

\* The connection of the browser, or the body it is reading, breaks.
Broken ==
    /\ req.pc \in {"sent", "upstream", "headers"}
    /\ req' = [req EXCEPT !.pc = "rejected", !.timer = FALSE]
    /\ UNCHANGED <<build, screen, client, wasm, hs, jar, saw, sent, acked, session>>

-----------------------------------------------------------------------------
(* CaladonUnlock: the unlock screen *)

\* The user's choices that touch nothing but the screen's own state.
Shows(s) ==
    /\ screen' = s
    /\ UNCHANGED <<build, client, wasm, hs, shimVars, sent, acked, session>>

Showing(m) == screen.phase = "idle" /\ screen.mode = m

HandleCreate(s) ==
    /\ Showing("choose")
    /\ Shows([screen EXCEPT !.mode = "create", !.new = s, !.saved = FALSE])

ConfirmSaved ==
    /\ Showing("create")
    /\ Shows([screen EXCEPT !.saved = ~@])

HandleRestore == Showing("choose") /\ Shows([screen EXCEPT !.mode = "restore"])

\* The seed last tried survives in lastSeedRef.
HandleBack ==
    /\ \/ screen.phase = "error"
       \/ Showing("create") \/ Showing("restore")
    /\ Shows([NewScreen EXCEPT !.last = screen.last])

\* runUnlock, AuthContext.unlock and caladonUnlock up to the first request:
\* the client is made if there is none, which a refused policy prevents; the
\* WASM is loaded once; the identity is derived and posted.
RunUnlock(seed, loads) ==
    LET policy == IF client # None THEN client.policy ELSE ReadPolicy(build)
        begun == policy # "refused" /\ (loads \/ wasm) IN
    /\ hs.try < MaxTries
    /\ client' = IF policy = "refused" THEN client
                 ELSE [policy |-> policy, pinned |-> ReadPinned(build)]
    /\ wasm' = (wasm \/ begun)
    /\ screen' = [screen EXCEPT !.last = seed, !.phase = IF begun THEN "unlocking" ELSE "error"]
    /\ hs' = [Idle EXCEPT !.try = hs.try + 1, !.pc = IF begun THEN "accounts" ELSE "idle",
                          !.seed = seed]
    /\ IF begun THEN Fetch("accounts") ELSE UNCHANGED req
    /\ UNCHANGED <<build, jar, saw, sent, acked, session>>

Continue(loads) ==
    /\ Showing("create")
    /\ screen.saved
    /\ RunUnlock(screen.new, loads)

HandleRestoreSubmit(s, loads) == Showing("restore") /\ RunUnlock(s, loads)
HandleRetry(loads) == screen.phase = "error" /\ RunUnlock(screen.last, loads)

-----------------------------------------------------------------------------
(* CaladonClient.handshake *)

\* The handshake goes on to its next request.
Proceeds(name, e) ==
    /\ hs' = [hs EXCEPT !.pc = name, !.ev = e]
    /\ Fetch(name)
    /\ UNCHANGED <<build, screen, client, wasm, jar, saw, acked, session>>

\* The handshake throws, and the screen shows the refusal.
Throws ==
    /\ hs' = [hs EXCEPT !.pc = "idle", !.ev = None]
    /\ screen' = [screen EXCEPT !.phase = "error"]
    /\ req' = NoRequest
    /\ UNCHANGED <<build, client, wasm, jar, saw, sent, acked, session>>

\* onboard returns the status, which handshake ignores; the body is not read.
Onboarded ==
    /\ hs.pc = "accounts"
    /\ req.pc \in {"headers", "answered"}
    /\ Proceeds("attestation", None)
    /\ UNCHANGED sent

\* establishSession: the WMK is sealed to the evidence's session key and posted.
EstablishSession(e) ==
    IF e.sessionPub = None THEN Throws
    ELSE /\ Proceeds("session", e)
         /\ sent' = [try |-> hs.try, ev |-> e]

\* getAttestation, and verifyAttestation up to the first collateral request.
Attested ==
    /\ hs.pc = "attestation"
    /\ req.pc = "answered"
    /\ IF ~req.ok \/ req.ev.challenge # hs.try THEN Throws
       ELSE IF client.policy = "skip" THEN EstablishSession(req.ev)
       ELSE IF req.ev.faults \cap {"no quote", "no certificates"} # {} THEN Throws
       ELSE Proceeds(Collateral[1], req.ev) /\ UNCHANGED sent

\* fetchCollateralFromPcs: the artifacts one after the other.
CollateralFetched(i) ==
    /\ i < Len(Collateral)
    /\ hs.pc = Collateral[i]
    /\ req.pc = "answered"
    /\ IF req.ok THEN Proceeds(Collateral[i + 1], hs.ev) /\ UNCHANGED sent ELSE Throws

\* verifyAttestation with the collateral in hand.
Verified ==
    /\ hs.pc = "root-ca-crl"
    /\ req.pc = "answered"
    /\ IF ~req.ok \/ ~client.pinned \/ hs.ev.sessionPub = None THEN Throws
       ELSE IF client.policy = "strict" /\ VerifyQuote(hs.ev, hs.try) # "PASS" THEN Throws
       ELSE EstablishSession(hs.ev)

\* POST /v1/session is answered; 200 unlocks the tab.
SessionAnswered ==
    /\ hs.pc = "session"
    /\ req.pc = "answered"
    /\ IF ~req.ok THEN Throws
       ELSE /\ session' = hs.try
            /\ acked' = acked \cup {hs.try}
            /\ hs' = [hs EXCEPT !.pc = "idle", !.ev = None]
            /\ screen' = [NewScreen EXCEPT !.phase = "unlocked"]
            /\ req' = NoRequest
            /\ UNCHANGED <<build, client, wasm, jar, saw, sent>>

Rejected == hs.pc \notin {"idle", "chat"} /\ req.pc = "rejected" /\ Throws

-----------------------------------------------------------------------------
(* The unlocked tab *)

Chat ==
    /\ session # 0
    /\ hs.pc = "idle"
    /\ Proceeds("chat", None)
    /\ UNCHANGED sent

ChatEnds ==
    /\ hs.pc = "chat"
    /\ req.pc \in {"answered", "rejected"}
    /\ hs' = [hs EXCEPT !.pc = "idle"]
    /\ req' = NoRequest
    /\ UNCHANGED <<build, screen, client, wasm, jar, saw, sent, acked, session>>

\* caladonLock drops the client with its session key.
Lock ==
    /\ session # 0
    /\ hs.pc = "idle"
    /\ session' = 0
    /\ client' = None
    /\ screen' = NewScreen
    /\ UNCHANGED <<build, wasm, hs, shimVars, sent, acked>>

-----------------------------------------------------------------------------
ScreenStep ==
    \/ \E s \in Seeds : HandleCreate(s)
    \/ ConfirmSaved
    \/ HandleRestore
    \/ HandleBack
    \/ \E loads \in BOOLEAN : Continue(loads) \/ HandleRetry(loads)
    \/ \E s \in Seeds, loads \in BOOLEAN : HandleRestoreSubmit(s, loads)

ClientStep ==
    \/ Onboarded
    \/ Attested
    \/ \E i \in 1..3 : CollateralFetched(i)
    \/ Verified
    \/ SessionAnswered
    \/ Rejected

UpstreamStep ==
    \/ \E ok \in BOOLEAN : Answered(ok, None)
    \/ /\ req.pc = "upstream" /\ req.name = "attestation"
       /\ \E e \in Evidences : Mistakes(e, hs.try) <= MaxFaults /\ Answered(TRUE, e)
    \/ \E ok \in BOOLEAN : RootCrlRead(ok)
    \/ BodyEnds
    \/ Unreachable
    \/ Broken

Next == ScreenStep \/ ClientStep \/ Relay \/ Timeout \/ UpstreamStep \/ Chat \/ ChatEnds \/ Lock

Spec == Init /\ [][Next]_vars

\* The browser's event loop and the shim's run, and its timer fires.  Nothing
\* is assumed of the upstreams, nor of the user.
FairSpec == Spec /\ WF_vars(ClientStep) /\ WF_vars(Relay) /\ WF_vars(Timeout)

-----------------------------------------------------------------------------
(* Properties *)

\* The state of the screen, the client, the handshake and the request.
TypeOK ==
    /\ build \in Builds
    /\ screen \in [mode : {"choose", "create", "restore"},
                   phase : {"idle", "unlocking", "error", "unlocked"},
                   new : Seeds \cup {None}, saved : BOOLEAN, last : Seeds \cup {None}]
    /\ client = None
       \/ client \in [policy : {"strict", "observe", "skip"}, pinned : BOOLEAN]
    /\ hs.try \in 0..MaxTries
    /\ hs.pc # "idle" => client # None /\ req.name = hs.pc
    /\ screen.phase = "unlocking" <=> hs.pc \notin {"idle", "chat"}
    /\ screen.phase = "unlocked" <=> session # 0
    /\ req.timer => req.pc = "upstream" /\ req.name # "chat"
    /\ jar \subseteq {"shim cookie", "upstream cookie"}

Hosted == ~build.dev /\ ~build.escape

\* A hosted build delivers the master key only on evidence whose quote is sound
\* and pinned, was made for this very handshake, and names the session key the
\* master key is sealed to: whatever policy the build was given, whatever
\* happened in an earlier handshake, whatever the relay or the gateway returned
\* ("Run the entire handshake ... verifies fail-closed", client.ts:399-403).
FailClosed ==
    Hosted /\ sent.try # 0 =>
        /\ ReadPinned(build)
        /\ sent.ev.faults = {}
        /\ sent.ev.challenge = sent.try /\ sent.ev.quotedFor = sent.try
        /\ sent.ev.sessionPub = sent.ev.quotedPub

\* A tab is unlocked by the handshake whose master key the gateway accepted,
\* never by one that failed or by an earlier one.
UnlockedIsAccepted == session # 0 => session = sent.try /\ session \in acked

\* Nothing is unlocked, and no master key leaves the device, but on evidence that was
\* verified and a session that was accepted.
OnlyOnEvidence == TypeOK /\ FailClosed /\ UnlockedIsAccepted

\* The shim's own cookie never reaches an upstream, and no upstream sets a
\* cookie in the browser (proxy.ts:13-15).
CookiesStay == "shim cookie" \notin saw /\ "upstream cookie" \notin jar

\* Every unlock ends, in a session or in the refusal, even if the upstreams
\* never answer; unless one of them sends its headers and never ends the body,
\* for then the shim's timer is already cleared.
UnlockSettles ==
    \/ <>[](req.pc = "headers")
    \/ (screen.phase = "unlocking") ~> (screen.phase \in {"unlocked", "error"})
=============================================================================
