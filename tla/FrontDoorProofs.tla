--------------------------- MODULE FrontDoorProofs ---------------------------
(***************************************************************************)
(* Proofs about FrontDoor for every set of seeds, any number of handshakes *)
(* and evidence with any number of faults.                                 *)
(***************************************************************************)
EXTENDS FrontDoor, TLAPS

-----------------------------------------------------------------------------
(* The inductive invariant *)

Stages == {"accounts", "attestation", "pckcrl", "tcb", "qe identity", "root-ca-crl", "session"}
Collecting == {"pckcrl", "tcb", "qe identity", "root-ca-crl"}

\* An evidence, however many faults it has.
Shapes == [challenge : Tries, quotedFor : Tries, sessionPub : {"cvm", "other", None},
           quotedPub : {"cvm", "other"}, faults : SUBSET Faults]

Screens == [mode : {"choose", "create", "restore"}, phase : {"idle", "unlocking", "error", "unlocked"},
            new : Seeds \cup {None}, saved : BOOLEAN, last : Seeds \cup {None}]
Clients == [policy : {"strict", "observe", "skip"}, pinned : BOOLEAN]
Handshakes == [pc : Stages \cup {"idle", "chat"}, seed : Seeds \cup {None}, try : 0..MaxTries,
               ev : Shapes \cup {None}]
Requests == [pc : {"none", "sent", "upstream", "headers", "answered", "rejected"},
             name : Stages \cup {"chat", None}, timer : BOOLEAN, ok : BOOLEAN, ev : Shapes \cup {None}]
Deliveries == [try : 0..MaxTries, ev : Shapes \cup {None}]

Types ==
    /\ build \in Builds
    /\ screen \in Screens
    /\ client \in Clients \cup {None}
    /\ hs \in Handshakes
    /\ req \in Requests
    /\ sent \in Deliveries

\* The client is of the build's policy and pinned set, whichever unlock made it.
ClientSound == client # None => client.policy = ReadPolicy(build) /\ client.pinned = ReadPinned(build)

\* Which handshake is in flight, and what the screen says of it.
ControlSound ==
    /\ hs.pc # "idle" => client # None /\ req.name = hs.pc
    /\ hs.pc \in Stages => hs.try # 0
    /\ screen.phase = "unlocking" <=> hs.pc \in Stages
    /\ screen.phase = "unlocked" <=> session # 0
    /\ hs.pc = "chat" => session # 0
    /\ session # 0 => client # None

RequestSound ==
    /\ req.timer => req.pc = "upstream" /\ req.name # "chat"
    /\ req.name = "attestation" /\ req.ok => req.ev \in Shapes

\* The evidence that collateral is being fetched for answers this handshake's challenge.
EvidenceSound ==
    /\ hs.pc \in Collecting =>
           /\ hs.ev \in Shapes /\ hs.ev.challenge = hs.try
           /\ hs.ev.faults \cap {"no quote", "no certificates"} = {}
    /\ hs.pc = "session" => sent.try = hs.try

JarSound == jar \subseteq {"shim cookie", "upstream cookie"} /\ CookiesStay

DoorInv ==
    /\ Types /\ ClientSound /\ ControlSound /\ RequestSound /\ EvidenceSound /\ JarSound
    /\ FailClosed /\ UnlockedIsAccepted

LEMMA NoneIsNew == None \notin Clients
  BY NoneAssumption DEF Clients

LEMMA EvidenceHasShape == Evidences \subseteq Shapes
  BY DEF Evidences, Shapes

LEMMA RequestFree == NoRequest \in Requests /\ NoRequest.timer = FALSE /\ NoRequest.ok = FALSE
                     /\ NoRequest.pc = "none" /\ NoRequest.ev = None
  BY DEF NoRequest, Requests

LEMMA DoorInitial == Init => DoorInv
<1> SUFFICES ASSUME Init PROVE DoorInv
    OBVIOUS
<1>1. NewScreen \in Screens /\ NewScreen.phase = "idle"
      BY DEF NewScreen, Screens
<1>2. Idle \in Handshakes /\ Idle.pc = "idle"
      BY TriesAssumption DEF Idle, Handshakes
<1>3. sent \in Deliveries /\ sent.try = 0
      BY TriesAssumption DEF Init, Deliveries
<1>4. Types
      BY <1>1, <1>2, <1>3, RequestFree DEF Init, Types
<1>5. ClientSound /\ ControlSound /\ EvidenceSound
      BY <1>1, <1>2 DEF Init, ClientSound, ControlSound, EvidenceSound, Stages, Collecting
<1>6. RequestSound /\ JarSound
      BY RequestFree DEF Init, RequestSound, JarSound, CookiesStay
<1>7. FailClosed /\ UnlockedIsAccepted
      BY <1>3 DEF Init, FailClosed, UnlockedIsAccepted
<1> QED BY <1>4, <1>5, <1>6, <1>7 DEF DoorInv

-----------------------------------------------------------------------------
(* The relay shim *)

\* A step of the shim or of an upstream: the request in flight moves.
LEMMA RequestMoves ==
    ASSUME DoorInv, req' \in Requests, RequestSound', JarSound', req'.name = req.name,
           UNCHANGED <<build, screen, client, hs, sent, acked, session>>
    PROVE  DoorInv'
<1>1. Types' /\ ClientSound' /\ EvidenceSound'
      BY DEF DoorInv, Types, ClientSound, EvidenceSound
<1>2. ControlSound'
      BY DEF DoorInv, ControlSound
<1>3. FailClosed' /\ UnlockedIsAccepted'
      BY DEF DoorInv, FailClosed, UnlockedIsAccepted, Hosted
<1> QED BY <1>1, <1>2, <1>3 DEF DoorInv

LEMMA ShimSteps ==
    ASSUME DoorInv, Relay \/ Timeout \/ UpstreamStep
    PROVE  DoorInv'
<1>0. req \in Requests /\ RequestSound /\ JarSound
      BY DEF DoorInv, Types
<1>1. CASE Relay
  <2> DEFINE b == req.name # "chat"
  <2>1. req' = [req EXCEPT !.pc = "upstream", !.timer = b] /\ b \in BOOLEAN
        BY <1>1 DEF Relay
  <2>2. req' \in Requests /\ req'.pc = "upstream" /\ req'.timer = b /\ req'.name = req.name
        /\ req'.ok = req.ok /\ req'.ev = req.ev
    <3> HIDE DEF b
    <3> QED BY <1>0, <2>1 DEF Requests
  <2>3. RequestSound'
        BY <1>0, <2>2 DEF RequestSound
  <2>4. JarSound'
        BY <1>0, <1>1 DEF Relay, JarSound, CookiesStay, StripToUpstream
  <2> QED BY <1>1, <2>2, <2>3, <2>4, RequestMoves DEF Relay
<1>2. ASSUME NEW ok \in BOOLEAN, NEW e \in Shapes \cup {None}, Answered(ok, e),
             e = None \/ e \in Shapes
      PROVE  DoorInv'
  <2>1. req' = [req EXCEPT !.pc = "headers", !.timer = FALSE, !.ok = ok, !.ev = e]
        BY <1>2 DEF Answered
  <2>2. req' \in Requests /\ req'.pc = "headers" /\ req'.timer = FALSE /\ req'.name = req.name
        /\ req'.ok = ok /\ req'.ev = e
        BY <1>0, <2>1 DEF Requests
  <2>3. RequestSound'
        BY <1>2, <2>2 DEF RequestSound, Answered
  <2>4. JarSound'
        BY <1>0, <1>2 DEF Answered, JarSound, CookiesStay, JarAfter, UpstreamHeaders, StripFromUpstream
  <2> QED BY <1>2, <2>2, <2>3, <2>4, RequestMoves DEF Answered
<1>3. ASSUME NEW ok \in BOOLEAN, RootCrlRead(ok) PROVE DoorInv'
  <2>1. req' = [req EXCEPT !.pc = "answered", !.timer = FALSE, !.ok = ok] /\ req.name = "root-ca-crl"
        BY <1>3 DEF RootCrlRead
  <2>2. req' \in Requests /\ req'.timer = FALSE /\ req'.name = req.name
        BY <1>0, <2>1 DEF Requests
  <2>3. RequestSound'
        BY <2>1, <2>2 DEF RequestSound
  <2>4. JarSound'
        BY <1>0, <1>3 DEF RootCrlRead, JarSound, CookiesStay
  <2> QED BY <1>3, <2>2, <2>3, <2>4, RequestMoves DEF RootCrlRead
<1>4. CASE BodyEnds
  <2>1. req' = [req EXCEPT !.pc = "answered"] /\ req.pc = "headers"
        BY <1>4 DEF BodyEnds
  <2>2. req' \in Requests /\ req'.name = req.name /\ req'.timer = req.timer /\ req'.ok = req.ok /\ req'.ev = req.ev
        BY <1>0, <2>1 DEF Requests
  <2>3. RequestSound'
        BY <1>0, <2>1, <2>2 DEF RequestSound
  <2>4. JarSound'
        BY <1>0, <1>4 DEF BodyEnds, JarSound, CookiesStay
  <2> QED BY <1>4, <2>2, <2>3, <2>4, RequestMoves DEF BodyEnds
<1>5. CASE BadGateway
  <2>1. req' = [req EXCEPT !.pc = "answered", !.timer = FALSE, !.ok = FALSE]
        BY <1>5 DEF BadGateway
  <2>2. req' \in Requests /\ req'.name = req.name /\ req'.timer = FALSE /\ req'.ok = FALSE
        BY <1>0, <2>1 DEF Requests
  <2>3. RequestSound'
        BY <2>2 DEF RequestSound
  <2>4. JarSound'
        BY <1>0, <1>5 DEF BadGateway, JarSound, CookiesStay
  <2> QED BY <1>5, <2>2, <2>3, <2>4, RequestMoves DEF BadGateway
<1>6. CASE Broken
  <2>1. req' = [req EXCEPT !.pc = "rejected", !.timer = FALSE]
        BY <1>6 DEF Broken
  <2>2. req' \in Requests /\ req'.name = req.name /\ req'.timer = FALSE /\ req'.ok = req.ok /\ req'.ev = req.ev
        BY <1>0, <2>1 DEF Requests
  <2>3. RequestSound'
        BY <1>0, <2>2 DEF RequestSound
  <2>4. JarSound'
        BY <1>0, <1>6 DEF Broken, JarSound, CookiesStay
  <2> QED BY <1>6, <2>2, <2>3, <2>4, RequestMoves DEF Broken
<1> QED BY <1>1, <1>2, <1>3, <1>4, <1>5, <1>6, EvidenceHasShape DEF UpstreamStep, Timeout, Unreachable

-----------------------------------------------------------------------------
(* The unlock screen *)

\* The user chooses something while no unlock runs and the tab is locked.
LEMMA ScreenMoves ==
    ASSUME DoorInv, NEW s \in Screens, Shows(s), screen.phase \in {"idle", "error"}, s.phase = "idle"
    PROVE  DoorInv'
<1>1. screen' = s /\ UNCHANGED <<build, client, wasm, hs, req, jar, saw, sent, acked, session>>
      BY DEF Shows, shimVars
<1>2. Types' /\ ClientSound' /\ RequestSound' /\ EvidenceSound' /\ JarSound'
      BY <1>1 DEF DoorInv, Types, ClientSound, RequestSound, EvidenceSound, JarSound, CookiesStay
<1>3. ControlSound'
      BY <1>1 DEF DoorInv, ControlSound
<1>4. FailClosed' /\ UnlockedIsAccepted'
      BY <1>1 DEF DoorInv, FailClosed, UnlockedIsAccepted, Hosted
<1> QED BY <1>2, <1>3, <1>4 DEF DoorInv

LEMMA UnlockBegins ==
    ASSUME DoorInv, NEW seed \in Seeds \cup {None}, NEW loads \in BOOLEAN,
           screen.phase \in {"idle", "error"}, RunUnlock(seed, loads)
    PROVE  DoorInv'
<1> DEFINE policy == IF client # None THEN client.policy ELSE ReadPolicy(build)
           begun == policy # "refused" /\ (loads \/ wasm)
           c == [policy |-> policy, pinned |-> ReadPinned(build)]
           r == [screen EXCEPT !.last = seed, !.phase = IF begun THEN "unlocking" ELSE "error"]
           h == [Idle EXCEPT !.try = hs.try + 1, !.pc = IF begun THEN "accounts" ELSE "idle", !.seed = seed]
<1>0. /\ screen' = r /\ hs' = h /\ hs.try < MaxTries
      /\ client' = (IF policy = "refused" THEN client ELSE c)
      /\ (IF begun THEN Fetch("accounts") ELSE UNCHANGED req)
      /\ UNCHANGED <<build, jar, saw, sent, acked, session>>
      BY DEF RunUnlock
<1>1. hs.pc = "idle" /\ session = 0
      BY DEF DoorInv, ControlSound, Types, Handshakes
<1>2. policy = ReadPolicy(build) /\ policy \in {"strict", "observe", "skip", "refused"}
  <2>1. build.asked \in {"strict", "observe", "skip", "unknown"}
        BY DEF DoorInv, Types, Builds
  <2> QED BY <2>1 DEF ReadPolicy, DoorInv, ClientSound
<1>3. ReadPinned(build) \in BOOLEAN
      BY DEF ReadPinned
<1>4. client' \in Clients \cup {None} /\ ClientSound' /\ (begun => client' # None)
  <2>1. policy # "refused" => c \in Clients /\ c.policy = policy /\ c.pinned = ReadPinned(build)
        BY <1>2, <1>3 DEF Clients
  <2>2. policy # "refused" => client' = c /\ c # None
        BY <1>0, <2>1, NoneIsNew
  <2>3. policy = "refused" => client' = client
        BY <1>0
  <2> HIDE DEF policy, c
  <2> QED BY <1>0, <1>2, <2>1, <2>2, <2>3 DEF DoorInv, Types, ClientSound
<1>5. r \in Screens /\ r.phase = IF begun THEN "unlocking" ELSE "error"
      BY DEF DoorInv, Types, Screens
<1>6. /\ h \in Handshakes /\ h.try = hs.try + 1 /\ h.pc = IF begun THEN "accounts" ELSE "idle"
      /\ h.try # 0
  <2>1. hs.try + 1 \in 0..MaxTries /\ hs.try + 1 # 0
        BY <1>0, TriesAssumption DEF DoorInv, Types, Handshakes
  <2>2. Idle \in Handshakes
        BY TriesAssumption DEF Idle, Handshakes
  <2> HIDE DEF begun
  <2> QED BY <2>1, <2>2 DEF Handshakes, Stages
<1>7. req' \in Requests /\ RequestSound' /\ (begun => req'.name = "accounts")
  <2>1. CASE begun
    <3>1. req' = [NoRequest EXCEPT !.pc = "sent", !.name = "accounts"]
          BY <1>0, <2>1 DEF Fetch
    <3>2. req' \in Requests /\ req'.name = "accounts" /\ req'.timer = FALSE /\ req'.ok = FALSE
          BY <3>1, RequestFree DEF Requests, Stages
    <3> QED BY <3>2 DEF RequestSound
  <2>2. CASE ~begun
        BY <1>0, <2>2 DEF DoorInv, Types, RequestSound
  <2> QED BY <2>1, <2>2
<1> HIDE DEF r, h, c, policy, begun
<1>8. Types'
      BY <1>0, <1>4, <1>5, <1>6, <1>7 DEF DoorInv, Types
<1>9. ControlSound'
      BY <1>0, <1>1, <1>4, <1>5, <1>6, <1>7 DEF ControlSound, Stages
<1>10. EvidenceSound' /\ JarSound'
      BY <1>0, <1>6 DEF DoorInv, EvidenceSound, JarSound, CookiesStay, Collecting
<1>11. FailClosed' /\ UnlockedIsAccepted'
      BY <1>0 DEF DoorInv, FailClosed, UnlockedIsAccepted, Hosted
<1> QED BY <1>4, <1>7, <1>8, <1>9, <1>10, <1>11 DEF DoorInv

LEMMA ScreenSteps ==
    ASSUME DoorInv, ScreenStep
    PROVE  DoorInv'
<1>0. screen \in Screens /\ NewScreen \in Screens /\ NewScreen.phase = "idle"
      BY DEF DoorInv, Types, NewScreen, Screens
<1>1. ASSUME NEW s \in Seeds, HandleCreate(s) PROVE DoorInv'
  <2> DEFINE r == [screen EXCEPT !.mode = "create", !.new = s, !.saved = FALSE]
  <2>1. r \in Screens /\ r.phase = screen.phase /\ screen.phase = "idle" /\ Shows(r)
        BY <1>0, <1>1 DEF HandleCreate, Showing, Screens
  <2> HIDE DEF r
  <2> QED BY <2>1, ScreenMoves
<1>2. CASE ConfirmSaved
  <2> DEFINE r == [screen EXCEPT !.saved = ~@]
  <2>1. r \in Screens /\ r.phase = screen.phase /\ screen.phase = "idle" /\ Shows(r)
        BY <1>0, <1>2 DEF ConfirmSaved, Showing, Screens
  <2> HIDE DEF r
  <2> QED BY <2>1, ScreenMoves
<1>3. CASE HandleRestore
  <2> DEFINE r == [screen EXCEPT !.mode = "restore"]
  <2>1. r \in Screens /\ r.phase = screen.phase /\ screen.phase = "idle" /\ Shows(r)
        BY <1>0, <1>3 DEF HandleRestore, Showing, Screens
  <2> HIDE DEF r
  <2> QED BY <2>1, ScreenMoves
<1>4. CASE HandleBack
  <2> DEFINE r == [NewScreen EXCEPT !.last = screen.last]
  <2>1. r \in Screens /\ r.phase = "idle"
        BY <1>0 DEF Screens
  <2>2. screen.phase \in {"idle", "error"} /\ Shows(r)
        BY <1>4 DEF HandleBack, Showing
  <2> HIDE DEF r
  <2> QED BY <2>1, <2>2, ScreenMoves
<1>5. screen.new \in Seeds \cup {None} /\ screen.last \in Seeds \cup {None}
      BY <1>0 DEF Screens
<1> QED BY <1>1, <1>2, <1>3, <1>4, <1>5, UnlockBegins
        DEF ScreenStep, Continue, HandleRetry, HandleRestoreSubmit, Showing
-----------------------------------------------------------------------------
(* CaladonClient.handshake *)

LEMMA ThrowsEnds ==
    ASSUME DoorInv, hs.pc \in Stages, Throws
    PROVE  DoorInv'
<1> DEFINE h == [hs EXCEPT !.pc = "idle", !.ev = None]
           r == [screen EXCEPT !.phase = "error"]
<1>1. /\ hs' = h /\ screen' = r /\ req' = NoRequest
      /\ UNCHANGED <<build, client, wasm, jar, saw, sent, acked, session>>
      BY DEF Throws
<1>2. h \in Handshakes /\ h.pc = "idle"
      BY DEF DoorInv, Types, Handshakes
<1>3. r \in Screens /\ r.phase = "error"
      BY DEF DoorInv, Types, Screens
<1> HIDE DEF h, r
<1>4. session = 0
      BY DEF DoorInv, ControlSound
<1>5. Types' /\ ClientSound'
      BY <1>1, <1>2, <1>3, RequestFree DEF DoorInv, Types, ClientSound
<1>6. ControlSound' /\ EvidenceSound'
      BY <1>1, <1>2, <1>3, <1>4 DEF ControlSound, EvidenceSound, Stages, Collecting
<1>7. RequestSound' /\ JarSound'
      BY <1>1, RequestFree DEF DoorInv, RequestSound, JarSound, CookiesStay
<1>8. FailClosed' /\ UnlockedIsAccepted'
      BY <1>1 DEF DoorInv, FailClosed, UnlockedIsAccepted, Hosted
<1> QED BY <1>5, <1>6, <1>7, <1>8 DEF DoorInv

\* The handshake goes on to its next request, and the WMK may be delivered with it.
LEMMA ProceedsOn ==
    ASSUME DoorInv, hs.pc \in Stages, NEW name \in Stages, NEW e \in Shapes \cup {None},
           Proceeds(name, e), sent' \in Deliveries, FailClosed',
           name \in Collecting => /\ e \in Shapes /\ e.challenge = hs.try
                                  /\ e.faults \cap {"no quote", "no certificates"} = {},
           name = "session" => sent'.try = hs.try
    PROVE  DoorInv'
<1> DEFINE h == [hs EXCEPT !.pc = name, !.ev = e]
<1>1. /\ hs' = h /\ req' = [NoRequest EXCEPT !.pc = "sent", !.name = name]
      /\ UNCHANGED <<build, screen, client, wasm, jar, saw, acked, session>>
      BY DEF Proceeds, Fetch
<1>2. h \in Handshakes /\ h.pc = name /\ h.ev = e /\ h.try = hs.try
      BY DEF DoorInv, Types, Handshakes
<1>3. req' \in Requests /\ req'.name = name /\ req'.timer = FALSE /\ req'.ok = FALSE
      BY <1>1, RequestFree DEF Requests
<1> HIDE DEF h
<1>4. session = 0 /\ hs.try # 0 /\ client # None /\ screen.phase = "unlocking"
      BY DEF DoorInv, ControlSound, Stages
<1>5. Types' /\ ClientSound'
      BY <1>1, <1>2, <1>3 DEF DoorInv, Types, ClientSound
<1>6. ControlSound' /\ EvidenceSound'
      BY <1>1, <1>2, <1>3, <1>4 DEF DoorInv, ControlSound, EvidenceSound, Stages
<1>7. RequestSound' /\ JarSound'
      BY <1>1, <1>3 DEF DoorInv, RequestSound, JarSound, CookiesStay
<1>8. UnlockedIsAccepted'
      BY <1>1, <1>4 DEF UnlockedIsAccepted
<1> QED BY <1>5, <1>6, <1>7, <1>8 DEF DoorInv

\* The WMK is delivered: in a hosted build only on verified evidence.
LEMMA EstablishDelivers ==
    ASSUME DoorInv, hs.pc \in Stages, NEW e \in Shapes, EstablishSession(e),
           Hosted => /\ ReadPinned(build) /\ e.faults = {}
                     /\ e.challenge = hs.try /\ e.quotedFor = hs.try /\ e.sessionPub = e.quotedPub
    PROVE  DoorInv'
<1>1. CASE e.sessionPub = None
      BY <1>1, ThrowsEnds DEF EstablishSession
<1>2. CASE e.sessionPub # None
  <2>1. Proceeds("session", e) /\ sent' = [try |-> hs.try, ev |-> e]
        BY <1>2 DEF EstablishSession
  <2>2. sent' \in Deliveries /\ sent'.try = hs.try /\ sent'.ev = e
        BY <2>1 DEF Deliveries, DoorInv, Types, Handshakes
  <2>3. build' = build
        BY <2>1 DEF Proceeds
  <2>4. FailClosed'
        BY <2>2, <2>3 DEF FailClosed, Hosted, ReadPinned
  <2>5. "session" \in Stages /\ "session" \notin Collecting
        BY DEF Stages, Collecting
  <2> QED BY <2>1, <2>2, <2>4, <2>5, ProceedsOn
<1> QED BY <1>1, <1>2

\* A hosted build's client is strict.
LEMMA HostedIsStrict ==
    ASSUME DoorInv, Hosted, client # None
    PROVE  client.policy = "strict"
<1>1. client.policy = ReadPolicy(build) /\ client.policy # "refused"
      BY DEF DoorInv, ClientSound, Types, Clients
<1> QED BY <1>1 DEF ReadPolicy, Hosted

\* Quotes that pass are sound: every fault that is not seen earlier has its check.
LEMMA PassIsSound ==
    ASSUME NEW e \in Shapes, NEW t \in Tries, VerifyQuote(e, t) = "PASS",
           e.faults \cap {"no quote", "no certificates"} = {}
    PROVE  e.faults = {} /\ e.quotedFor = t /\ e.sessionPub = e.quotedPub
<1>1. /\ "collateral unparsed" \notin e.faults /\ "bad signature" \notin e.faults
      /\ "stale collateral" \notin e.faults /\ "TCB degraded" \notin e.faults
      /\ e.faults \cap {"not a TD", "unpinned measurement"} = {}
      /\ e.faults \cap {"info unparsed", "other compose"} = {}
      /\ "other app" \notin e.faults /\ e.quotedFor = t /\ e.quotedPub = e.sessionPub
      /\ "logs" \notin e.faults
      BY DEF VerifyQuote
<1>2. e.faults \subseteq Faults
      BY DEF Shapes
<1>3. \A f \in e.faults : FALSE
      BY <1>1, <1>2 DEF Faults
<1> QED BY <1>1, <1>3

LEMMA ClientSteps ==
    ASSUME DoorInv, ClientStep
    PROVE  DoorInv'
<1>0. hs \in Handshakes /\ req \in Requests /\ sent \in Deliveries /\ hs.try \in 0..MaxTries
      BY DEF DoorInv, Types, Handshakes
<1>a. ASSUME UNCHANGED <<sent, build>>
      PROVE  sent' \in Deliveries /\ FailClosed'
      BY <1>0, <1>a DEF DoorInv, FailClosed, Hosted
<1>b. hs.pc \in Stages => client # None /\ hs.try \in Tries /\ req.name = hs.pc /\ client \in Clients
  <2>1. hs.pc \in Stages => hs.pc # "idle" /\ hs.try # 0
        BY DEF DoorInv, ControlSound, Stages
  <2>2. hs.try # 0 => hs.try \in Tries
        BY <1>0, TriesAssumption DEF Tries
  <2> QED BY <2>1, <2>2 DEF DoorInv, ControlSound, Types
<1>1. CASE Onboarded
  <2>1. hs.pc = "accounts" /\ Proceeds("attestation", None) /\ UNCHANGED <<sent, build>>
        BY <1>1 DEF Onboarded, Proceeds
  <2>2. hs.pc \in Stages /\ "attestation" \in Stages /\ "attestation" \notin Collecting
        BY <2>1 DEF Stages, Collecting
  <2> QED BY <1>a, <2>1, <2>2, ProceedsOn
<1>2. CASE Attested
  <2>1. hs.pc = "attestation" /\ hs.pc \in Stages
        BY <1>2 DEF Attested, Stages
  <2>2. CASE ~req.ok \/ req.ev.challenge # hs.try
        BY <1>2, <2>1, <2>2, ThrowsEnds DEF Attested
  <2>3. CASE ~(~req.ok \/ req.ev.challenge # hs.try)
    <3>1. req.ev \in Shapes /\ req.ev.challenge = hs.try
          BY <1>b, <2>1, <2>3 DEF DoorInv, RequestSound
    <3>2. CASE client.policy = "skip"
      <4>1. EstablishSession(req.ev) /\ ~Hosted
            BY <1>2, <1>b, <2>1, <2>3, <3>2, HostedIsStrict DEF Attested
      <4> QED BY <2>1, <3>1, <4>1, EstablishDelivers
    <3>3. CASE client.policy # "skip" /\ req.ev.faults \cap {"no quote", "no certificates"} # {}
          BY <1>2, <2>1, <2>3, <3>3, ThrowsEnds DEF Attested
    <3>4. CASE client.policy # "skip" /\ req.ev.faults \cap {"no quote", "no certificates"} = {}
      <4>1. Proceeds(Collateral[1], req.ev) /\ UNCHANGED sent
            BY <1>2, <2>3, <3>4 DEF Attested
      <4>2. Collateral[1] = "pckcrl"
            BY DEF Collateral
      <4>3. Proceeds("pckcrl", req.ev) /\ UNCHANGED <<sent, build>> /\ "pckcrl" \in Stages
            BY <4>1, <4>2 DEF Proceeds, Stages
      <4> QED BY <1>a, <2>1, <3>1, <3>4, <4>3, ProceedsOn
    <3> QED BY <3>2, <3>3, <3>4
  <2> QED BY <2>2, <2>3
<1>3. ASSUME NEW i \in 1..3, CollateralFetched(i) PROVE DoorInv'
  <2>1. /\ Collateral[1] = "pckcrl" /\ Collateral[2] = "tcb" /\ Collateral[3] = "qe identity"
        /\ Collateral[4] = "root-ca-crl"
        BY DEF Collateral
  <2>2. /\ Collateral[i] \in Collecting /\ Collateral[i] \in Stages /\ Collateral[i + 1] \in Stages
        /\ Collateral[i + 1] # "session"
    <3>1. i = 1 \/ i = 2 \/ i = 3
          OBVIOUS
    <3>2. CASE i = 1
      <4>1. i + 1 = 2
            BY <3>2
      <4>2. Collateral[i] = "pckcrl" /\ Collateral[i + 1] = "tcb"
            BY <2>1, <3>2, <4>1
      <4> QED BY <4>2 DEF Collecting, Stages
    <3>3. CASE i = 2
      <4>1. i + 1 = 3
            BY <3>3
      <4>2. Collateral[i] = "tcb" /\ Collateral[i + 1] = "qe identity"
            BY <2>1, <3>3, <4>1
      <4> QED BY <4>2 DEF Collecting, Stages
    <3>4. CASE i = 3
      <4>1. i + 1 = 4
            BY <3>4
      <4>2. Collateral[i] = "qe identity" /\ Collateral[i + 1] = "root-ca-crl"
            BY <2>1, <3>4, <4>1
      <4> QED BY <4>2 DEF Collecting, Stages
    <3> QED BY <3>1, <3>2, <3>3, <3>4
  <2>3. hs.pc \in Collecting /\ hs.pc \in Stages
        BY <1>3, <2>2 DEF CollateralFetched
  <2>4. /\ hs.ev \in Shapes /\ hs.ev.challenge = hs.try
        /\ hs.ev.faults \cap {"no quote", "no certificates"} = {}
        BY <2>3 DEF DoorInv, EvidenceSound
  <2>5. CASE req.ok
    <3>1. Proceeds(Collateral[i + 1], hs.ev) /\ UNCHANGED <<sent, build>>
          BY <1>3, <2>5 DEF CollateralFetched, Proceeds
    <3> QED BY <1>a, <2>2, <2>3, <2>4, <3>1, ProceedsOn
  <2>6. CASE ~req.ok
        BY <1>3, <2>3, <2>6, ThrowsEnds DEF CollateralFetched
  <2> QED BY <2>5, <2>6
<1>4. CASE Verified
  <2>1. hs.pc = "root-ca-crl" /\ hs.pc \in Stages
        BY <1>4 DEF Verified, Stages
  <2>2. /\ hs.ev \in Shapes /\ hs.ev.challenge = hs.try
        /\ hs.ev.faults \cap {"no quote", "no certificates"} = {}
        BY <2>1 DEF DoorInv, EvidenceSound, Collecting
  <2>3. CASE \/ ~req.ok \/ ~client.pinned \/ hs.ev.sessionPub = None
             \/ client.policy = "strict" /\ VerifyQuote(hs.ev, hs.try) # "PASS"
        BY <1>4, <2>1, <2>3, ThrowsEnds DEF Verified
  <2>4. CASE ~(\/ ~req.ok \/ ~client.pinned \/ hs.ev.sessionPub = None
               \/ client.policy = "strict" /\ VerifyQuote(hs.ev, hs.try) # "PASS")
    <3>1. EstablishSession(hs.ev)
          BY <1>4, <2>4 DEF Verified
    <3>2. client.pinned = ReadPinned(build)
          BY <1>b, <2>1 DEF DoorInv, ClientSound
    <3>3. ASSUME Hosted
          PROVE  /\ ReadPinned(build) /\ hs.ev.faults = {}
                 /\ hs.ev.quotedFor = hs.try /\ hs.ev.sessionPub = hs.ev.quotedPub
      <4>1. VerifyQuote(hs.ev, hs.try) = "PASS"
            BY <1>b, <2>1, <2>4, <3>3, HostedIsStrict
      <4> QED BY <1>b, <2>1, <2>2, <2>4, <3>2, <4>1, PassIsSound
    <3> QED BY <2>1, <2>2, <3>1, <3>3, EstablishDelivers
  <2> QED BY <2>3, <2>4
<1>5. CASE SessionAnswered
  <2>1. hs.pc = "session" /\ hs.pc \in Stages
        BY <1>5 DEF SessionAnswered, Stages
  <2>2. CASE ~req.ok
        BY <1>5, <2>1, <2>2, ThrowsEnds DEF SessionAnswered
  <2>3. CASE req.ok
    <3> DEFINE h == [hs EXCEPT !.pc = "idle", !.ev = None]
               r == [NewScreen EXCEPT !.phase = "unlocked"]
    <3>1. /\ session' = hs.try /\ acked' = acked \cup {hs.try} /\ hs' = h /\ screen' = r
          /\ req' = NoRequest /\ UNCHANGED <<build, client, wasm, jar, saw, sent>>
          BY <1>5, <2>3 DEF SessionAnswered
    <3>2. h \in Handshakes /\ h.pc = "idle"
          BY <1>0 DEF Handshakes
    <3>3. NewScreen \in Screens
          BY DEF NewScreen, Screens
    <3>4. r \in Screens /\ r.phase = "unlocked"
          BY <3>3 DEF Screens
    <3> HIDE DEF h, r
    <3>5. client # None /\ hs.try # 0 /\ sent.try = hs.try
          BY <1>b, <2>1 DEF DoorInv, ControlSound, EvidenceSound
    <3>6. Types' /\ ClientSound'
          BY <3>1, <3>2, <3>4, RequestFree DEF DoorInv, Types, ClientSound
    <3>7. ControlSound' /\ EvidenceSound'
          BY <3>1, <3>2, <3>4, <3>5 DEF ControlSound, EvidenceSound, Stages, Collecting
    <3>8. RequestSound' /\ JarSound'
          BY <3>1, RequestFree DEF DoorInv, RequestSound, JarSound, CookiesStay
    <3>9. FailClosed' /\ UnlockedIsAccepted'
          BY <3>1, <3>5 DEF DoorInv, FailClosed, UnlockedIsAccepted, Hosted
    <3> QED BY <3>6, <3>7, <3>8, <3>9 DEF DoorInv
  <2> QED BY <2>2, <2>3
<1>6. CASE Rejected
  <2>1. hs.pc \in Stages
        BY <1>0, <1>6 DEF Rejected, Handshakes
  <2> QED BY <1>6, <2>1, ThrowsEnds DEF Rejected
<1> QED BY <1>1, <1>2, <1>3, <1>4, <1>5, <1>6 DEF ClientStep

-----------------------------------------------------------------------------
(* The unlocked tab, and the theorems *)

LEMMA TabSteps ==
    ASSUME DoorInv, Chat \/ ChatEnds \/ Lock
    PROVE  DoorInv'
<1>0. hs \in Handshakes
      BY DEF DoorInv, Types
<1>1. CASE Chat
  <2> DEFINE h == [hs EXCEPT !.pc = "chat", !.ev = None]
  <2>1. /\ session # 0 /\ hs' = h /\ req' = [NoRequest EXCEPT !.pc = "sent", !.name = "chat"]
        /\ UNCHANGED <<build, screen, client, wasm, jar, saw, sent, acked, session>>
        BY <1>1 DEF Chat, Proceeds, Fetch
  <2>2. h \in Handshakes /\ h.pc = "chat"
        BY <1>0 DEF Handshakes
  <2>3. req' \in Requests /\ req'.name = "chat" /\ req'.timer = FALSE
        BY <2>1, RequestFree DEF Requests
  <2> HIDE DEF h
  <2>4. Types' /\ ClientSound' /\ RequestSound' /\ JarSound'
        BY <2>1, <2>2, <2>3 DEF DoorInv, Types, ClientSound, RequestSound, JarSound, CookiesStay
  <2>5. ControlSound' /\ EvidenceSound'
        BY <2>1, <2>2, <2>3, <1>1 DEF Chat, DoorInv, ControlSound, EvidenceSound, Stages, Collecting
  <2>6. FailClosed' /\ UnlockedIsAccepted'
        BY <2>1 DEF DoorInv, FailClosed, UnlockedIsAccepted, Hosted
  <2> QED BY <2>4, <2>5, <2>6 DEF DoorInv
<1>2. CASE ChatEnds
  <2> DEFINE h == [hs EXCEPT !.pc = "idle"]
  <2>1. /\ hs.pc = "chat" /\ hs' = h /\ req' = NoRequest
        /\ UNCHANGED <<build, screen, client, wasm, jar, saw, sent, acked, session>>
        BY <1>2 DEF ChatEnds
  <2>2. h \in Handshakes /\ h.pc = "idle"
        BY <1>0 DEF Handshakes
  <2> HIDE DEF h
  <2>4. Types' /\ ClientSound' /\ RequestSound' /\ JarSound'
        BY <2>1, <2>2, RequestFree DEF DoorInv, Types, ClientSound, RequestSound, JarSound, CookiesStay
  <2>5. ControlSound' /\ EvidenceSound'
        BY <2>1, <2>2 DEF DoorInv, ControlSound, EvidenceSound, Stages, Collecting
  <2>6. FailClosed' /\ UnlockedIsAccepted'
        BY <2>1 DEF DoorInv, FailClosed, UnlockedIsAccepted, Hosted
  <2> QED BY <2>4, <2>5, <2>6 DEF DoorInv
<1>3. CASE Lock
  <2>1. /\ hs.pc = "idle" /\ session' = 0 /\ client' = None /\ screen' = NewScreen
        /\ UNCHANGED <<build, wasm, hs, req, jar, saw, sent, acked>>
        BY <1>3 DEF Lock, shimVars
  <2>2. NewScreen \in Screens /\ NewScreen.phase = "idle"
        BY DEF NewScreen, Screens
  <2>4. Types' /\ ClientSound' /\ RequestSound' /\ JarSound'
        BY <2>1, <2>2 DEF DoorInv, Types, ClientSound, RequestSound, JarSound, CookiesStay
  <2>5. ControlSound' /\ EvidenceSound'
        BY <2>1, <2>2 DEF DoorInv, ControlSound, EvidenceSound, Stages, Collecting
  <2>6. FailClosed' /\ UnlockedIsAccepted'
        BY <2>1 DEF DoorInv, FailClosed, UnlockedIsAccepted, Hosted
  <2> QED BY <2>4, <2>5, <2>6 DEF DoorInv
<1> QED BY <1>1, <1>2, <1>3

LEMMA DoorStep == DoorInv /\ [Next]_vars => DoorInv'
<1> SUFFICES ASSUME DoorInv, [Next]_vars PROVE DoorInv'
    OBVIOUS
<1>1. CASE UNCHANGED vars
  <2>1. Types' /\ ClientSound' /\ RequestSound' /\ JarSound'
        BY <1>1 DEF vars, shimVars, DoorInv, Types, ClientSound, RequestSound, JarSound, CookiesStay
  <2>2. ControlSound' /\ EvidenceSound'
        BY <1>1 DEF vars, shimVars, DoorInv, ControlSound, EvidenceSound
  <2>3. FailClosed' /\ UnlockedIsAccepted'
        BY <1>1 DEF vars, shimVars, DoorInv, FailClosed, UnlockedIsAccepted, Hosted
  <2> QED BY <2>1, <2>2, <2>3 DEF DoorInv
<1> QED BY <1>1, ScreenSteps, ClientSteps, ShimSteps, TabSteps DEF Next

LEMMA DoorImplies == DoorInv => OnlyOnEvidence /\ CookiesStay
<1> SUFFICES ASSUME DoorInv PROVE OnlyOnEvidence /\ CookiesStay
    OBVIOUS
<1>1. hs.pc \in Stages <=> hs.pc \notin {"idle", "chat"}
      BY DEF DoorInv, Types, Handshakes, Stages
<1>2. hs.try \in 0..MaxTries
      BY DEF DoorInv, Types, Handshakes
<1>3. TypeOK
      BY <1>1, <1>2 DEF DoorInv, Types, TypeOK, ControlSound, RequestSound, JarSound, Screens, Clients
<1> QED BY <1>3 DEF DoorInv, OnlyOnEvidence, JarSound

LEMMA DoorInvariant == Spec => []DoorInv
  BY DoorInitial, DoorStep, PTL DEF Spec

(***************************************************************************)
(* client.ts, handshake: a hosted build sends the master key only on       *)
(* evidence that is free of every fault, was made for this handshake and   *)
(* names the key it is sealed to, and a tab is unlocked only by the        *)
(* handshake that the gateway accepted: for any evidence, any number of    *)
(* tries and anything the relay and the upstreams do.                      *)
(***************************************************************************)
THEOREM UnlocksOnlyOnEvidence == Spec => []OnlyOnEvidence
  BY DoorInvariant, DoorImplies, PTL

(***************************************************************************)
(* proxy.ts: through any sequence of requests, answers, timeouts and       *)
(* failures the shim's cookie stays between browser and shim, and no       *)
(* upstream sets a cookie in the browser.                                  *)
(***************************************************************************)
THEOREM CookiesAlwaysStay == Spec => []CookiesStay
  BY DoorInvariant, DoorImplies, PTL
=============================================================================
