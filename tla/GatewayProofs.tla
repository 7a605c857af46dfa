----------------------------- MODULE GatewayProofs -----------------------------
(***************************************************************************)
(* Proofs about what the gateway's handlers keep: ModelCatalog and         *)
(* TurnRouting for every set of callers, turns, models, lists and          *)
(* deployments, AccountRegistry for every set of accounts and keys and any *)
(* number of crashes, whatever the bounds.  The two share no state.        *)
(***************************************************************************)
EXTENDS TurnRouting, AccountRegistry, TLAPS

-----------------------------------------------------------------------------
(* The catalog *)

Recorded(l) == \E t \in Times : <<t, l>> \in published
RecordedSince(at, l) == \E t \in Times : at <= t /\ t <= clock /\ <<t, l>> \in published

CacheEntries == [at : Times, list : Lists \cup {NoList}]
CallRecords == [pc : {"idle", "asking", "answered", "done", "failed", "raised"},
                now : Times, cached : CacheEntries,
                data : Lists \cup {NoList}, out : Lists \cup {{}, NoList}]

(***************************************************************************)
(* One run of fetch_all_models: an answer was published at or after the    *)
(* time of the question, and whatever is returned was published or is the  *)
(* empty list.                                                             *)
(***************************************************************************)
CallSound(r) ==
    /\ r.pc = "asking" => r.now <= clock
    /\ r.pc = "answered" => r.data \in Lists /\ RecordedSince(r.now, r.data)
    /\ r.pc \in {"asking", "answered"} /\ Good(r.cached) => Recorded(r.cached.list)
    /\ r.pc \in {"done", "failed"} => r.out # NoList /\ (r.out = {} \/ Recorded(r.out))

(***************************************************************************)
(* CacheFresh without its time limit: an entry was published at or after   *)
(* the time it is stamped with.                                            *)
(***************************************************************************)
CacheSound == Good(cache) => RecordedSince(cache.at, cache.list)

CatalogInv ==
    /\ clock \in Times /\ live \in Lists /\ published \subseteq Times \X Lists
    /\ cache \in CacheEntries
    /\ call \in [Callers -> CallRecords]
    /\ <<clock, live>> \in published
    /\ CacheSound
    /\ \A c \in Callers : CallSound(call[c])

LEMMA NoListFresh == NoList \notin Lists /\ NoList # {}
  BY CatalogAssumption

LEMMA CatalogInitial == CatalogInit => CatalogInv
<1> SUFFICES ASSUME CatalogInit PROVE CatalogInv
    OBVIOUS
<1>1. 0 \in Times
      BY CatalogAssumption DEF Times
<1>2. NoCall \in CallRecords
      BY <1>1 DEF NoCall, CallRecords, NoCache, CacheEntries
<1>3. CallSound(NoCall)
      BY DEF CallSound, NoCall
<1> QED BY <1>1, <1>2, <1>3 DEF CatalogInit, CatalogInv, CacheSound, NoCache, Good, CacheEntries

\* Time passes and lists are published: what was recorded stays so.
LEMMA RecordsGrow ==
    ASSUME clock \in Times, clock' \in Times, clock <= clock', published \subseteq published'
    PROVE  /\ \A at, l : RecordedSince(at, l) => RecordedSince(at, l)'
           /\ \A r \in CallRecords : CallSound(r) => CallSound(r)'
<1>1. \A t \in Times : t <= clock => t <= clock'
      BY CatalogAssumption DEF Times
<1>2. \A at, l : RecordedSince(at, l) => RecordedSince(at, l)'
      BY <1>1 DEF RecordedSince
<1>3. \A l : Recorded(l) => Recorded(l)'
      BY DEF Recorded
<1>4. \A r \in CallRecords : r.now <= clock => r.now <= clock'
      BY <1>1 DEF CallRecords
<1> QED BY <1>2, <1>3, <1>4 DEF CallSound

\* One run of fetch_all_models moves on.
LEMMA CallMoves ==
    ASSUME CatalogInv, NEW c \in Callers, NEW r \in CallRecords, CallSound(r),
           call' = [call EXCEPT ![c] = r], UNCHANGED <<clock, live, published, cache>>
    PROVE  CatalogInv'
<1>1. call' \in [Callers -> CallRecords]
      BY DEF CatalogInv
<1>2. \A b \in Callers : CallSound(call'[b])
      BY DEF CatalogInv
<1>3. \A b \in Callers : CallSound(call[b])'
      BY <1>2 DEF CallSound, RecordedSince, Recorded
<1> QED BY <1>1, <1>3 DEF CatalogInv, CacheSound, RecordedSince

\* What fetch_all_models starts with.
Started == IF Good(cache) /\ clock - cache.at < TTL
           THEN Returned("done", cache.list)
           ELSE [NoCall EXCEPT !.pc = "asking", !.now = clock, !.cached = cache]

LEMMA ReturnedType ==
    ASSUME CatalogInv, NEW p \in {"done", "failed"}, NEW l \in Lists \cup {{}}, l = {} \/ Recorded(l)
    PROVE  Returned(p, l) \in CallRecords /\ CallSound(Returned(p, l))
<1>1. 0 \in Times /\ NoCache \in CacheEntries
      BY CatalogAssumption DEF Times, NoCache, CacheEntries
<1>2. NoCall \in CallRecords
      BY <1>1 DEF NoCall, CallRecords
<1>3. Returned(p, l) \in CallRecords
      BY <1>2 DEF Returned, CallRecords
<1>4. Returned(p, l).pc = p /\ Returned(p, l).out = l
      BY <1>2 DEF Returned, CallRecords
<1> QED BY <1>3, <1>4, NoListFresh DEF CallSound

LEMMA StartedType == CatalogInv => Started \in CallRecords /\ CallSound(Started)
<1> SUFFICES ASSUME CatalogInv PROVE Started \in CallRecords /\ CallSound(Started)
    OBVIOUS
<1>1. CASE Good(cache) /\ clock - cache.at < TTL
  <2>1. cache.list \in Lists /\ Recorded(cache.list)
        BY <1>1 DEF CatalogInv, CacheSound, CacheEntries, Good, Recorded, RecordedSince
  <2> QED BY <1>1, <2>1, ReturnedType DEF Started
<1>2. CASE ~(Good(cache) /\ clock - cache.at < TTL)
  <2>1. Started = [pc |-> "asking", now |-> clock, cached |-> cache, data |-> NoList, out |-> NoList]
        BY <1>2 DEF Started, NoCall
  <2>2. Good(cache) => Recorded(cache.list)
        BY DEF CatalogInv, CacheSound, Recorded, RecordedSince
  <2>3. clock <= clock
        BY CatalogAssumption DEF CatalogInv, Times
  <2> QED BY <2>1, <2>2, <2>3 DEF CatalogInv, CallRecords, CallSound
<1> QED BY <1>1, <1>2

LEMMA FetchAllStarts ==
    ASSUME CatalogInv, NEW c \in Callers, FetchAll(c), UNCHANGED <<clock, live, published, cache>>
    PROVE  CatalogInv'
<1>1. call' = [call EXCEPT ![c] = Started]
      BY DEF FetchAll, Started
<1> QED BY <1>1, StartedType, CallMoves

LEMMA CatalogSteps ==
    ASSUME CatalogInv, NEW c \in Callers, CatalogStep(c)
    PROVE  CatalogInv'
<1>0. call[c] \in CallRecords /\ CallSound(call[c])
      BY DEF CatalogInv
<1>1. CASE Served(c)
  <2> DEFINE r == [call[c] EXCEPT !.pc = "answered", !.data = live]
  <2>1. r \in CallRecords
        BY <1>0 DEF CatalogInv, CallRecords
  <2>2. RecordedSince(call[c].now, live)
        BY <1>0, <1>1, CatalogAssumption DEF CatalogInv, CallSound, Served, RecordedSince, CallRecords, Times
  <2>3. r.pc = "answered" /\ r.now = call[c].now /\ r.data = live /\ r.cached = call[c].cached
        BY <1>0 DEF CallRecords
  <2>4. CallSound(r)
        BY <1>0, <1>1, <2>2, <2>3 DEF CatalogInv, CallSound, Served
  <2>5. call' = [call EXCEPT ![c] = r] /\ UNCHANGED <<clock, live, published, cache>>
        BY <1>1 DEF Served
  <2> QED BY <2>1, <2>4, <2>5, CallMoves
<1>2. CASE Fetched(c)
  <2>1. call[c].data \in Lists /\ RecordedSince(call[c].now, call[c].data) /\ call[c].now \in Times
        BY <1>0, <1>2 DEF CallSound, Fetched, CallRecords
  <2>2. Returned("done", call[c].data) \in CallRecords /\ CallSound(Returned("done", call[c].data))
        BY <2>1, ReturnedType DEF Recorded, RecordedSince
  <2>3. cache' \in CacheEntries /\ cache'.at = call[c].now /\ cache'.list = call[c].data
        BY <1>2, <2>1 DEF Fetched, CacheEntries
  <2>4. UNCHANGED <<clock, live, published>> /\ call' = [call EXCEPT ![c] = Returned("done", call[c].data)]
        BY <1>2 DEF Fetched
  <2>5. CacheSound'
        BY <2>1, <2>3, <2>4 DEF CacheSound, RecordedSince
  <2>6. call' \in [Callers -> CallRecords] /\ \A b \in Callers : CallSound(call'[b])
        BY <2>2, <2>4 DEF CatalogInv
  <2>7. \A b \in Callers : CallSound(call[b])'
        BY <2>4, <2>6 DEF CallSound, RecordedSince, Recorded
  <2> QED BY <2>3, <2>4, <2>5, <2>6, <2>7 DEF CatalogInv
<1>3. CASE FetchFailed(c)
  <2>1. ListOf(call[c].cached) \in Lists \cup {{}}
        /\ (ListOf(call[c].cached) = {} \/ Recorded(ListOf(call[c].cached)))
        BY <1>0, <1>3 DEF FetchFailed, CallSound, CallRecords, CacheEntries, ListOf, Good
  <2>2. Returned("failed", ListOf(call[c].cached)) \in CallRecords
        /\ CallSound(Returned("failed", ListOf(call[c].cached)))
        BY <2>1, ReturnedType
  <2> QED BY <1>3, <2>2, CallMoves DEF FetchFailed
<1>4. CASE FetchRaises(c)
  <2> DEFINE r == [NoCall EXCEPT !.pc = "raised"]
  <2>1. 0 \in Times /\ NoCache \in CacheEntries
        BY CatalogAssumption DEF Times, NoCache, CacheEntries
  <2>2. r \in CallRecords /\ CallSound(r)
        BY <2>1 DEF CallRecords, CallSound, NoCall
  <2> QED BY <1>4, <2>2, CallMoves DEF FetchRaises
<1> QED BY <1>1, <1>2, <1>3, <1>4 DEF CatalogStep

LEMMA ProviderSteps ==
    ASSUME CatalogInv, Provider
    PROVE  CatalogInv' /\ published \subseteq published'
<1>1. /\ clock' \in Times /\ clock <= clock' /\ live' \in Lists
      /\ published' = published \cup {<<clock', live'>>}
      /\ UNCHANGED <<cache, call>>
      BY CatalogAssumption DEF CatalogInv, Provider, Tick, Publish, Times
<1>2. published' \subseteq Times \X Lists /\ <<clock', live'>> \in published' /\ published \subseteq published'
      BY <1>1 DEF CatalogInv
<1>3. CacheSound' /\ \A c \in Callers : CallSound(call[c])'
      BY <1>1, <1>2, RecordsGrow DEF CatalogInv, CacheSound
<1> QED BY <1>1, <1>2, <1>3 DEF CatalogInv

LEMMA CatalogImplies == CatalogInv => CatalogTypeOK /\ CacheFresh
<1> SUFFICES ASSUME CatalogInv PROVE CatalogTypeOK /\ CacheFresh
    OBVIOUS
<1>1. CatalogTypeOK
      BY DEF CatalogInv, CatalogTypeOK, CallRecords, CacheEntries, CallSound
<1>2. ASSUME Good(cache), clock - cache.at < TTL
      PROVE  \E t \in Times : t <= clock /\ clock - t < TTL /\ <<t, cache.list>> \in published
  <2>1. PICK t \in Times : cache.at <= t /\ t <= clock /\ <<t, cache.list>> \in published
        BY <1>2 DEF CatalogInv, CacheSound, RecordedSince
  <2>2. clock - t < TTL
        BY <1>2, <2>1, CatalogAssumption DEF CatalogInv, CacheEntries, Times
  <2> QED BY <2>1, <2>2
<1> QED BY <1>1, <1>2 DEF CacheFresh

-----------------------------------------------------------------------------
(* The turns *)

Events == {"tool", "token", "receipt", "done", "failed", "rejected"}
Ends == {"done", "failed", "rejected"}
TurnRecords ==
    [pc : {"idle", "report", "route", "attested", "known", "completing",
           "asking", "executing", "showing", "failing", "letta", "closed"},
     model : Models \cup {NoModel}, tools : BOOLEAN, report : Reports \cup {"none"},
     to : Models \cup {NoModel}, steps : 0..MaxSteps, events : Seq(Events)]

\* Where a turn may be before its prompt has been sent.
Unsent == {"idle", "report", "route", "attested", "known", "letta"}

(***************************************************************************)
(* Where the control of a turn is, and what that says of its prompt.       *)
(***************************************************************************)
ControlSound(r) ==
    /\ r.pc \in Unsent => r.to = NoModel
    /\ r.pc \in Unsent \cup {"completing"} => r.steps = 0
    /\ r.pc \in {"asking", "executing"} => r.steps < MaxSteps
    /\ r.pc = "attested" => r.model \in Attested
    /\ r.pc = "known" => settings.cloud
    /\ r.pc = "letta" => ~settings.inference
    /\ r.pc = "idle" => r.report = "none"
    /\ r.pc \notin {"letta", "showing", "closed"} => r.events = <<>>
    /\ settings.inference /\ settings.enforce /\ r.report # "allowed" =>
           r.pc \in {"idle", "report", "closed"}

\* Where its prompt went.
DestinationSound(r) ==
    /\ r.to \notin Attested \cup {NoModel} => settings.cloud /\ r.to = r.model
    /\ r.to \notin {NoModel, Default, ToolModel} => \E p \in published : r.to \in p[2]
    /\ settings.enforce /\ settings.inference /\ r.report # "allowed" => r.to = NoModel

\* What it has emitted.
EventsSound(r) ==
    LET ev == r.events IN
    /\ r.pc = "letta" => \A i \in DOMAIN ev : ev[i] = "token"
    /\ r.pc = "showing" => \A i \in DOMAIN ev : ev[i] = "tool"
    /\ settings.enforce /\ settings.inference /\ r.report # "allowed" =>
           ~\E i \in DOMAIN ev : ev[i] \in {"token", "tool"}
    /\ \A i \in DOMAIN ev : ev[i] \in Ends => i = Len(ev)
    /\ r.pc = "closed" => ev # <<>> /\ ev[Len(ev)] \in Ends
    /\ \A i \in DOMAIN ev : ev[i] = "done" => ev[i - 1] = "receipt"
    /\ \A i, j \in DOMAIN ev : ev[i] = "receipt" /\ ev[j] \in {"token", "tool"} => j < i

TurnSound(r) == ControlSound(r) /\ DestinationSound(r) /\ EventsSound(r)

RoutingInv ==
    /\ CatalogInv
    /\ settings \in SettingsSet
    /\ turn \in [Turns -> TurnRecords]
    /\ \A t \in Turns : TurnSound(turn[t])

LEMMA RoutingInitial == Init => RoutingInv
<1> SUFFICES ASSUME Init PROVE RoutingInv
    OBVIOUS
<1>1. NewTurn \in TurnRecords
  <2>1. 0 \in 0..MaxSteps
        BY RoutingAssumption
  <2> QED BY <2>1 DEF NewTurn, TurnRecords
<1>2. TurnSound(NewTurn)
      BY RoutingAssumption DEF NewTurn, TurnSound, ControlSound, DestinationSound, EventsSound, Unsent
<1> QED BY <1>1, <1>2, CatalogInitial DEF Init, RoutingInv

\* One turn moves on; the catalog keeps its invariant and forgets no list.
LEMMA TurnMoves ==
    ASSUME RoutingInv, CatalogInv', UNCHANGED settings, published \subseteq published',
           NEW t \in Turns, NEW r \in TurnRecords, TurnSound(r), turn' = [turn EXCEPT ![t] = r]
    PROVE  RoutingInv'
<1>1. turn' \in [Turns -> TurnRecords]
      BY DEF RoutingInv
<1>2. \A u \in Turns : TurnSound(turn'[u])
      BY DEF RoutingInv
<1>3. \A u \in Turns : TurnSound(turn[u])'
      BY <1>2 DEF TurnSound, ControlSound, DestinationSound, EventsSound
<1> QED BY <1>1, <1>3 DEF RoutingInv

LEMMA TurnsStay ==
    ASSUME RoutingInv, CatalogInv', UNCHANGED <<settings, turn>>, published \subseteq published'
    PROVE  RoutingInv'
<1>1. \A u \in Turns : TurnSound(turn[u])'
      BY DEF RoutingInv, TurnSound, ControlSound, DestinationSound, EventsSound
<1> QED BY <1>1 DEF RoutingInv

\* A record of a turn that has emitted nothing and goes on.
LEMMA Unheard ==
    ASSUME NEW r \in TurnRecords, r.events = <<>>, r.pc # "closed"
    PROVE  EventsSound(r)
  BY DEF EventsSound

Deltas == {"token", "tool"}

\* A reply that ended well: deltas, the receipt, done.
LEMMA ReplyDone ==
    ASSUME NEW r \in TurnRecords, r.pc = "closed", NEW n \in Nat, Len(r.events) = n + 2,
           \A i \in 1..n : r.events[i] \in Deltas,
           r.events[n + 1] = "receipt", r.events[n + 2] = "done",
           settings.enforce /\ settings.inference => r.report = "allowed"
    PROVE  EventsSound(r)
<1> DEFINE ev == r.events
<1>1. ev \in Seq(Events)
      BY DEF TurnRecords
<1>2. DOMAIN ev = 1..(n + 2)
      BY <1>1
<1>3. \A i \in 1..(n + 2) : i \in 1..n \/ i = n + 1 \/ i = n + 2
      OBVIOUS
<1>4. \A i \in DOMAIN ev : ev[i] \in Ends => i = n + 2
      BY <1>2, <1>3 DEF Ends, Deltas
<1>5. \A i \in DOMAIN ev : ev[i] = "done" => i = n + 2
      BY <1>4 DEF Ends
<1>6. \A i \in DOMAIN ev : ev[i] = "receipt" => i = n + 1
      BY <1>2, <1>3 DEF Deltas
<1>7. \A i \in DOMAIN ev : ev[i] \in Deltas => i < n + 1
      BY <1>2, <1>3 DEF Deltas
<1>8. ev[Len(ev)] = "done" /\ ev # <<>>
      BY <1>1
<1>9. \A i \in DOMAIN ev : ev[i] = "done" => ev[i - 1] = "receipt"
      BY <1>5
<1> QED BY <1>4, <1>6, <1>7, <1>8, <1>9 DEF EventsSound, Ends, Deltas

\* A reply that failed: deltas, then the error.
LEMMA ReplyFailed ==
    ASSUME NEW r \in TurnRecords, r.pc = "closed", NEW n \in Nat, Len(r.events) = n + 1,
           \A i \in 1..n : r.events[i] \in Deltas, r.events[n + 1] = "failed",
           settings.enforce /\ settings.inference => r.report = "allowed"
    PROVE  EventsSound(r)
<1> DEFINE ev == r.events
<1>1. ev \in Seq(Events)
      BY DEF TurnRecords
<1>2. DOMAIN ev = 1..(n + 1)
      BY <1>1
<1>3. \A i \in 1..(n + 1) : i \in 1..n \/ i = n + 1
      OBVIOUS
<1>4. \A i \in DOMAIN ev : ev[i] \in Ends => i = n + 1
      BY <1>2, <1>3 DEF Ends, Deltas
<1>5. \A i \in DOMAIN ev : ev[i] # "done" /\ ev[i] # "receipt"
      BY <1>2, <1>3 DEF Deltas
<1>6. ev[Len(ev)] = "failed" /\ ev # <<>>
      BY <1>1
<1> QED BY <1>4, <1>5, <1>6 DEF EventsSound, Ends

\* What is emitted follows what was.
LEMMA Appended ==
    ASSUME NEW s \in Seq(Events), NEW b \in Seq(Events)
    PROVE  /\ \A i \in 1..Len(s) : (s \o b)[i] = s[i]
           /\ \A k \in 1..Len(b) : (s \o b)[Len(s) + k] = b[k]
<1>1. Len(s) \in Nat /\ Len(b) \in Nat /\ Len(s \o b) = Len(s) + Len(b)
      OBVIOUS
<1>2. ASSUME NEW i \in 1..Len(s) PROVE (s \o b)[i] = s[i]
      BY <1>1
<1>3. ASSUME NEW k \in 1..Len(b) PROVE (s \o b)[Len(s) + k] = b[k]
  <2>1. Len(s) + k \in 1..(Len(s) + Len(b)) /\ ~(Len(s) + k <= Len(s)) /\ (Len(s) + k) - Len(s) = k
        BY <1>1
  <2> QED BY <1>1, <2>1
<1> QED BY <1>2, <1>3

LEMMA TurnSteps ==
    ASSUME RoutingInv, NEW t \in Turns, InferenceStep(t) \/ LettaStep(t)
    PROVE  RoutingInv'
<1> DEFINE q == turn[t]
<1>0. q \in TurnRecords /\ TurnSound(q) /\ t \in Callers
      BY RoutingAssumption DEF RoutingInv
<1>a. settings \in [inference : BOOLEAN, receipt : BOOLEAN, enforce : BOOLEAN,
                    cloud : BOOLEAN, mcp : BOOLEAN]
      BY RoutingAssumption DEF RoutingInv
<1>b. ASSUME UNCHANGED catalogVars
      PROVE  CatalogInv' /\ published \subseteq published'
  <2>1. \A c \in Callers : CallSound(call[c])'
        BY <1>b DEF RoutingInv, CatalogInv, catalogVars, CallSound, RecordedSince, Recorded
  <2> QED BY <1>b, <2>1 DEF RoutingInv, CatalogInv, catalogVars, CacheSound, RecordedSince
<1>c. ASSUME UNCHANGED <<clock, live, published, cache>>, FetchAll(t)
      PROVE  CatalogInv' /\ published \subseteq published'
      BY <1>c, <1>0, FetchAllStarts DEF RoutingInv
<1>d. ASSUME UNCHANGED <<clock, live, published, cache>>, call' = [call EXCEPT ![t] = NoCall]
      PROVE  CatalogInv' /\ published \subseteq published'
  <2>1. 0 \in Times /\ NoCache \in CacheEntries
        BY CatalogAssumption DEF Times, NoCache, CacheEntries
  <2>2. NoCall \in CallRecords /\ CallSound(NoCall)
        BY <2>1 DEF NoCall, CallRecords, CallSound
  <2> QED BY <1>d, <1>0, <2>2, CallMoves DEF RoutingInv
<1> HIDE DEF q
<1>1. ASSUME NEW rep \in Reports, Report(t, rep) PROVE RoutingInv'
  <2>0. q.pc = "report" /\ UNCHANGED <<catalogVars, settings>> /\ q.events = <<>>
        /\ q.to = NoModel /\ q.steps = 0
        BY <1>0, <1>1 DEF Report, q, TurnSound, ControlSound, Unsent
  <2>1. CASE EnforceViolation(rep)
    <3> DEFINE r == [q EXCEPT !.pc = "closed", !.report = rep, !.events = <<"receipt", "rejected">>]
    <3>1. turn' = [turn EXCEPT ![t] = r]
          BY <1>1, <2>1 DEF Report, q
    <3>2. <<"receipt", "rejected">> \in Seq(Events)
          BY DEF Events
    <3>3. r \in TurnRecords
          BY <1>0, <3>2 DEF TurnRecords
    <3>4. r.pc = "closed" /\ r.to = NoModel /\ r.steps = 0 /\ r.events = <<"receipt", "rejected">>
          BY <1>0, <2>0 DEF TurnRecords
    <3>5. EventsSound(r)
          BY <3>4 DEF EventsSound, Ends
    <3>6. ControlSound(r) /\ DestinationSound(r)
          BY <3>4, RoutingAssumption DEF ControlSound, DestinationSound, Unsent
    <3> QED BY <3>1, <3>3, <3>5, <3>6, <2>0, <1>b, TurnMoves DEF TurnSound
  <2>2. CASE ~EnforceViolation(rep)
    <3> DEFINE r == [q EXCEPT !.pc = "route", !.report = rep]
    <3>1. turn' = [turn EXCEPT ![t] = r]
          BY <1>1, <2>2 DEF Report, q
    <3>2. r \in TurnRecords
          BY <1>0 DEF TurnRecords
    <3>3. /\ r.pc = "route" /\ r.to = NoModel /\ r.steps = 0 /\ r.events = <<>> /\ r.report = rep
          /\ settings.enforce => rep = "allowed"
          BY <1>0, <2>0, <2>2 DEF TurnRecords, EnforceViolation
    <3>4. ControlSound(r) /\ DestinationSound(r)
          BY <3>3, RoutingAssumption DEF ControlSound, DestinationSound, Unsent
    <3> QED BY <3>1, <3>2, <3>3, <3>4, Unheard, <2>0, <1>b, TurnMoves DEF TurnSound
  <2> QED BY <2>1, <2>2
\* A lookup is started, and the turn waits for it.
<1>2. ASSUME NEW p \in {"attested", "known"}, LookUp(t, p), UNCHANGED <<clock, live, published, cache, settings>>,
             q.pc \in {"route", "attested"}, p = "attested" => q.model \in Attested,
             p = "known" => settings.cloud
      PROVE  RoutingInv'
  <2> DEFINE r == [q EXCEPT !.pc = p]
  <2>1. turn' = [turn EXCEPT ![t] = r] /\ FetchAll(t)
        BY <1>2 DEF LookUp, q
  <2>2. r \in TurnRecords
        BY <1>0, <1>2 DEF TurnRecords
  <2>3. r.pc = p /\ r.to = q.to /\ r.steps = q.steps /\ r.events = q.events /\ r.model = q.model
        /\ r.report = q.report
        BY <1>0 DEF TurnRecords
  <2>4. q.to = NoModel /\ q.steps = 0 /\ q.events = <<>>
        /\ (settings.inference /\ settings.enforce => q.report = "allowed")
        BY <1>0, <1>2 DEF TurnSound, ControlSound, Unsent
  <2>5. ControlSound(r) /\ DestinationSound(r)
        BY <1>2, <2>3, <2>4, RoutingAssumption DEF ControlSound, DestinationSound, Unsent
  <2>6. EventsSound(r)
        BY <1>2, <2>2, <2>3, <2>4, Unheard
  <2> QED BY <1>2, <2>1, <2>2, <2>5, <2>6, <1>c, TurnMoves DEF TurnSound
\* The prompt is sent.
<1>3. ASSUME NEW m \in Models, NEW p \in {"completing", "asking"},
             turn' = [turn EXCEPT ![t] = [q EXCEPT !.pc = p, !.to = m]],
             UNCHANGED settings, CatalogInv', published \subseteq published',
             q.pc \in {"route", "attested", "known"},
             m \notin Attested => settings.cloud /\ m = q.model,
             m \notin {Default, ToolModel} => \E x \in published : m \in x[2]
      PROVE  RoutingInv'
  <2> DEFINE r == [q EXCEPT !.pc = p, !.to = m]
  <2>2. r \in TurnRecords
        BY <1>0, <1>3 DEF TurnRecords
  <2>3. r.pc = p /\ r.to = m /\ r.steps = q.steps /\ r.events = q.events /\ r.model = q.model
        /\ r.report = q.report
        BY <1>0 DEF TurnRecords
  <2>4. q.steps = 0 /\ q.events = <<>>
        /\ (settings.inference /\ settings.enforce => q.report = "allowed")
        BY <1>0, <1>3 DEF TurnSound, ControlSound, Unsent
  <2>5. ControlSound(r) /\ DestinationSound(r)
        BY <1>3, <2>3, <2>4, RoutingAssumption DEF ControlSound, DestinationSound, Unsent
  <2>6. EventsSound(r)
        BY <1>3, <2>2, <2>3, <2>4, Unheard
  <2> HIDE DEF r
  <2>7. turn' = [turn EXCEPT ![t] = r]
        BY <1>3 DEF r
  <2> QED BY <1>3, <2>2, <2>5, <2>6, <2>7, TurnMoves DEF TurnSound
<1>4. ASSUME NEW m \in Models, Post(t, m), UNCHANGED <<clock, live, published, cache, settings>>,
             q.pc \in {"route", "attested", "known"},
             m \notin Attested => settings.cloud /\ m = q.model,
             m \notin {Default, ToolModel} => \E x \in published : m \in x[2]
      PROVE  RoutingInv'
  <2>1. turn' = [turn EXCEPT ![t] = [q EXCEPT !.pc = "completing", !.to = m]]
        BY <1>4 DEF Post, q
  <2>2. CatalogInv' /\ published \subseteq published'
        BY <1>4, <1>d DEF Post
  <2> QED BY <1>3, <1>4, <2>1, <2>2
\* What a lookup answered was published.
<1>5. ASSUME Answered(t), NEW m \in call[t].out
      PROVE  \E x \in published : m \in x[2]
  <2>1. call[t].out = {} \/ Recorded(call[t].out)
        BY <1>0, <1>5 DEF RoutingInv, CatalogInv, CallSound, Answered
  <2>2. PICK s \in Times : <<s, call[t].out>> \in published
        BY <1>5, <2>1 DEF Recorded
  <2> QED BY <1>5, <2>2
<1>6. Default \in Models /\ ToolModel \in Models /\ Default \in Attested /\ ToolModel \in Attested
      BY CatalogAssumption, RoutingAssumption
<1>7. q.model \in Models \cup {NoModel} /\ q.model = turn[t].model /\ q.pc = turn[t].pc
      BY <1>0 DEF TurnRecords, q
<1>8. CASE Route(t)
  <2>0. q.pc = "route" /\ UNCHANGED <<clock, live, published, cache, settings>>
        BY <1>8 DEF Route, q
  <2>1. CASE q.tools
    <3>1. turn' = [turn EXCEPT ![t] = [q EXCEPT !.pc = "asking", !.to = ToolModel]] /\ UNCHANGED catalogVars
          BY <1>8, <2>1 DEF Route, q, catalogVars
    <3> QED BY <1>3, <1>6, <2>0, <3>1, <1>b
  <2>2. CASE ~q.tools /\ (q.model \in {NoModel, Default} \/ (q.model \notin Attested /\ ~settings.cloud))
    <3>1. Post(t, Default)
          BY <1>8, <2>2, <1>6 DEF Route, q
    <3> QED BY <1>4, <1>6, <2>0, <3>1
  <2>3. CASE ~q.tools /\ q.model \notin {NoModel, Default} /\ q.model \in Attested
    <3>1. LookUp(t, "attested")
          BY <1>8, <2>3 DEF Route, q
    <3> QED BY <1>2, <2>0, <2>3, <3>1
  <2>4. CASE ~q.tools /\ q.model \notin {NoModel, Default} /\ q.model \notin Attested /\ settings.cloud
    <3>1. LookUp(t, "known")
          BY <1>8, <2>4 DEF Route, q
    <3> QED BY <1>2, <2>0, <2>4, <3>1
  <2> QED BY <2>1, <2>2, <2>3, <2>4
<1>9. CASE IsAttested(t)
  <2>0. /\ q.pc = "attested" /\ UNCHANGED <<clock, live, published, cache, settings>>
        /\ Answered(t) /\ q.model \in Attested /\ q.model \in Models
        BY <1>0, <1>9, <1>7, CatalogAssumption DEF IsAttested, TurnSound, ControlSound
  <2>1. CASE q.model \in call[t].out
    <3>1. Post(t, q.model)
          BY <1>7, <1>9, <2>1 DEF IsAttested
    <3> QED BY <1>4, <1>5, <2>0, <2>1, <3>1
  <2>2. CASE q.model \notin call[t].out /\ settings.cloud
    <3>1. LookUp(t, "known")
          BY <1>7, <1>9, <2>2 DEF IsAttested
    <3> QED BY <1>2, <2>0, <2>2, <3>1
  <2>3. CASE q.model \notin call[t].out /\ ~settings.cloud
    <3>1. Post(t, Default)
          BY <1>7, <1>9, <2>3 DEF IsAttested
    <3> QED BY <1>4, <1>6, <2>0, <3>1
  <2> QED BY <2>1, <2>2, <2>3
<1>10. CASE IsKnown(t)
  <2>0. /\ q.pc = "known" /\ UNCHANGED <<clock, live, published, cache, settings>>
        /\ Answered(t) /\ settings.cloud
        BY <1>0, <1>10, <1>7 DEF IsKnown, TurnSound, ControlSound
  <2>1. CASE q.model \in call[t].out
    <3>1. Post(t, q.model)
          BY <1>7, <1>10, <2>1 DEF IsKnown
    <3>2. PICK x \in published : q.model \in x[2]
          BY <1>5, <2>0, <2>1
    <3>3. q.model \in Models
          BY <3>2, CatalogAssumption DEF RoutingInv, CatalogInv
    <3> QED BY <1>4, <2>0, <3>1, <3>2, <3>3
  <2>2. CASE q.model \notin call[t].out
    <3>1. Post(t, Default)
          BY <1>7, <1>10, <2>2 DEF IsKnown
    <3> QED BY <1>4, <1>6, <2>0, <3>1
  <2> QED BY <2>1, <2>2
\* The stream goes on or ends; the prompt stays where it was sent.
<1>11. ASSUME NEW p \in {"letta", "showing", "closed"}, NEW add \in Seq(Events), Emit(t, p, add),
              UNCHANGED <<catalogVars, settings>>, q.pc # "idle",
              p # "closed" => q.pc = p,
              EventsSound([q EXCEPT !.pc = p, !.events = q.events \o add])
       PROVE  RoutingInv'
  <2> DEFINE r == [q EXCEPT !.pc = p, !.events = q.events \o add]
  <2>1. turn' = [turn EXCEPT ![t] = r]
        BY <1>11 DEF Emit, q
  <2>0. q.events \o add \in Seq(Events)
        BY <1>0, <1>11 DEF TurnRecords
  <2>2. r \in TurnRecords
        BY <1>0, <2>0 DEF TurnRecords
  <2>3. r.pc = p /\ r.to = q.to /\ r.steps = q.steps /\ r.model = q.model /\ r.report = q.report
        BY <1>0 DEF TurnRecords
  <2>4. ControlSound(r) /\ DestinationSound(r)
        BY <1>0, <1>11, <2>3 DEF TurnSound, ControlSound, DestinationSound, Unsent
  <2> QED BY <1>11, <2>1, <2>2, <2>4, <1>b, TurnMoves DEF TurnSound
\* What the turn has emitted is deltas, as long as it is not closed.
<1>12. q.pc # "closed" => /\ q.events \in Seq(Events)
                          /\ \A i \in 1..Len(q.events) : q.events[i] \in Deltas
       BY <1>0 DEF TurnRecords, TurnSound, ControlSound, EventsSound, Deltas
<1>13. ASSUME NEW add, add \in {<<"failed">>, <<"receipt", "done">>}, q.pc \notin {"closed", "idle", "report"},
              Emit(t, "closed", add), UNCHANGED <<catalogVars, settings>>
       PROVE  RoutingInv'
  <2> DEFINE r == [q EXCEPT !.pc = "closed", !.events = q.events \o add]
             n == Len(q.events)
  <2>1. add \in Seq(Events)
    <3>1. <<"failed">> \in Seq(Events) /\ <<"receipt", "done">> \in Seq(Events)
          BY DEF Events
    <3> QED BY <1>13, <3>1
  <2>2. q.events \o add \in Seq(Events)
        BY <1>12, <1>13, <2>1
  <2>3. r \in TurnRecords /\ r.pc = "closed" /\ r.events = q.events \o add /\ r.report = q.report
        BY <1>0, <2>2 DEF TurnRecords
  <2>4. settings.enforce /\ settings.inference => r.report = "allowed"
        BY <1>0, <1>13, <2>3 DEF TurnSound, ControlSound
  <2>5. n \in Nat /\ \A i \in 1..n : r.events[i] \in Deltas
        BY <1>12, <1>13, <2>1, <2>3
  <2>6. EventsSound(r)
    <3>1. CASE add = <<"failed">>
      <4>1. Len(r.events) = n + 1 /\ r.events[n + 1] = "failed"
            BY <1>12, <1>13, <2>1, <2>3, <3>1
      <4> HIDE DEF r, n
      <4> QED BY <2>3, <2>4, <2>5, <4>1, ReplyFailed
    <3>2. CASE add = <<"receipt", "done">>
      <4>1. Len(r.events) = n + 2 /\ r.events[n + 1] = "receipt" /\ r.events[n + 2] = "done"
            BY <1>12, <1>13, <2>1, <2>3, <3>2
      <4> HIDE DEF r, n
      <4> QED BY <2>3, <2>4, <2>5, <4>1, ReplyDone
    <3> QED BY <1>13, <3>1, <3>2
  <2> QED BY <1>11, <1>13, <2>1, <2>6
<1>14. ASSUME NEW n \in Nat, NEW add \in Seq(Events), NEW full \in Seq(Events), full = q.events \o add,
              Len(full) = n + 2, \A i \in 1..n : full[i] \in Deltas,
              full[n + 1] = "receipt", full[n + 2] = "done",
              q.pc \in {"completing", "showing"}, Emit(t, "closed", add),
              UNCHANGED <<catalogVars, settings>>
       PROVE  RoutingInv'
  <2> DEFINE r == [q EXCEPT !.pc = "closed", !.events = q.events \o add]
  <2>1. r \in TurnRecords /\ r.pc = "closed" /\ r.events = full /\ r.report = q.report
        BY <1>0, <1>14 DEF TurnRecords
  <2>2. settings.enforce /\ settings.inference => r.report = "allowed"
        BY <1>0, <1>14, <2>1 DEF TurnSound, ControlSound
  <2>3. EventsSound(r)
    <3> HIDE DEF r
    <3> QED BY <1>14, <2>1, <2>2, ReplyDone
  <2> QED BY <1>11, <1>14, <2>3
\* The end of a reply whose deltas so far were of the tool loop, or none.
<1>15. ASSUME q.pc \in {"completing", "showing"}, Emit(t, "closed", <<"token", "receipt", "done">>),
              UNCHANGED <<catalogVars, settings>>
       PROVE  RoutingInv'
  <2> DEFINE ev == q.events
             n == Len(ev)
             b == <<"token", "receipt", "done">>
  <2>1. ev \in Seq(Events) /\ n \in Nat /\ Len(ev) = n /\ \A i \in 1..n : ev[i] \in Deltas
        BY <1>12, <1>15
  <2>2. b \in Seq(Events) /\ Len(b) = 3
        BY DEF Events
  <2>3. ev \o b \in Seq(Events) /\ Len(ev \o b) = (n + 1) + 2
        BY <2>1, <2>2
  <2>4. (\A i \in 1..n : (ev \o b)[i] = ev[i]) /\ \A k \in 1..3 : (ev \o b)[n + k] = b[k]
    <3> HIDE DEF b, ev
    <3> QED BY <2>1, <2>2, Appended
  <2>5. b[1] = "token" /\ b[2] = "receipt" /\ b[3] = "done"
        OBVIOUS
  <2>6. /\ (ev \o b)[n + 1] = "token" /\ (ev \o b)[(n + 1) + 1] = "receipt"
        /\ (ev \o b)[(n + 1) + 2] = "done"
    <3>1. (n + 1) + 1 = n + 2 /\ (n + 1) + 2 = n + 3
          BY <2>1
    <3>2. 1 \in 1..3 /\ 2 \in 1..3 /\ 3 \in 1..3
          OBVIOUS
    <3> HIDE DEF b, ev, n
    <3> QED BY <2>4, <2>5, <3>1, <3>2
  <2>7. \A i \in 1..(n + 1) : (ev \o b)[i] \in Deltas
    <3>1. \A i \in 1..(n + 1) : i \in 1..n \/ i = n + 1
          BY <2>1
    <3>2. "token" \in Deltas
          BY DEF Deltas
    <3> HIDE DEF b, ev, n
    <3> QED BY <2>1, <2>4, <2>6, <3>1, <3>2
  <2>8. n + 1 \in Nat
        BY <2>1
  <2>9. Emit(t, "closed", b) /\ ev = q.events
        BY <1>15
  <2> HIDE DEF b, ev, n
  <2> QED BY <1>14, <1>15, <2>2, <2>3, <2>6, <2>7, <2>8, <2>9
<1>16. CASE ToolAnswer(t)
  <2> DEFINE r == [q EXCEPT !.pc = "showing"]
  <2>1. q.pc = "asking" /\ UNCHANGED <<catalogVars, settings>> /\ turn' = [turn EXCEPT ![t] = r]
        BY <1>16 DEF ToolAnswer, q
  <2>2. r \in TurnRecords /\ r.pc = "showing" /\ r.to = q.to /\ r.steps = q.steps
        /\ r.model = q.model /\ r.report = q.report /\ r.events = q.events
        BY <1>0 DEF TurnRecords
  <2>3. ControlSound(r) /\ DestinationSound(r) /\ q.events = <<>>
        BY <1>0, <2>1, <2>2 DEF TurnSound, ControlSound, DestinationSound, Unsent
  <2>4. EventsSound(r)
        BY <2>2, <2>3, Unheard
  <2> QED BY <2>1, <2>2, <2>3, <2>4, <1>b, TurnMoves DEF TurnSound
<1>23. CASE Completed(t)
       BY <1>15, <1>23 DEF Completed, q
<1>24. CASE ToolReply(t)
       BY <1>15, <1>24 DEF ToolReply, q
<1>25. CASE ToolShown(t)
  <2> DEFINE r == [q EXCEPT !.pc = "showing", !.events = q.events \o <<"tool">>]
  <2>1. q.pc = "showing" /\ Emit(t, "showing", <<"tool">>) /\ UNCHANGED <<catalogVars, settings>>
        BY <1>25 DEF ToolShown, q
  <2>2. <<"tool">> \in Seq(Events) /\ q.events \o <<"tool">> \in Seq(Events)
        BY <1>12, <2>1 DEF Events
  <2>3. r.pc = "showing" /\ r.events = q.events \o <<"tool">> /\ r.report = q.report
        BY <1>0 DEF TurnRecords
  <2>4. \A i \in DOMAIN q.events : q.events[i] = "tool"
        BY <1>0, <2>1 DEF TurnSound, EventsSound
  <2>5. \A i \in DOMAIN r.events : r.events[i] = "tool"
        BY <1>12, <2>1, <2>3, <2>4
  <2>6. settings.enforce /\ settings.inference => r.report = "allowed"
        BY <1>0, <2>1, <2>3 DEF TurnSound, ControlSound
  <2>7. EventsSound(r)
        BY <2>3, <2>5, <2>6 DEF EventsSound, Ends
  <2> QED BY <1>11, <2>1, <2>2, <2>7
<1>17. CASE Fails(t)
  <2>1. q.pc \in {"completing", "asking", "showing", "failing", "letta", "attested", "known"}
        BY <1>17 DEF Fails, Failing, q
  <2> QED BY <1>13, <1>17, <2>1 DEF Fails
<1>18. CASE LettaEnds(t)
       BY <1>13, <1>18 DEF LettaEnds, q
<1>19. CASE LettaDelta(t)
  <2> DEFINE r == [q EXCEPT !.pc = "letta", !.events = q.events \o <<"token">>]
  <2>1. q.pc = "letta" /\ Emit(t, "letta", <<"token">>) /\ UNCHANGED <<catalogVars, settings>>
        BY <1>19 DEF LettaDelta, q
  <2>2. <<"token">> \in Seq(Events) /\ q.events \o <<"token">> \in Seq(Events)
        BY <1>12, <2>1 DEF Events
  <2>3. r.pc = "letta" /\ r.events = q.events \o <<"token">> /\ r.report = q.report
        BY <1>0 DEF TurnRecords
  <2>4. \A i \in DOMAIN q.events : q.events[i] = "token"
        BY <1>0, <2>1 DEF TurnSound, EventsSound
  <2>5. \A i \in DOMAIN r.events : r.events[i] = "token"
        BY <1>12, <2>1, <2>3, <2>4
  <2>6. ~settings.inference
        BY <1>0, <2>1 DEF TurnSound, ControlSound
  <2>7. EventsSound(r)
        BY <2>3, <2>5, <2>6 DEF EventsSound, Ends
  <2> QED BY <1>11, <2>1, <2>2, <2>7
<1>20. CASE ToolCalls(t)
  <2> DEFINE r == [q EXCEPT !.pc = "executing"]
  <2>1. q.pc = "asking" /\ UNCHANGED <<catalogVars, settings>> /\ turn' = [turn EXCEPT ![t] = r]
        BY <1>20 DEF ToolCalls, q
  <2>2. r \in TurnRecords /\ r.pc = "executing" /\ r.to = q.to /\ r.steps = q.steps
        /\ r.model = q.model /\ r.report = q.report /\ r.events = q.events
        BY <1>0 DEF TurnRecords
  <2>3. ControlSound(r) /\ DestinationSound(r) /\ q.events = <<>>
        BY <1>0, <2>1, <2>2 DEF TurnSound, ControlSound, DestinationSound, Unsent
  <2>4. EventsSound(r)
        BY <2>2, <2>3, Unheard
  <2> QED BY <2>1, <2>2, <2>3, <2>4, <1>b, TurnMoves DEF TurnSound
<1>21. CASE ToolsExecuted(t)
  <2> DEFINE p == IF q.steps + 1 < MaxSteps THEN "asking" ELSE "failing"
             r == [q EXCEPT !.steps = q.steps + 1, !.pc = p]
  <2>1. q.pc = "executing" /\ UNCHANGED <<catalogVars, settings>> /\ turn' = [turn EXCEPT ![t] = r]
        BY <1>21 DEF ToolsExecuted, q
  <2>2. q.steps + 1 \in 0..MaxSteps
        BY <1>0, <2>1, RoutingAssumption DEF TurnSound, ControlSound, TurnRecords
  <2>3. r \in TurnRecords /\ r.pc = p /\ r.to = q.to /\ r.steps = q.steps + 1
        /\ r.model = q.model /\ r.report = q.report /\ r.events = q.events
        BY <1>0, <2>2 DEF TurnRecords
  <2>4. ControlSound(r) /\ DestinationSound(r) /\ q.events = <<>>
        BY <1>0, <2>1, <2>3 DEF TurnSound, ControlSound, DestinationSound, Unsent
  <2>5. EventsSound(r)
    <3>1. p # "closed"
          OBVIOUS
    <3> QED BY <2>3, <2>4, <3>1, Unheard
  <2> QED BY <2>1, <2>3, <2>4, <2>5, <1>b, TurnMoves DEF TurnSound
<1>22. CASE CatalogStep(t) /\ UNCHANGED <<settings, turn>>
  <2>1. UNCHANGED published
        BY <1>22 DEF CatalogStep, Served, Fetched, FetchFailed, FetchRaises
  <2> QED BY <1>0, <1>22, <2>1, CatalogSteps, TurnsStay DEF RoutingInv
<1> QED BY <1>1, <1>8, <1>9, <1>10, <1>15, <1>16, <1>17, <1>18, <1>19, <1>20, <1>21, <1>22,
          <1>23, <1>24, <1>25
        DEF InferenceStep, LettaStep

LEMMA RoutingStep == RoutingInv /\ [Next]_vars => RoutingInv'
<1> SUFFICES ASSUME RoutingInv, [Next]_vars PROVE RoutingInv'
    OBVIOUS
<1>1. CASE Provider /\ UNCHANGED <<settings, turn>>
      BY <1>1, ProviderSteps, TurnsStay DEF RoutingInv
<1>2. ASSUME NEW c \in Callers \ Turns, (Pick(c) \/ CatalogStep(c)) /\ UNCHANGED <<settings, turn>>
      PROVE  RoutingInv'
  <2>1. UNCHANGED published
        BY <1>2 DEF Pick, CatalogStep, Served, Fetched, FetchFailed, FetchRaises
  <2>2. CatalogInv'
        BY <1>2, CatalogSteps, FetchAllStarts DEF Pick, RoutingInv
  <2> QED BY <1>2, <2>1, <2>2, TurnsStay
<1>3. ASSUME NEW t \in Turns, NEW m \in Models \cup {NoModel}, NEW tools \in BOOLEAN, Chat(t, m, tools)
      PROVE  RoutingInv'
  <2> DEFINE q == turn[t]
             p == IF ~settings.inference THEN "letta" ELSE IF settings.receipt THEN "report" ELSE "route"
             b == tools /\ settings.mcp /\ settings.inference
             r == [q EXCEPT !.model = m, !.tools = b, !.pc = p]
  <2>0. q \in TurnRecords /\ TurnSound(q)
        BY DEF RoutingInv
  <2>1. q.pc = "idle" /\ UNCHANGED <<catalogVars, settings>> /\ turn' = [turn EXCEPT ![t] = r]
        BY <1>3 DEF Chat
  <2>2. b \in BOOLEAN /\ p \in {"letta", "report", "route"}
        BY RoutingAssumption DEF RoutingInv
  <2>3. r \in TurnRecords /\ r.pc = p /\ r.to = q.to /\ r.steps = q.steps /\ r.report = q.report /\ r.events = q.events
    <3> HIDE DEF b, p, q
    <3> QED BY <2>0, <2>2 DEF TurnRecords
  <2>4. q.to = NoModel /\ q.steps = 0 /\ q.events = <<>> /\ q.report = "none"
        BY <2>0, <2>1 DEF TurnSound, ControlSound, Unsent
  <2>5. ControlSound(r)
    <3>1. settings.inference /\ settings.enforce => settings.receipt
          BY RoutingAssumption DEF RoutingInv
    <3> HIDE DEF r
    <3> QED BY <2>3, <2>4, <3>1 DEF ControlSound, Unsent
  <2>6. DestinationSound(r)
        BY <2>3, <2>4 DEF DestinationSound
  <2>7. EventsSound(r)
        BY <2>2, <2>3, <2>4, Unheard
  <2>8. CatalogInv' /\ published \subseteq published'
    <3>1. \A c \in Callers : CallSound(call[c])'
          BY <2>1 DEF RoutingInv, CatalogInv, catalogVars, CallSound, RecordedSince, Recorded
    <3> QED BY <2>1, <3>1 DEF RoutingInv, CatalogInv, catalogVars, CacheSound, RecordedSince
  <2> HIDE DEF r
  <2> QED BY <2>1, <2>3, <2>5, <2>6, <2>7, <2>8, TurnMoves DEF TurnSound
<1>4. CASE UNCHANGED vars
  <2>1. \A c \in Callers : CallSound(call[c])'
        BY <1>4 DEF vars, RoutingInv, CatalogInv, catalogVars, CallSound, RecordedSince, Recorded
  <2>2. CatalogInv'
        BY <1>4, <2>1 DEF vars, RoutingInv, CatalogInv, catalogVars, CacheSound, RecordedSince
  <2> QED BY <1>4, <2>2, TurnsStay DEF vars, catalogVars
<1> QED BY <1>1, <1>2, <1>3, <1>4, TurnSteps DEF Next

LEMMA RoutingImplies == RoutingInv => StreamInOrder /\ RoutedAsAllowed /\ CacheFresh
<1> SUFFICES ASSUME RoutingInv PROVE StreamInOrder /\ RoutedAsAllowed /\ CacheFresh
    OBVIOUS
<1>1. TypeOK
      BY CatalogImplies DEF RoutingInv, TypeOK, TurnRecords, Events
<1>2. \A t \in Turns : ControlSound(turn[t]) /\ DestinationSound(turn[t]) /\ EventsSound(turn[t])
      BY DEF RoutingInv, TurnSound
<1>3. RejectedIsSilent
      BY <1>2 DEF RejectedIsSilent, DestinationSound, EventsSound
<1>4. OneTerminalEvent
      BY <1>2 DEF OneTerminalEvent, EventsSound, Ends
<1>5. RoutedAsAllowed
      BY <1>2 DEF RoutedAsAllowed, CloudOnlyIfAsked, RoutedWasPublished, DestinationSound
<1> QED BY <1>1, <1>3, <1>4, <1>5, CatalogImplies DEF StreamInOrder, RoutingInv

LEMMA RoutingInvariant == Spec => []RoutingInv
  BY RoutingInitial, RoutingStep, PTL DEF Spec

(***************************************************************************)
(* The stream of a turn (routes/chat.py, gen) is deltas, one receipt and   *)
(* `done`, or is cut short by one error; in ENFORCE mode a turn without an *)
(* allowed report emits no part of a reply and is sent to no model,        *)
(* whatever the reports, the tool loop and the lookups answer.             *)
(***************************************************************************)
THEOREM StreamsAreInOrder == Spec => []StreamInOrder
  BY RoutingInvariant, RoutingImplies, PTL

(***************************************************************************)
(* A prompt goes to a model outside the TEEs only if the client named it   *)
(* and the deployment opted in, and to a model other than the configured   *)
(* ones only if the provider published it (deps.py, get_inference), for    *)
(* any number of turns and pickers sharing the catalog.                    *)
(***************************************************************************)
THEOREM PromptsAreRoutedAsAllowed == Spec => []RoutedAsAllowed
  BY RoutingInvariant, RoutingImplies, PTL

(***************************************************************************)
(* models_catalog.py: an entry that is served without asking the provider  *)
(* was published less than a TTL ago, for every TTL, however many lookups  *)
(* overlap and in whatever order their answers arrive.                     *)
(***************************************************************************)
THEOREM CatalogIsFresh == Spec => []CacheFresh
  BY RoutingInvariant, RoutingImplies, PTL

-----------------------------------------------------------------------------
(* The account registry *)

(***************************************************************************)
(* The cache of a running process holds every record of the store, so that *)
(* the flush of the whole cache repeats them.                              *)
(***************************************************************************)
Covers == up => \A a \in Accounts : Load(disk)[a] # None => registryCache[a] = Load(disk)[a]

(***************************************************************************)
(* A registration in progress belongs to a running process whose cache has *)
(* the account already; what is about to be renamed is that cache.         *)
(***************************************************************************)
Flushing ==
    req # Idle =>
        /\ up
        /\ req.acct \in Accounts /\ registryCache[req.acct] # None
        /\ req.pc = "renaming" => tmp = registryCache

RegistryInv == RegistryTypeOK /\ NeverTorn /\ CreatedIsDurable /\ Covers /\ Flushing

LEMMA LoadType == ASSUME NEW f \in Records \cup {Torn, NoFile}, f # Torn PROVE Load(f) \in Records
  BY DEF Load, Records, Empty

LEMMA CacheIsFile == ASSUME NEW f \in Records PROVE f # Torn /\ f # NoFile /\ Load(f) = f
  BY FileAssumption DEF Records, Load

LEMMA RegistryInitial == RegistryInit => RegistryInv
<1> SUFFICES ASSUME RegistryInit PROVE RegistryInv
    OBVIOUS
<1>1. NoFile # Torn /\ disk = NoFile /\ registryCache = Empty /\ Load(disk) = Empty
      BY FileAssumption DEF RegistryInit, Load
<1>2. RegistryTypeOK
      BY <1>1, CrashesAssumption DEF RegistryInit, RegistryTypeOK, Records, Empty, Idle
<1>3. NeverTorn /\ CreatedIsDurable /\ Covers /\ Flushing
      BY <1>1 DEF RegistryInit, NeverTorn, CreatedIsDurable, Covers, Flushing
<1> QED BY <1>2, <1>3 DEF RegistryInv

\* What a rename does to the store: it becomes the cache, records and all.
LEMMA ReplaceInstalls ==
    ASSUME RegistryInv, Replace
    PROVE  /\ disk' = registryCache /\ disk' \in Records /\ disk' # Torn /\ Load(disk') = registryCache
           /\ \A a \in Accounts : Load(disk)[a] # None => Load(disk')[a] = Load(disk)[a]
<1>1. req # Idle
      BY DEF Replace, Idle
<1>2. tmp = registryCache /\ up
      BY <1>1 DEF RegistryInv, Flushing, Replace
<1>3. disk' = registryCache /\ registryCache \in Records
      BY <1>2 DEF Replace, RegistryInv, RegistryTypeOK
<1>4. disk' # Torn /\ Load(disk') = registryCache
      BY <1>3, CacheIsFile
<1> QED BY <1>2, <1>3, <1>4 DEF RegistryInv, Covers

LEMMA RegistryStep == RegistryInv /\ [RegistryNext]_registryVars => RegistryInv'
<1> SUFFICES ASSUME RegistryInv, [RegistryNext]_registryVars PROVE RegistryInv'
    OBVIOUS
<1>1. ASSUME NEW a \in Accounts, Reregister(a) PROVE RegistryInv'
  <2>1. RegistryTypeOK'
        BY <1>1 DEF RegistryInv, RegistryTypeOK, Reregister
  <2> QED BY <1>1, <2>1 DEF RegistryInv, Reregister, NeverTorn, CreatedIsDurable, Covers, Flushing
<1>2. ASSUME NEW a \in Accounts, NEW k \in Kems, Register(a, k) PROVE RegistryInv'
  <2>1. RegistryTypeOK'
        BY <1>2 DEF RegistryInv, RegistryTypeOK, Register, Records
  <2>2. \A b \in Accounts : Load(disk)[b] # None => registryCache'[b] = registryCache[b]
        BY <1>2, NoneAssumption DEF RegistryInv, Covers, Register, RegistryTypeOK, Records
  <2>3. Covers'
        BY <1>2, <2>2 DEF RegistryInv, Covers, Register
  <2>4. registryCache'[a] = k /\ k # None
        BY <1>2, NoneAssumption DEF RegistryInv, Register, RegistryTypeOK, Records
  <2>5. Flushing'
        BY <1>2, <2>4 DEF Register, Flushing
  <2> QED BY <1>2, <2>1, <2>3, <2>5 DEF RegistryInv, Register, NeverTorn, CreatedIsDurable
<1>3. CASE TruncateTmp
  <2>1. req # Idle /\ req'.acct = req.acct /\ req'.pc = "writing"
        BY <1>3 DEF RegistryInv, RegistryTypeOK, TruncateTmp, Idle
  <2>2. RegistryTypeOK'
        BY <1>3 DEF RegistryInv, RegistryTypeOK, TruncateTmp
  <2>3. Flushing'
        BY <1>3, <2>1 DEF RegistryInv, Flushing, TruncateTmp
  <2> QED BY <1>3, <2>2, <2>3 DEF RegistryInv, TruncateTmp, NeverTorn, CreatedIsDurable, Covers
<1>4. CASE WriteTmp
  <2>1. req # Idle /\ req'.acct = req.acct /\ tmp' = registryCache'
        BY <1>4 DEF RegistryInv, RegistryTypeOK, WriteTmp, Idle
  <2>2. RegistryTypeOK'
        BY <1>4 DEF RegistryInv, RegistryTypeOK, WriteTmp
  <2>3. Flushing'
        BY <1>4, <2>1 DEF RegistryInv, Flushing, WriteTmp
  <2> QED BY <1>4, <2>2, <2>3 DEF RegistryInv, WriteTmp, NeverTorn, CreatedIsDurable, Covers
<1>5. CASE Replace
  <2>1. req # Idle /\ req.acct \in Accounts /\ registryCache[req.acct] # None
        BY <1>5 DEF RegistryInv, Flushing, Replace, Idle
  <2>2. disk' = registryCache /\ disk' \in Records /\ disk' # Torn /\ Load(disk') = registryCache
        BY <1>5, ReplaceInstalls
  <2>3. RegistryTypeOK'
        BY <1>5, <2>1, <2>2 DEF RegistryInv, RegistryTypeOK, Replace, Idle
  <2>4. NeverTorn' /\ Flushing'
        BY <1>5, <2>2 DEF NeverTorn, Flushing, Replace
  <2>5. Covers'
        BY <1>5, <2>2 DEF Covers, Replace
  <2>6. \A a \in Accounts : Load(disk)[a] # None => Load(disk')[a] # None
        BY <1>5, ReplaceInstalls
  <2>7. CreatedIsDurable'
        BY <1>5, <2>1, <2>2, <2>6 DEF RegistryInv, RegistryTypeOK, CreatedIsDurable, Replace
  <2> QED BY <2>3, <2>4, <2>5, <2>7 DEF RegistryInv
<1>6. CASE FlushFails
  <2>1. RegistryTypeOK'
        BY <1>6 DEF RegistryInv, RegistryTypeOK, FlushFails, Idle
  <2> QED BY <1>6, <2>1 DEF RegistryInv, FlushFails, NeverTorn, CreatedIsDurable, Covers, Flushing
<1>7. CASE Crash
  <2>1. registryCache' \in Records /\ req' = Idle /\ up' = FALSE
        BY <1>7 DEF Crash, Empty, Records
  <2>2. crashes' \in 0..MaxCrashes
        BY <1>7, CrashesAssumption DEF RegistryInv, RegistryTypeOK, Crash
  <2>3. disk' = disk /\ tmp' = tmp /\ created' = created /\ confirmed' = confirmed
        BY <1>7 DEF Crash
  <2>4. RegistryTypeOK'
        BY <2>1, <2>2, <2>3 DEF RegistryInv, RegistryTypeOK, Idle
  <2>5. Covers' /\ Flushing'
        BY <2>1 DEF Covers, Flushing
  <2> QED BY <2>3, <2>4, <2>5 DEF RegistryInv, NeverTorn, CreatedIsDurable
<1>8. CASE Restart
  <2>1. Load(disk) \in Records
        BY <1>8, LoadType DEF RegistryInv, RegistryTypeOK, Restart
  <2>2. RegistryTypeOK'
        BY <1>8, <2>1 DEF RegistryInv, RegistryTypeOK, Restart
  <2>3. Covers'
        BY <1>8 DEF Covers, Restart
  <2>4. Flushing'
        BY <1>8 DEF RegistryInv, Flushing, Restart
  <2> QED BY <1>8, <2>2, <2>3, <2>4 DEF RegistryInv, Restart, NeverTorn, CreatedIsDurable
<1>9. CASE UNCHANGED registryVars
      BY <1>9 DEF registryVars, RegistryInv, RegistryTypeOK, NeverTorn, CreatedIsDurable, Covers, Flushing
<1> QED BY <1>1, <1>2, <1>3, <1>4, <1>5, <1>6, <1>7, <1>8, <1>9 DEF RegistryNext

(***************************************************************************)
(* Type correctness of the registry.                                       *)
(***************************************************************************)
THEOREM RegistryTypeCorrect == RegistrySpec => []RegistryTypeOK
<1>1. RegistryInv => RegistryTypeOK
      BY DEF RegistryInv
<1> QED BY RegistryInitial, RegistryStep, <1>1, PTL DEF RegistrySpec

(***************************************************************************)
(* The store is never torn, wherever a flush fails or the process dies.    *)
(***************************************************************************)
THEOREM StoreLoadable == RegistrySpec => []NeverTorn
<1>1. RegistryInv => NeverTorn
      BY DEF RegistryInv
<1> QED BY RegistryInitial, RegistryStep, <1>1, PTL DEF RegistrySpec

(***************************************************************************)
(* An account that was answered 201 is in the store for good.              *)
(***************************************************************************)
THEOREM CreatedDurable == RegistrySpec => []CreatedIsDurable
<1>1. RegistryInv => CreatedIsDurable
      BY DEF RegistryInv
<1> QED BY RegistryInitial, RegistryStep, <1>1, PTL DEF RegistrySpec

(***************************************************************************)
(* No step of the registry, a crash or a restart included, changes or loses*)
(* a record of the store.                                                  *)
(***************************************************************************)
THEOREM RecordsPersistent == RegistrySpec => RecordsPersist
<1> DEFINE Kept == \A a \in Accounts : Load(disk)[a] # None => Load(disk')[a] = Load(disk)[a]
<1>1. RegistryInv /\ [RegistryNext]_registryVars => [Kept]_registryVars
  <2> SUFFICES ASSUME RegistryInv, [RegistryNext]_registryVars PROVE Kept
      OBVIOUS
  <2>1. CASE Replace
        BY <2>1, ReplaceInstalls
  <2>2. CASE disk' = disk
        BY <2>2
  <2>3. Replace \/ disk' = disk
        BY DEF RegistryNext, Reregister, Register, TruncateTmp, WriteTmp, FlushFails, Crash, Restart, registryVars
  <2> QED BY <2>1, <2>2, <2>3
<1> QED BY RegistryInitial, RegistryStep, <1>1, PTL DEF RegistrySpec, RecordsPersist
=============================================================================
