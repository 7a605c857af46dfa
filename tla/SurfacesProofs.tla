---------------------------- MODULE SurfacesProofs ----------------------------
(***************************************************************************)
(* Proofs about the surfaces of MCSurfaces for every value of the          *)
(* constants.                                                              *)
(***************************************************************************)
EXTENDS MCSurfaces, FiniteSetTheorems, WellFoundedInduction, TLAPS

(***************************************************************************)
(* The model picker.                                                       *)
(***************************************************************************)
Entries == [at : 0..MaxTime, ids : 0..MaxLists]

PickerCalls ==
    [pc : {"idle", "asking", "transit", "done"}, at : 0..MaxTime, got : (0..MaxLists) \cup {None},
     failed : BOOLEAN, ids : (0..MaxLists) \cup {None, Fallback}]

PickerType ==
    /\ now \in 0..MaxTime /\ plist \in 0..MaxLists
    /\ published \in [0..MaxTime -> SUBSET (0..MaxLists)]
    /\ modelsCache \in Entries \cup {None}
    /\ call \in [Opens -> PickerCalls]

\* The list i was current at some moment from `at` until now.
CurrentSince(at, i) == \E t \in 0..MaxTime : at <= t /\ t <= now /\ i \in published[t]

(***************************************************************************)
(* The list of now is recorded as published; a list that is cached, or on  *)
(* its way, was current at or after the time it is stamped with.           *)
(***************************************************************************)
PickerHistory ==
    /\ plist \in published[now]
    /\ modelsCache # None => CurrentSince(modelsCache.at, modelsCache.ids)
    /\ \A c \in Opens : call[c].pc = "transit" =>
           call[c].got \in 0..MaxLists /\ CurrentSince(call[c].at, call[c].got)
    /\ \A c \in Opens : call[c].pc = "asking" => call[c].at <= now

(***************************************************************************)
(* PickerFresh with its witness no later than now, so that the clock does  *)
(* not touch it.                                                           *)
(***************************************************************************)
PickerAnswers ==
    \A c \in Opens : call[c].pc = "done" =>
        /\ call[c].ids # 1
        /\ call[c].ids \in 0..MaxLists /\ ~call[c].failed =>
               \E t \in 0..MaxTime : t <= now /\ t + TTL >= call[c].at /\ call[c].ids \in published[t]

PickerInv == PickerType /\ PickerHistory /\ PickerAnswers

LEMMA PickerInit == Picker!Init => PickerInv
  BY PickerAssumption DEF Picker!Init, Picker!Times, Picker!NotCalled, PickerInv, PickerType,
     PickerHistory, PickerAnswers, CurrentSince, Entries, PickerCalls

\* What an answered call offers.
LEMMA OfferType ==
    ASSUME NEW k \in Entries \cup {None}
    PROVE  /\ Picker!Offer(k) \in (0..MaxLists) \cup {Fallback}
           /\ Picker!Offer(k) # 1
           /\ Picker!Offer(k) \in 0..MaxLists => k # None /\ k \in Entries /\ Picker!Offer(k) = k.ids
  BY PickerAssumption DEF Picker!Offer, Picker!EmptyList, Entries

LEMMA PickerStep == PickerInv /\ [Picker!Next]_pvars => PickerInv'
<1> SUFFICES ASSUME PickerInv, [Picker!Next]_pvars PROVE PickerInv'
    OBVIOUS
<1> USE PickerAssumption
<1>1. ASSUME NEW c \in Opens, Picker!Open(c) PROVE PickerInv'
  <2> DEFINE asks == [call[c] EXCEPT !.pc = "asking", !.at = now]
             answered == [call[c] EXCEPT !.pc = "done", !.at = now, !.ids = Picker!Offer(modelsCache)]
  <2>a. call[c] \in PickerCalls /\ now \in 0..MaxTime
        /\ Picker!Offer(modelsCache) \in (0..MaxLists) \cup {Fallback}
        BY OfferType DEF PickerInv, PickerType
  <2>b. asks \in PickerCalls /\ answered \in PickerCalls
        BY <2>a DEF PickerCalls
  <2>c. call' \in {[call EXCEPT ![c] = asks], [call EXCEPT ![c] = answered]}
        BY <1>1 DEF Picker!Open
  <2>d. call' \in [Opens -> PickerCalls]
        BY <2>b, <2>c DEF PickerInv, PickerType
  <2>1. PickerType'
        BY <1>1, <2>d DEF PickerInv, PickerType, Picker!Open
  <2>2. PickerHistory'
        BY <1>1 DEF PickerInv, PickerType, PickerHistory, CurrentSince, Picker!Open
  <2>3. PickerAnswers'
    <3>1. CASE Picker!Stale(modelsCache)
          BY <1>1, <3>1 DEF PickerInv, PickerType, PickerAnswers, Picker!Open
    <3>2. CASE ~Picker!Stale(modelsCache)
      <4>1. modelsCache # None /\ now - modelsCache.at <= TTL /\ modelsCache \in Entries
            BY <3>2 DEF Picker!Stale, PickerInv, PickerType, Entries
      <4>2. PICK t \in 0..MaxTime : modelsCache.at <= t /\ t <= now /\ modelsCache.ids \in published[t]
            BY <4>1 DEF PickerInv, PickerHistory, CurrentSince
      <4>3. t + TTL >= now
            BY <4>1, <4>2 DEF PickerInv, PickerType, Entries
      <4>4. call'[c].ids = Picker!Offer(modelsCache) /\ call'[c].at = now
            BY <1>1, <3>2 DEF PickerInv, PickerType, Picker!Open
      <4>5. \A b \in Opens \ {c} : call'[b] = call[b]
            BY <1>1 DEF PickerInv, PickerType, Picker!Open
      <4>6. Picker!Offer(modelsCache) # 1
            /\ (Picker!Offer(modelsCache) \in 0..MaxLists => Picker!Offer(modelsCache) = modelsCache.ids)
            BY OfferType DEF PickerInv, PickerType
      <4>7. now' = now /\ published' = published
            BY <1>1 DEF Picker!Open
      <4> QED BY <4>2, <4>3, <4>4, <4>5, <4>6, <4>7 DEF PickerInv, PickerAnswers
    <3> QED BY <3>1, <3>2
  <2> QED BY <2>1, <2>2, <2>3 DEF PickerInv
<1>2. ASSUME NEW c \in Opens, Picker!Answer(c) PROVE PickerInv'
  <2>a. call[c] \in PickerCalls /\ plist \in 0..MaxLists
        BY DEF PickerInv, PickerType
  <2>b. [call[c] EXCEPT !.pc = "transit", !.got = plist] \in PickerCalls
        BY <2>a DEF PickerCalls
  <2>c. call' = [call EXCEPT ![c] = [call[c] EXCEPT !.pc = "transit", !.got = plist]]
        BY <1>2 DEF Picker!Answer
  <2>d. call' \in [Opens -> PickerCalls]
        BY <2>b, <2>c DEF PickerInv, PickerType
  <2>1. PickerType'
        BY <1>2, <2>d DEF PickerInv, PickerType, Picker!Answer
  <2>2. CurrentSince(call[c].at, plist)
        BY <1>2 DEF PickerInv, PickerType, PickerHistory, CurrentSince, Picker!Answer
  <2>3. PickerHistory' /\ PickerAnswers'
        BY <1>2, <2>2 DEF PickerInv, PickerType, PickerHistory, PickerAnswers, CurrentSince,
           Picker!Answer
  <2> QED BY <2>1, <2>3 DEF PickerInv
<1>3. ASSUME NEW c \in Opens, Picker!Arrive(c) PROVE PickerInv'
  <2>1. modelsCache' \in Entries /\ modelsCache' # None
        /\ modelsCache'.at = call[c].at /\ modelsCache'.ids = call[c].got
        BY <1>3 DEF PickerInv, PickerType, PickerHistory, Picker!Arrive, Entries, PickerCalls
  <2>2. /\ Picker!Offer(modelsCache') \in (0..MaxLists) \cup {Fallback}
        /\ Picker!Offer(modelsCache') # 1
        /\ Picker!Offer(modelsCache') \in 0..MaxLists => Picker!Offer(modelsCache') = call[c].got
        BY <2>1, OfferType
  <2>3. call' = [call EXCEPT ![c].pc = "done", ![c].ids = Picker!Offer(modelsCache')]
        /\ UNCHANGED <<now, plist, published>>
        BY <1>3 DEF Picker!Arrive
  <2>4. CurrentSince(call[c].at, call[c].got)
        BY <1>3 DEF PickerInv, PickerHistory, Picker!Arrive
  <2>a. call[c] \in PickerCalls
        BY DEF PickerInv, PickerType
  <2>b. [call[c] EXCEPT !.pc = "done", !.ids = Picker!Offer(modelsCache')] \in PickerCalls
        BY <2>2, <2>a DEF PickerCalls
  <2>d. call' \in [Opens -> PickerCalls]
        BY <2>3, <2>b DEF PickerInv, PickerType
  <2>5. PickerType'
        BY <2>1, <2>3, <2>d DEF PickerInv, PickerType
  <2>7. call'[c].pc = "done" /\ \A b \in Opens \ {c} : call'[b] = call[b]
        BY <2>3 DEF PickerInv, PickerType
  <2>6. PickerHistory'
    <3>1. \A at, i : CurrentSince(at, i) => CurrentSince(at, i)'
          BY <2>3 DEF CurrentSince
    <3>2. CurrentSince(modelsCache.at, modelsCache.ids)'
          BY <2>1, <2>4, <3>1
    <3>3. ASSUME NEW b \in Opens \ {c}
          PROVE  /\ call'[b].pc = "transit" => call'[b].got \in 0..MaxLists /\ CurrentSince(call[b].at, call[b].got)'
                 /\ call'[b].pc = "asking" => call'[b].at <= now'
          BY <2>3, <2>7, <3>1 DEF PickerInv, PickerHistory
    <3>4. plist' \in published'[now']
          BY <2>3 DEF PickerInv, PickerHistory
    <3> QED BY <2>7, <3>2, <3>3, <3>4 DEF PickerHistory
  <2>8. call'[c].ids = Picker!Offer(modelsCache') /\ call'[c].at = call[c].at
        BY <2>3 DEF PickerInv, PickerType
  <2>9. PICK t \in 0..MaxTime : call[c].at <= t /\ t <= now /\ call[c].got \in published[t]
        BY <2>4 DEF CurrentSince
  <2>10. t + TTL >= call[c].at
        BY <2>9, <2>a DEF PickerCalls
  <2>11. PickerAnswers'
    <3> SUFFICES ASSUME NEW b \in Opens, call'[b].pc = "done"
                 PROVE  /\ call'[b].ids # 1
                        /\ call'[b].ids \in 0..MaxLists /\ ~call'[b].failed =>
                             \E u \in 0..MaxTime : u <= now' /\ u + TTL >= call'[b].at
                                                   /\ call'[b].ids \in published'[u]
        BY DEF PickerAnswers
    <3>1. CASE b = c
          BY <2>2, <2>3, <2>8, <2>9, <2>10, <3>1
    <3>2. CASE b # c
          BY <2>3, <2>7, <3>2 DEF PickerInv, PickerAnswers
    <3> QED BY <3>1, <3>2
  <2> QED BY <2>5, <2>6, <2>11 DEF PickerInv
<1>4. ASSUME NEW c \in Opens, Picker!Fail(c) PROVE PickerInv'
  <2>a. call[c] \in PickerCalls /\ Picker!Offer(modelsCache) \in (0..MaxLists) \cup {Fallback}
        BY OfferType DEF PickerInv, PickerType
  <2>b. [call[c] EXCEPT !.pc = "done", !.failed = TRUE, !.ids = Picker!Offer(modelsCache)] \in PickerCalls
        BY <2>a DEF PickerCalls
  <2>c. call' = [call EXCEPT ![c] = [call[c] EXCEPT !.pc = "done", !.failed = TRUE,
                                                    !.ids = Picker!Offer(modelsCache)]]
        BY <1>4 DEF Picker!Fail
  <2>d. call' \in [Opens -> PickerCalls]
        BY <2>b, <2>c DEF PickerInv, PickerType
  <2>1. PickerType'
        BY <1>4, <2>d DEF PickerInv, PickerType, Picker!Fail
  <2>2. PickerHistory'
        BY <1>4 DEF PickerInv, PickerType, PickerHistory, CurrentSince, Picker!Fail
  <2>3. Picker!Offer(modelsCache) # 1
        BY OfferType DEF PickerInv, PickerType
  <2>4. PickerAnswers'
        BY <1>4, <2>3 DEF PickerInv, PickerType, PickerAnswers, Picker!Fail
  <2> QED BY <2>1, <2>2, <2>4 DEF PickerInv
<1>5. CASE Picker!Publish
  <2>1. PickerType'
        BY <1>5 DEF PickerInv, PickerType, Picker!Publish
  <2>2. \A t \in 0..MaxTime : published[t] \subseteq published'[t]
        BY <1>5 DEF PickerInv, PickerType, Picker!Publish
  <2>3. plist' \in published'[now']
        BY <1>5 DEF PickerInv, PickerType, Picker!Publish
  <2>4. UNCHANGED <<now, modelsCache, call>>
        BY <1>5 DEF Picker!Publish
  <2>5. PickerHistory' /\ PickerAnswers'
        BY <2>2, <2>3, <2>4 DEF PickerInv, PickerHistory, PickerAnswers, CurrentSince
  <2> QED BY <2>1, <2>5 DEF PickerInv
<1>6. CASE Picker!Tick
  <2>1. PickerType'
        BY <1>6 DEF PickerInv, PickerType, Picker!Tick
  <2>2. \A t \in 0..MaxTime : t <= now => published'[t] = published[t]
        BY <1>6 DEF PickerInv, PickerType, Picker!Tick
  <2>3. now' = now + 1 /\ plist' \in published'[now'] /\ UNCHANGED <<modelsCache, call>>
        BY <1>6 DEF PickerInv, PickerType, Picker!Tick
  <2>4. \A t \in 0..MaxTime : t <= now => t <= now'
        BY <2>3 DEF PickerInv, PickerType
  <2>5. \A at, i : CurrentSince(at, i) => CurrentSince(at, i)'
        BY <2>2, <2>4 DEF CurrentSince
  <2>6. PickerHistory'
        BY <2>3, <2>4, <2>5 DEF PickerInv, PickerType, PickerHistory, PickerCalls
  <2>7. PickerAnswers'
        BY <2>2, <2>3, <2>4 DEF PickerInv, PickerAnswers
  <2> QED BY <2>1, <2>6, <2>7 DEF PickerInv
<1>7. CASE UNCHANGED pvars
      BY <1>7 DEF pvars, PickerInv, PickerType, PickerHistory, PickerAnswers, CurrentSince
<1> QED BY <1>1, <1>2, <1>3, <1>4, <1>5, <1>6, <1>7 DEF Picker!Next

\* A step of the surfaces is a step of the picker or leaves it alone.
LEMMA PickerSteps == [MCNext]_allVars => [Picker!Next]_pvars
  BY DEF MCNext, allVars, pvars

(***************************************************************************)
(* The picker always offers a model, and a call whose own fetch did not    *)
(* fail offers no list the gateway had replaced more than MODELS_TTL_MS    *)
(* before the call, for any number of overlapping calls, any number of     *)
(* lists and any time to live (server.ts, GET /api/models).                *)
(***************************************************************************)
THEOREM PickerIsFresh == MCSpec => []PickerFresh
<1>1. MCInit => PickerInv
      BY PickerInit DEF MCInit
<1>2. PickerInv /\ [MCNext]_allVars => PickerInv'
      BY PickerSteps, PickerStep
<1>3. PickerInv => PickerFresh
      BY DEF PickerInv, PickerAnswers, PickerFresh, Picker!PickerFresh, Picker!EmptyList,
         Picker!Lists, Picker!Times
<1> QED BY <1>1, <1>2, <1>3, PTL DEF MCSpec-----------------------------------------------------------------------------
(***************************************************************************)
(* The conversations.                                                      *)
(***************************************************************************)
StoreOps == {"list", "hydrate", "persist", "fork", "import", "readback", "relist"}

StoreCalls ==
    {x \in [op : StoreOps, c : Convos \cup {None}, t : 0..MaxTurns] :
        x.op \in {"hydrate", "persist", "fork", "readback"} => x.c \in Convos}

StoreAnswers ==
    {a \in [op : StoreOps, c : Convos \cup {None}, got : (SUBSET (0..MaxTurns)) \cup SUBSET Convos] :
        /\ a.op \in {"hydrate", "readback"} => a.c \in Convos /\ a.got \in SUBSET (0..MaxTurns)
        /\ a.op \in {"list", "relist"} => a.got \in SUBSET Convos}

ConvTypes ==
    /\ ident \in Seeds \cup {None} /\ unlocks \in 0..MaxUnlocks /\ turns \in 0..MaxTurns
    /\ rows \in [Seeds -> [Convos -> SUBSET (0..MaxTurns)]]
    /\ msgs \in [Convos -> SUBSET (0..MaxTurns)]
    /\ list \in (SUBSET Convos) \cup {None}
    /\ view \in Convos \cup {None}
    /\ fetch \in {"none", "inflight", "done"}
    /\ loop \in [pc : {"off", "listing", "ticking", "done"}, ticks : 0..Ticks, stored : SUBSET Convos]
    /\ loop.pc \in {"listing", "ticking"} => loop.ticks # 0
    /\ live \in [c : Convos \cup {None}, t : 0..MaxTurns]
    /\ live # NoTurn => live.c \in Convos
    /\ gap \in BOOLEAN
    /\ calls \in Seq(StoreCalls) /\ answers \in Seq(StoreAnswers)

\* A locked tab asks the store nothing; before the first unlock nothing is listed.
LockedSound ==
    /\ ident = None => calls = <<>> /\ answers = <<>> /\ live = NoTurn /\ loop.pc = "off"
    /\ unlocks = 0 => ident = None /\ list = None /\ fetch = "none"

(***************************************************************************)
(* The page that the effect asks for is the first thing the store is asked *)
(* after an unlock, and so its answer precedes every other one.            *)
(***************************************************************************)
OrderSound ==
    /\ \A i \in 1..Len(calls) :
          /\ calls[i].op = "list" => i = 1 /\ answers = <<>> /\ loop.pc = "listing"
          /\ calls[i].op = "relist" => loop.pc # "listing"
    /\ \A i \in 1..Len(answers) :
          /\ answers[i].op = "list" => i = 1 /\ loop.pc = "listing"
          /\ answers[i].op = "relist" => loop.pc # "listing"
    /\ loop.pc = "listing" => \/ calls # <<>> /\ calls[1].op = "list"
                              \/ answers # <<>> /\ answers[1].op = "list"

(***************************************************************************)
(* What was listed is still stored and is part of every later page; during *)
(* the window the list is empty or shows it.                               *)
(***************************************************************************)
SeedSound ==
    /\ loop.pc \in {"off", "listing"} => loop.stored = {}
    /\ loop.pc \in {"ticking", "done"} => loop.stored \subseteq Stored(ident)
    /\ \A i \in 1..Len(answers) :
          /\ answers[i].op = "list" => answers[i].got \subseteq Stored(ident)
          /\ answers[i].op = "relist" => loop.stored \subseteq answers[i].got
    /\ ~gap =>
          /\ loop.pc = "listing" => Empty(list)
          /\ loop.pc = "ticking" => Empty(list) \/ loop.stored \subseteq list
          /\ loop.pc = "done" => list # None /\ loop.stored \subseteq list

ConvInv == ConvTypes /\ LockedSound /\ OrderSound /\ SeedSound

LEMMA ConvInit == Init => ConvInv
<1> SUFFICES ASSUME Init PROVE ConvInv
    OBVIOUS
<1> USE BoundsAssumption
<1>1. NoTurn \in [c : Convos \cup {None}, t : 0..MaxTurns]
      BY DEF NoTurn
<1>2. Idle \in [pc : {"off", "listing", "ticking", "done"}, ticks : 0..Ticks, stored : SUBSET Convos]
      /\ Idle.pc = "off" /\ Idle.stored = {}
      BY DEF Idle
<1>3. rows \in [Seeds -> [Convos -> SUBSET (0..MaxTurns)]] /\ msgs \in [Convos -> SUBSET (0..MaxTurns)]
      BY DEF Init
<1>4. <<>> \in Seq(StoreCalls) /\ <<>> \in Seq(StoreAnswers) /\ Len(<<>>) = 0
      OBVIOUS
<1>5. ConvTypes
  <2>1. /\ ident \in Seeds \cup {None} /\ unlocks \in 0..MaxUnlocks /\ turns \in 0..MaxTurns
        /\ list \in (SUBSET Convos) \cup {None} /\ view \in Convos \cup {None} /\ fetch = "none"
        /\ live = NoTurn /\ loop = Idle /\ gap = FALSE /\ calls = <<>> /\ answers = <<>>
        BY DEF Init
  <2> QED BY <2>1, <1>1, <1>2, <1>3, <1>4 DEF ConvTypes
<1>6. LockedSound /\ OrderSound /\ SeedSound
      BY <1>2, <1>4 DEF Init, LockedSound, OrderSound, SeedSound
<1> QED BY <1>5, <1>6 DEF ConvInv

LEMMA RemoveSound ==
    ASSUME NEW S, NEW q \in Seq(S), NEW k \in 1..Len(q)
    PROVE  /\ RemoveAt(q, k) \in Seq(S) /\ Len(RemoveAt(q, k)) = Len(q) - 1
           /\ \A i \in 1..(k - 1) : RemoveAt(q, k)[i] = q[i]
           /\ \A i \in k..(Len(q) - 1) : RemoveAt(q, k)[i] = q[i + 1]
<1> DEFINE a == SubSeq(q, 1, k - 1)
           b == SubSeq(q, k + 1, Len(q))
<1>1. Len(q) \in Nat /\ k \in Nat /\ k <= Len(q) /\ 1 <= k
      OBVIOUS
<1>2. a \in Seq(S) /\ Len(a) = k - 1 /\ \A i \in 1..(k - 1) : a[i] = q[i]
      BY <1>1
<1>3. b \in Seq(S) /\ Len(b) = Len(q) - k /\ \A i \in 1..(Len(q) - k) : b[i] = q[k + i]
      BY <1>1
<1>4. RemoveAt(q, k) = a \o b
      BY DEF RemoveAt
<1> HIDE DEF a, b
<1>5. a \in Seq(S) /\ b \in Seq(S) /\ Len(a) \in Nat /\ Len(b) \in Nat
      BY <1>2, <1>3
<1>6. /\ a \o b \in Seq(S) /\ Len(a \o b) = Len(a) + Len(b)
      /\ \A i \in 1..(Len(a) + Len(b)) : (a \o b)[i] = IF i <= Len(a) THEN a[i] ELSE b[i - Len(a)]
      BY <1>5
<1>7. (k - 1) + (Len(q) - k) = Len(q) - 1
      BY <1>1
<1>8. \A i \in 1..(k - 1) : (a \o b)[i] = q[i]
  <2> SUFFICES ASSUME NEW i \in 1..(k - 1) PROVE (a \o b)[i] = q[i]
      OBVIOUS
  <2>1. i \in 1..(Len(a) + Len(b)) /\ i <= Len(a)
        BY <1>1, <1>2, <1>3
  <2> QED BY <2>1, <1>2, <1>6
<1>9. \A i \in k..(Len(q) - 1) : (a \o b)[i] = q[i + 1]
  <2> SUFFICES ASSUME NEW i \in k..(Len(q) - 1) PROVE (a \o b)[i] = q[i + 1]
      OBVIOUS
  <2>1. /\ i \in 1..(Len(a) + Len(b)) /\ ~(i <= Len(a))
        /\ i - Len(a) \in 1..(Len(q) - k) /\ k + (i - Len(a)) = i + 1
        BY <1>1, <1>2, <1>3
  <2> QED BY <2>1, <1>3, <1>6
<1> QED BY <1>2, <1>3, <1>4, <1>6, <1>7, <1>8, <1>9

\* A cancelled hydrate leaves the queue; the others keep their order.
LEMMA LeftSound ==
    ASSUME NEW S, NEW q \in Seq(S)
    PROVE  /\ Left(q) \in Seq(S)
           /\ q = <<>> => Left(q) = <<>>
           /\ \A i \in 1..Len(Left(q)) : \E j \in 1..Len(q) : Left(q)[i] = q[j] /\ (j = 1 => i = 1)
           /\ q # <<>> /\ q[1].op = "list" => Left(q) # <<>> /\ Left(q)[1] = q[1]
<1>0. DOMAIN q = 1..Len(q) /\ Len(q) \in Nat
      OBVIOUS
<1>1. CASE ~\E n \in DOMAIN q : q[n].op = "hydrate"
  <2>1. Left(q) = q
        BY <1>1 DEF Left
  <2> QED BY <2>1
<1>2. CASE \E n \in DOMAIN q : q[n].op = "hydrate"
  <2> DEFINE k == CHOOSE n \in DOMAIN q : q[n].op = "hydrate"
             r == RemoveAt(q, k)
  <2>1. k \in 1..Len(q) /\ q[k].op = "hydrate"
        BY <1>0, <1>2
  <2>2. Left(q) = r
        BY <1>2 DEF Left
  <2> HIDE DEF k
  <2>3. /\ r \in Seq(S) /\ Len(r) = Len(q) - 1
        /\ \A i \in 1..(k - 1) : r[i] = q[i]
        /\ \A i \in k..(Len(q) - 1) : r[i] = q[i + 1]
        BY <2>1, RemoveSound
  <2> HIDE DEF r
  <2>4. ASSUME NEW i \in 1..Len(r)
        PROVE  \E j \in 1..Len(q) : r[i] = q[j] /\ (j = 1 => i = 1)
    <3>1. CASE i < k
          BY <1>0, <2>1, <2>3, <3>1
    <3>2. CASE ~(i < k)
      <4>1. i \in k..(Len(q) - 1) /\ i + 1 \in 1..Len(q) /\ i + 1 # 1
            BY <1>0, <2>1, <2>3, <3>2
      <4>2. r[i] = q[i + 1]
            BY <4>1, <2>3
      <4> QED BY <4>1, <4>2
    <3> QED BY <3>1, <3>2
  <2>5. q # <<>>
        BY <1>0, <2>1
  <2>6. ASSUME q[1].op = "list" PROVE r # <<>> /\ r[1] = q[1]
    <3>1. k # 1
          BY <2>1, <2>6
    <3>2. 1 \in 1..(k - 1) /\ Len(r) # 0
          BY <3>1, <1>0, <2>1, <2>3
    <3> QED BY <3>2, <2>3
  <2> QED BY <2>2, <2>3, <2>4, <2>5, <2>6
<1> QED BY <1>1, <1>2

LEMMA Appended ==
    ASSUME NEW S, NEW q \in Seq(S), NEW e \in S
    PROVE  /\ Append(q, e) \in Seq(S) /\ Append(q, e) # <<>>
           /\ \A i \in 1..Len(Append(q, e)) : \/ i \in 1..Len(q) /\ Append(q, e)[i] = q[i]
                                              \/ i = Len(q) + 1 /\ Append(q, e)[i] = e
           /\ q # <<>> => Append(q, e)[1] = q[1]
           /\ q = <<>> => Len(q) = 0 /\ Append(q, e)[1] = e
<1> DEFINE r == Append(q, e)
<1>1. /\ r \in Seq(S) /\ Len(q) \in Nat /\ Len(r) = Len(q) + 1 /\ r[Len(q) + 1] = e
      /\ \A i \in 1..Len(q) : r[i] = q[i]
      OBVIOUS
<1>2. r # <<>> /\ (q = <<>> => Len(q) = 0) /\ (q # <<>> => 1 \in 1..Len(q))
  <2>1. Len(r) # 0
        BY <1>1
  <2>2. Len(<<>>) = 0
        OBVIOUS
  <2>3. q # <<>> => 1 \in 1..Len(q)
        OBVIOUS
  <2> QED BY <2>1, <2>2, <2>3
<1> HIDE DEF r
<1>3. \A i \in 1..Len(r) : i \in 1..Len(q) \/ i = Len(q) + 1
      BY <1>1
<1> QED BY <1>1, <1>2, <1>3 DEF r

LEMMA Shifted ==
    ASSUME NEW S, NEW q \in Seq(S), q # <<>>
    PROVE  /\ Tail(q) \in Seq(S) /\ Head(q) \in S /\ Head(q) = q[1] /\ 1 \in 1..Len(q)
           /\ \A i \in 1..Len(Tail(q)) : i + 1 \in 1..Len(q) /\ Tail(q)[i] = q[i + 1] /\ i + 1 # 1
<1>1. /\ Tail(q) \in Seq(S) /\ Head(q) \in S /\ Head(q) = q[1] /\ 1 \in 1..Len(q)
      /\ Len(q) \in Nat /\ Len(q) >= 1 /\ Len(Tail(q)) = Len(q) - 1
      OBVIOUS
<1>2. \A i \in 1..(Len(q) - 1) : i + 1 \in 1..Len(q) /\ Tail(q)[i] = q[i + 1] /\ i + 1 # 1
      OBVIOUS
<1> QED BY <1>1, <1>2

LEMMA ConvRecords ==
    /\ NoTurn \in [c : Convos \cup {None}, t : 0..MaxTurns]
    /\ Idle \in [pc : {"off", "listing", "ticking", "done"}, ticks : 0..Ticks, stored : SUBSET Convos]
    /\ Idle.pc = "off" /\ Idle.stored = {}
    /\ \A l \in SUBSET Convos : l # None
    /\ {MaxTurns, Ticks, MaxUnlocks} \subseteq Nat /\ Ticks # 0
    /\ None \notin Seeds
  BY BoundsAssumption, NoneAssumption DEF NoTurn, Idle

\* Steps that leave the store, the calls and the effect alone.
LEMMA SurfaceSteps ==
    ASSUME ConvInv, \/ Mount \/ FetchReturns \/ \E c \in Convos : Send(c)
    PROVE  ConvInv'
<1> USE ConvRecords
<1>0. UNCHANGED <<ident, unlocks, rows, calls, answers, loop>>
      BY DEF Mount, FetchReturns, Send
<1>1. ConvTypes'
  <2>1. CASE Mount
    <3>1. fetch' \in {"none", "inflight", "done"} /\ UNCHANGED <<list, msgs, view, turns, live, gap>>
          BY <2>1 DEF Mount
    <3> QED BY <3>1, <1>0 DEF ConvInv, ConvTypes
  <2>2. CASE FetchReturns
    <3>1. gap' \in BOOLEAN
          BY <2>2 DEF FetchReturns
    <3>2. list' \in SUBSET Convos /\ fetch' = "done" /\ UNCHANGED <<msgs, view, turns, live>>
          BY <2>2 DEF FetchReturns
    <3> QED BY <3>1, <3>2, <1>0 DEF ConvInv, ConvTypes
  <2>3. ASSUME NEW c \in Convos, Send(c) PROVE ConvTypes'
    <3>1. turns + 1 \in 0..MaxTurns /\ turns \in Nat
          BY <2>3 DEF Send, ConvInv, ConvTypes
    <3>2. /\ live' \in [c : Convos \cup {None}, t : 0..MaxTurns] /\ live'.c \in Convos
          /\ msgs' \in [Convos -> SUBSET (0..MaxTurns)] /\ turns' \in 0..MaxTurns
          BY <2>3, <3>1 DEF Send, ConvInv, ConvTypes
    <3> QED BY <2>3, <3>2, <1>0 DEF Send, ConvInv, ConvTypes
  <2> QED BY <2>1, <2>2, <2>3
<1>2. LockedSound'
  <2>1. unlocks # 0
        BY DEF Mount, FetchReturns, Send, ConvInv, LockedSound
  <2>2. ident = None => live' = live
        BY DEF Mount, FetchReturns, Send
  <2> QED BY <1>0, <2>1, <2>2 DEF ConvInv, LockedSound
<1>3. OrderSound'
      BY <1>0 DEF ConvInv, OrderSound
<1>4. SeedSound'
  <2>1. Stored(ident)' = Stored(ident)
        BY <1>0 DEF Stored
  <2>2. ASSUME ~gap'
        PROVE  /\ loop'.pc = "listing" => Empty(list')
               /\ loop'.pc = "ticking" => Empty(list') \/ loop'.stored \subseteq list'
               /\ loop'.pc = "done" => list' # None /\ loop'.stored \subseteq list'
    <3>1. CASE FetchReturns
          BY <2>2, <3>1, <1>0 DEF FetchReturns, ConvInv, SeedSound, Empty, ConvTypes
    <3>2. CASE UNCHANGED <<list, gap>>
          BY <2>2, <3>2, <1>0 DEF ConvInv, SeedSound, Empty
    <3> QED BY <3>1, <3>2 DEF Mount, Send
  <2>3. Empty(list)' <=> Empty(list')
        BY DEF Empty
  <2> QED BY <1>0, <2>1, <2>2, <2>3 DEF ConvInv, SeedSound
<1> QED BY <1>1, <1>2, <1>3, <1>4 DEF ConvInv

LEMMA TickKeeps == ConvInv /\ Tick => ConvInv'
<1> SUFFICES ASSUME ConvInv, Tick PROVE ConvInv'
    OBVIOUS
<1> USE ConvRecords
<1>0. /\ loop \in [pc : {"off", "listing", "ticking", "done"}, ticks : 0..Ticks, stored : SUBSET Convos]
      /\ loop.pc = "ticking" /\ loop.ticks # 0
      BY DEF Tick, ConvInv, ConvTypes
<1>1. /\ loop.pc = "ticking" /\ loop.ticks \in 1..Ticks /\ loop.stored \in SUBSET Convos
      /\ list' = IF Empty(list) THEN loop.stored ELSE list
  <2>1. loop.ticks \in 1..Ticks /\ loop.stored \in SUBSET Convos
        BY <1>0
  <2>2. ASSUME Empty(list) PROVE Added(IF list = None THEN {} ELSE list, loop.stored) = loop.stored
        BY <2>2 DEF Added, Empty
  <2> QED BY <1>0, <2>1, <2>2 DEF Tick
<1>2. /\ loop' \in [pc : {"off", "listing", "ticking", "done"}, ticks : 0..Ticks, stored : SUBSET Convos]
      /\ loop'.pc \in {"ticking", "done"} /\ loop'.stored = loop.stored
      /\ loop'.pc = "ticking" => loop'.ticks # 0
  <2> DEFINE p == IF loop.ticks = 1 THEN "done" ELSE loop.pc
  <2>1. loop' = [loop EXCEPT !.ticks = loop.ticks - 1, !.pc = p]
        BY DEF Tick
  <2>2. p \in {"ticking", "done"} /\ loop.ticks - 1 \in 0..Ticks /\ (p = "ticking" => loop.ticks - 1 # 0)
        BY <1>0, <1>1
  <2> HIDE DEF p
  <2> QED BY <1>0, <2>1, <2>2
<1>3. UNCHANGED <<ident, unlocks, rows, calls, answers, msgs, view, fetch, turns, live, gap>>
      BY DEF Tick
<1>4. ConvTypes'
      BY <1>1, <1>2, <1>3 DEF ConvInv, ConvTypes
<1>5. LockedSound'
      BY <1>1, <1>2, <1>3 DEF ConvInv, LockedSound
<1>6. OrderSound'
      BY <1>1, <1>2, <1>3 DEF ConvInv, OrderSound
<1>7. SeedSound'
  <2>1. Stored(ident)' = Stored(ident)
        BY <1>3 DEF Stored
  <2>2. ASSUME ~gap PROVE list' # None /\ loop.stored \subseteq list'
        BY <1>1, <2>2 DEF ConvInv, SeedSound, Empty, ConvTypes
  <2> QED BY <1>1, <1>2, <1>3, <2>1, <2>2 DEF ConvInv, SeedSound
<1> QED BY <1>4, <1>5, <1>6, <1>7 DEF ConvInv

LEMMA LockingSteps ==
    ASSUME ConvInv, Lock \/ \E s \in Seeds : Unlock(s)
    PROVE  ConvInv'
<1> USE ConvRecords
<1>0. /\ <<>> \in Seq(StoreCalls) /\ <<>> \in Seq(StoreAnswers) /\ Len(<<>>) = 0
      OBVIOUS
<1>1. CASE Lock
  <2>1. ident \in Seeds /\ unlocks # 0 /\ ident' = None /\ calls' = <<>> /\ answers' = <<>>
        /\ loop' = Idle /\ live' = NoTurn /\ UNCHANGED <<unlocks, rows, list, msgs, view, fetch, turns, gap>>
        BY <1>1 DEF Lock, ConvInv, ConvTypes, LockedSound
  <2>2. ConvTypes'
        BY <1>0, <2>1 DEF ConvInv, ConvTypes
  <2>3. LockedSound' /\ OrderSound' /\ SeedSound'
        BY <1>0, <2>1 DEF LockedSound, OrderSound, SeedSound
  <2> QED BY <2>2, <2>3 DEF ConvInv
<1>2. ASSUME NEW s \in Seeds, Unlock(s) PROVE ConvInv'
  <2> DEFINE x == Call("list", None, 0)
  <2>1. /\ ident = None /\ ident' = s /\ unlocks' = unlocks + 1 /\ unlocks' \in 0..MaxUnlocks
        /\ unlocks' # 0 /\ gap' = ~Empty(list)
        /\ UNCHANGED <<rows, answers, list, msgs, fetch, turns, live>> /\ view' = None
        BY <1>2 DEF Unlock, ConvInv, ConvTypes
  <2>2. /\ loop' \in [pc : {"off", "listing", "ticking", "done"}, ticks : 0..Ticks, stored : SUBSET Convos]
        /\ loop'.pc = "listing" /\ loop'.stored = {} /\ loop'.ticks # 0
        BY <1>2 DEF Unlock
  <2>3. x \in StoreCalls /\ x.op = "list"
        BY DEF Call, StoreCalls, StoreOps
  <2>4. calls' = <<x>> /\ answers = <<>>
        BY <1>2 DEF Unlock, ConvInv, LockedSound
  <2> HIDE DEF x
  <2>5. /\ <<x>> \in Seq(StoreCalls) /\ Len(<<x>>) = 1 /\ <<x>>[1] = x /\ <<x>> # <<>>
        BY <2>3
  <2>10. gap' \in BOOLEAN
        BY <2>1
  <2>6. ConvTypes'
        BY <2>1, <2>2, <2>4, <2>5, <2>10 DEF ConvInv, ConvTypes
  <2>7. LockedSound'
        BY <2>1 DEF LockedSound
  <2>8. OrderSound'
        BY <1>0, <2>1, <2>2, <2>3, <2>4, <2>5 DEF OrderSound
  <2>9. SeedSound'
    <3>1. ~gap' => Empty(list')
          BY <2>1
    <3>2. Empty(list)' <=> Empty(list')
          BY DEF Empty
    <3> QED BY <1>0, <2>1, <2>2, <2>4, <3>1, <3>2 DEF SeedSound
  <2> QED BY <2>6, <2>7, <2>8, <2>9 DEF ConvInv
<1> QED BY <1>1, <1>2
\* A call of another kind joins the queue.
LEMMA Posted ==
    ASSUME ConvInv, NEW x \in StoreCalls, x.op \notin {"list", "relist"},
           calls' = Append(calls, x), UNCHANGED <<answers, loop>>
    PROVE  calls' \in Seq(StoreCalls) /\ OrderSound'
<1>1. calls \in Seq(StoreCalls)
      BY DEF ConvInv, ConvTypes
<1>2. /\ calls' \in Seq(StoreCalls) /\ calls' # <<>>
      /\ \A i \in 1..Len(calls') : \/ i \in 1..Len(calls) /\ calls'[i] = calls[i]
                                   \/ calls'[i] = x
      /\ calls # <<>> => calls'[1] = calls[1]
      BY <1>1, Appended
<1> QED BY <1>2 DEF ConvInv, OrderSound

\* The parts of SeedSound that do not look at the list.
LEMMA PagesKept ==
    ASSUME ConvInv, UNCHANGED loop, Stored(ident) \subseteq Stored(ident)',
           \A i \in 1..Len(answers') : \E j \in 1..Len(answers) : answers'[i] = answers[j],
           ~gap' =>
              /\ loop.pc = "listing" => Empty(list')
              /\ loop.pc = "ticking" => Empty(list') \/ loop.stored \subseteq list'
              /\ loop.pc = "done" => list' # None /\ loop.stored \subseteq list'
    PROVE  SeedSound'
<1>1. Empty(list)' <=> Empty(list')
      BY DEF Empty
<1> QED BY <1>1 DEF ConvInv, SeedSound

LEMMA FinishKeeps == ConvInv /\ Finish => ConvInv'
<1> SUFFICES ASSUME ConvInv, Finish PROVE ConvInv'
    OBVIOUS
<1> USE ConvRecords
<1> DEFINE x == Call("persist", live.c, live.t)
<1>0. live.c \in Convos /\ live.t \in 0..MaxTurns /\ live # NoTurn
      BY DEF Finish, ConvInv, ConvTypes
<1>1. x \in StoreCalls /\ x.op = "persist"
      BY <1>0 DEF Call, StoreCalls, StoreOps
<1>2. /\ list' = Added(list, {live.c}) /\ gap' = (gap \/ list = {}) /\ calls' = Append(calls, x)
      /\ live' = NoTurn /\ UNCHANGED <<ident, unlocks, rows, answers, msgs, view, fetch, loop, turns>>
      BY DEF Finish
<1> HIDE DEF x
<1>3. calls' \in Seq(StoreCalls) /\ OrderSound'
      BY <1>1, <1>2, Posted
<1>4. list' \in (SUBSET Convos) \cup {None} /\ (list # None => list' # None /\ list \subseteq list')
      BY <1>0, <1>2 DEF Added, ConvInv, ConvTypes
<1>5. ConvTypes'
  <2>1. gap' \in BOOLEAN
        BY <1>2 DEF ConvInv, ConvTypes
  <2> QED BY <1>2, <1>3, <1>4, <2>1 DEF ConvInv, ConvTypes
<1>6. LockedSound'
      BY <1>0, <1>2 DEF ConvInv, LockedSound
<1>7. SeedSound'
  <2>1. Stored(ident)' = Stored(ident)
        BY <1>2 DEF Stored
  <2>2. ASSUME ~gap'
        PROVE /\ loop.pc = "listing" => Empty(list')
              /\ loop.pc = "ticking" => Empty(list') \/ loop.stored \subseteq list'
              /\ loop.pc = "done" => list' # None /\ loop.stored \subseteq list'
    <3>1. ~gap /\ list # {}
          BY <1>2, <2>2
    <3>2. CASE list = None
      <4>1. list' = None
            BY <1>2, <3>2 DEF Added
      <4> QED BY <3>1, <3>2, <4>1 DEF ConvInv, SeedSound, Empty
    <3>3. CASE list # None
          BY <3>1, <3>3, <1>4 DEF ConvInv, SeedSound, Empty
    <3> QED BY <3>2, <3>3
  <2> QED BY <1>2, <2>1, <2>2, PagesKept
<1> QED BY <1>3, <1>5, <1>6, <1>7 DEF ConvInv

\* The user asks for a copy, or for an import.
LEMMA AskingSteps == ConvInv /\ (Fork \/ Import) => ConvInv'
<1> SUFFICES ASSUME ConvInv, Fork \/ Import PROVE ConvInv'
    OBVIOUS
<1> USE ConvRecords
<1>1. /\ ident # None /\ turns' \in 0..MaxTurns
      /\ UNCHANGED <<ident, unlocks, rows, answers, list, msgs, view, fetch, loop, live, gap>>
      BY DEF Fork, Import, ConvInv, ConvTypes
<1>2. PICK x \in StoreCalls : x.op \in {"fork", "import"} /\ calls' = Append(calls, x)
  <2>0. turns + 1 \in 0..MaxTurns
        BY DEF Fork, Import, ConvInv, ConvTypes
  <2>1. CASE Fork
    <3>1. view \in Convos
          BY <2>1 DEF Fork, ConvInv, ConvTypes
    <3>2. Call("fork", view, turns + 1) \in StoreCalls /\ Call("fork", view, turns + 1).op = "fork"
          BY <2>0, <3>1 DEF Call, StoreCalls, StoreOps
    <3> QED BY <2>1, <3>2 DEF Fork
  <2>2. CASE Import
    <3>2. Call("import", None, turns + 1) \in StoreCalls /\ Call("import", None, turns + 1).op = "import"
          BY <2>0 DEF Call, StoreCalls, StoreOps
    <3> QED BY <2>2, <3>2 DEF Import
  <2> QED BY <2>1, <2>2
<1>3. calls' \in Seq(StoreCalls) /\ OrderSound'
      BY <1>1, <1>2, Posted
<1>4. ConvTypes'
      BY <1>1, <1>3 DEF ConvInv, ConvTypes
<1>5. LockedSound'
      BY <1>1 DEF ConvInv, LockedSound
<1>6. SeedSound'
  <2>1. Stored(ident)' = Stored(ident)
        BY <1>1 DEF Stored
  <2> QED BY <1>1, <2>1 DEF ConvInv, SeedSound, Empty
<1> QED BY <1>3, <1>4, <1>5, <1>6 DEF ConvInv

LEMMA OpenKeeps == ASSUME ConvInv, NEW c \in Convos, Open(c) PROVE ConvInv'
<1> USE ConvRecords
<1> DEFINE x == Call("hydrate", c, 0)
<1>1. /\ ident # None /\ view' = c /\ answers' = Left(answers)
      /\ calls' \in {Left(calls), Append(Left(calls), x)}
      /\ UNCHANGED <<ident, unlocks, rows, list, msgs, fetch, loop, turns, live, gap>>
      BY DEF Open
<1>2. x \in StoreCalls /\ x.op = "hydrate"
      BY DEF Call, StoreCalls, StoreOps
<1> HIDE DEF x
<1>3. calls \in Seq(StoreCalls) /\ answers \in Seq(StoreAnswers)
      BY DEF ConvInv, ConvTypes
<1>4. /\ Left(calls) \in Seq(StoreCalls)
      /\ \A i \in 1..Len(Left(calls)) : \E j \in 1..Len(calls) : Left(calls)[i] = calls[j] /\ (j = 1 => i = 1)
      /\ calls # <<>> /\ calls[1].op = "list" => Left(calls) # <<>> /\ Left(calls)[1] = calls[1]
      BY <1>3, LeftSound
<1>5. /\ answers' \in Seq(StoreAnswers)
      /\ answers = <<>> => answers' = <<>>
      /\ \A i \in 1..Len(answers') : \E j \in 1..Len(answers) : answers'[i] = answers[j] /\ (j = 1 => i = 1)
      /\ answers # <<>> /\ answers[1].op = "list" => answers' # <<>> /\ answers'[1] = answers[1]
      BY <1>1, <1>3, LeftSound
<1>6. /\ calls' \in Seq(StoreCalls)
      /\ \A i \in 1..Len(calls') : \/ calls'[i] = x
                                   \/ \E j \in 1..Len(calls) : calls'[i] = calls[j] /\ (j = 1 => i = 1)
      /\ calls # <<>> /\ calls[1].op = "list" => calls' # <<>> /\ calls'[1] = calls[1]
  <2>1. CASE calls' = Left(calls)
        BY <1>4, <2>1
  <2>2. CASE calls' = Append(Left(calls), x)
    <3>1. /\ calls' \in Seq(StoreCalls) /\ calls' # <<>>
          /\ \A i \in 1..Len(calls') : \/ i \in 1..Len(Left(calls)) /\ calls'[i] = Left(calls)[i]
                                       \/ calls'[i] = x
          /\ Left(calls) # <<>> => calls'[1] = Left(calls)[1]
          BY <1>2, <1>4, <2>2, Appended
    <3> QED BY <1>4, <3>1
  <2> QED BY <1>1, <2>1, <2>2
<1>7. ConvTypes'
      BY <1>1, <1>5, <1>6 DEF ConvInv, ConvTypes
<1>8. LockedSound'
      BY <1>1 DEF ConvInv, LockedSound
<1>9. OrderSound'
  <2>0. OrderSound /\ UNCHANGED loop
        BY <1>1 DEF ConvInv
  <2>1. ASSUME NEW i \in 1..Len(calls')
        PROVE  /\ calls'[i].op = "list" => i = 1 /\ answers' = <<>> /\ loop'.pc = "listing"
               /\ calls'[i].op = "relist" => loop'.pc # "listing"
    <3>1. CASE calls'[i] = x
          BY <1>2, <3>1
    <3>2. ASSUME NEW j \in 1..Len(calls), calls'[i] = calls[j], j = 1 => i = 1
          PROVE  /\ calls'[i].op = "list" => i = 1 /\ answers' = <<>> /\ loop'.pc = "listing"
                 /\ calls'[i].op = "relist" => loop'.pc # "listing"
          BY <1>5, <2>0, <3>2 DEF OrderSound
    <3> QED BY <1>6, <3>1, <3>2
  <2>2. ASSUME NEW i \in 1..Len(answers')
        PROVE  /\ answers'[i].op = "list" => i = 1 /\ loop'.pc = "listing"
               /\ answers'[i].op = "relist" => loop'.pc # "listing"
        BY <1>5, <2>0 DEF OrderSound
  <2>3. loop'.pc = "listing" => \/ calls' # <<>> /\ calls'[1].op = "list"
                                \/ answers' # <<>> /\ answers'[1].op = "list"
        BY <1>5, <1>6, <2>0 DEF OrderSound
  <2> QED BY <2>1, <2>2, <2>3 DEF OrderSound
<1>10. SeedSound'
  <2>1. Stored(ident)' = Stored(ident)
        BY <1>1 DEF Stored
  <2> QED BY <1>1, <1>5, <2>1 DEF ConvInv, SeedSound, Empty
<1> QED BY <1>7, <1>8, <1>9, <1>10 DEF ConvInv
\* Turns are added to a conversation of the store: none disappears.
LEMMA RowsGrow ==
    ASSUME ConvInv, NEW s \in Seeds, NEW c \in Convos, NEW T \in SUBSET (0..MaxTurns),
           rows[s][c] # {} => T # {}, rows' = [rows EXCEPT ![s][c] = T]
    PROVE  /\ rows' \in [Seeds -> [Convos -> SUBSET (0..MaxTurns)]]
           /\ {d \in Convos : rows[s][d] # {}} \subseteq {d \in Convos : rows'[s][d] # {}}
<1>1. rows \in [Seeds -> [Convos -> SUBSET (0..MaxTurns)]]
      BY DEF ConvInv, ConvTypes
<1>2. rows[s] \in [Convos -> SUBSET (0..MaxTurns)]
      BY <1>1
<1>3. [rows[s] EXCEPT ![c] = T] \in [Convos -> SUBSET (0..MaxTurns)]
      BY <1>2
<1>4. rows' = [rows EXCEPT ![s] = [rows[s] EXCEPT ![c] = T]]
      OBVIOUS
<1>5. rows'[s] = [rows[s] EXCEPT ![c] = T]
      BY <1>1, <1>4
<1> QED BY <1>1, <1>2, <1>3, <1>4, <1>5

\* What one request does: an answer of its kind, except for a turn that is stored, and a page
\* that is what is stored.
LEMMA ServeDoes ==
    ASSUME ConvInv, Serve
    PROVE  LET x == Head(calls) IN
           /\ calls # <<>> /\ x \in StoreCalls /\ ident \in Seeds
           /\ rows' \in [Seeds -> [Convos -> SUBSET (0..MaxTurns)]]
           /\ Stored(ident) \subseteq Stored(ident)'
           /\ \/ x.op = "persist" /\ UNCHANGED answers
              \/ \E a \in StoreAnswers : /\ answers' = Append(answers, a) /\ a.op = x.op
                                         /\ a.op \in {"list", "relist"} => a.got = Stored(ident)
<1> USE ConvRecords
<1> DEFINE x == Head(calls)
           mine == rows[ident]
<1>0. /\ calls # <<>> /\ x \in StoreCalls /\ ident \in Seeds /\ ident' = ident
      /\ rows \in [Seeds -> [Convos -> SUBSET (0..MaxTurns)]] /\ mine \in [Convos -> SUBSET (0..MaxTurns)]
  <2>1. calls # <<>> /\ calls \in Seq(StoreCalls) /\ ident' = ident
        BY DEF Serve, ConvInv, ConvTypes
  <2>2. x \in StoreCalls /\ ident \in Seeds
        BY <2>1, Shifted DEF ConvInv, ConvTypes, LockedSound
  <2> QED BY <2>1, <2>2 DEF ConvInv, ConvTypes
<1>1. /\ Stored(ident) = {d \in Convos : rows[ident][d] # {}}
      /\ Stored(ident)' = {d \in Convos : rows'[ident][d] # {}}
      BY <1>0 DEF Stored
<1>2. /\ x.c \in Convos \cup {None} /\ x.t \in 0..MaxTurns
      /\ x.op \in {"hydrate", "persist", "fork", "readback"} => x.c \in Convos
      BY <1>0 DEF StoreCalls
<1> DEFINE Answer(c, turnset) == [op |-> x.op, c |-> c, got |-> turnset]
           Done == /\ rows' \in [Seeds -> [Convos -> SUBSET (0..MaxTurns)]]
                   /\ Stored(ident) \subseteq Stored(ident)'
                   /\ \/ x.op = "persist" /\ UNCHANGED answers
                      \/ \E a \in StoreAnswers : /\ answers' = Append(answers, a) /\ a.op = x.op
                                                 /\ a.op \in {"list", "relist"} => a.got = Stored(ident)
<1>3. \/ x.op = "list" /\ answers' = Append(answers, Answer(None, Stored(ident))) /\ UNCHANGED rows
      \/ x.op = "hydrate" /\ answers' = Append(answers, Answer(x.c, mine[x.c])) /\ UNCHANGED rows
      \/ x.op = "persist" /\ rows' = [rows EXCEPT ![ident][x.c] = mine[x.c] \cup {x.t}] /\ UNCHANGED answers
      \/ x.op = "fork" /\ \/ answers' = Append(answers, Answer(None, {})) /\ UNCHANGED rows
                          \/ /\ mine[x.c] # {}
                             /\ \E n \in Fresh : /\ rows' = [rows EXCEPT ![ident][n] = mine[x.c]]
                                                 /\ answers' = Append(answers, Answer(n, {}))
      \/ /\ x.op = "import" /\ answers' = Append(answers, Answer(None, {}))
         /\ \E n \in Fresh : rows' = [rows EXCEPT ![ident][n] = {x.t}]
      \/ x.op = "readback" /\ answers' = Append(answers, Answer(x.c, mine[x.c])) /\ UNCHANGED rows
      \/ x.op = "relist" /\ answers' = Append(answers, Answer(None, Stored(ident))) /\ UNCHANGED rows
      BY DEF Serve
<1>4. UNCHANGED rows => /\ rows' \in [Seeds -> [Convos -> SUBSET (0..MaxTurns)]]
                        /\ Stored(ident) \subseteq Stored(ident)'
      BY <1>0, <1>1
<1>5. ASSUME x.op \in {"list", "relist"} /\ answers' = Append(answers, Answer(None, Stored(ident))) /\ UNCHANGED rows
      PROVE  Done
  <2>1. Answer(None, Stored(ident)) \in StoreAnswers
        BY <1>1, <1>5 DEF StoreAnswers, StoreOps
  <2> QED BY <1>4, <1>5, <2>1
<1>6. ASSUME x.op \in {"hydrate", "readback"} /\ answers' = Append(answers, Answer(x.c, mine[x.c])) /\ UNCHANGED rows
      PROVE  Done
  <2>1. x.c \in Convos /\ mine[x.c] \in SUBSET (0..MaxTurns)
        BY <1>0, <1>2, <1>6
  <2>2. Answer(x.c, mine[x.c]) \in StoreAnswers
        BY <1>6, <2>1 DEF StoreAnswers, StoreOps
  <2> QED BY <1>4, <1>6, <2>2
<1>7. ASSUME x.op = "persist" /\ rows' = [rows EXCEPT ![ident][x.c] = mine[x.c] \cup {x.t}] /\ UNCHANGED answers
      PROVE  Done
  <2>1. x.c \in Convos /\ mine[x.c] \cup {x.t} \in SUBSET (0..MaxTurns)
        BY <1>0, <1>2, <1>7
  <2>2. /\ rows' \in [Seeds -> [Convos -> SUBSET (0..MaxTurns)]]
        /\ {d \in Convos : rows[ident][d] # {}} \subseteq {d \in Convos : rows'[ident][d] # {}}
        BY <1>0, <1>7, <2>1, RowsGrow
  <2> QED BY <1>1, <1>7, <2>2
<1>8. ASSUME x.op \in {"fork", "import"} /\ answers' = Append(answers, Answer(None, {})) /\ UNCHANGED rows
      PROVE  Done
  <2>1. Answer(None, {}) \in StoreAnswers
        BY <1>8 DEF StoreAnswers, StoreOps
  <2> QED BY <1>4, <1>8, <2>1
<1>9. ASSUME NEW n \in Fresh, NEW T, T \in SUBSET (0..MaxTurns), T # {}, NEW c \in Convos \cup {None},
             x.op \in {"fork", "import"}, rows' = [rows EXCEPT ![ident][n] = T],
             answers' = Append(answers, Answer(c, {}))
      PROVE  Done
  <2>1. n \in Convos
        BY DEF Fresh
  <2>2. /\ rows' \in [Seeds -> [Convos -> SUBSET (0..MaxTurns)]]
        /\ {d \in Convos : rows[ident][d] # {}} \subseteq {d \in Convos : rows'[ident][d] # {}}
        BY <1>0, <1>9, <2>1, RowsGrow
  <2>3. Answer(c, {}) \in StoreAnswers
        BY <1>9 DEF StoreAnswers, StoreOps
  <2> QED BY <1>1, <1>9, <2>2, <2>3
<1>10. ASSUME x.op = "fork", mine[x.c] # {},
              \E n \in Fresh : /\ rows' = [rows EXCEPT ![ident][n] = mine[x.c]]
                              /\ answers' = Append(answers, Answer(n, {}))
       PROVE  Done
  <2>1. PICK n \in Fresh : /\ rows' = [rows EXCEPT ![ident][n] = mine[x.c]]
                           /\ answers' = Append(answers, Answer(n, {}))
        BY <1>10
  <2>2. mine[x.c] \in SUBSET (0..MaxTurns) /\ n \in Convos
        BY <1>0, <1>2, <1>10 DEF Fresh
  <2> QED BY <1>9, <1>10, <2>1, <2>2
<1>11. ASSUME x.op = "import", answers' = Append(answers, Answer(None, {})),
              \E n \in Fresh : rows' = [rows EXCEPT ![ident][n] = {x.t}]
       PROVE  Done
  <2>1. {x.t} \in SUBSET (0..MaxTurns) /\ {x.t} # {}
        BY <1>2
  <2> QED BY <1>9, <1>11, <2>1
<1>12. Done
       BY <1>3, <1>5, <1>6, <1>7, <1>8, <1>10, <1>11
<1> QED BY <1>0, <1>12
LEMMA ServeKeeps == ConvInv /\ Serve => ConvInv'
<1> SUFFICES ASSUME ConvInv, Serve PROVE ConvInv'
    OBVIOUS
<1> DEFINE x == Head(calls)
<1>1. /\ calls # <<>> /\ x \in StoreCalls /\ ident \in Seeds
      /\ rows' \in [Seeds -> [Convos -> SUBSET (0..MaxTurns)]]
      /\ Stored(ident) \subseteq Stored(ident)'
      /\ \/ x.op = "persist" /\ UNCHANGED answers
         \/ \E a \in StoreAnswers : /\ answers' = Append(answers, a) /\ a.op = x.op
                                    /\ a.op \in {"list", "relist"} => a.got = Stored(ident)
      BY ServeDoes
<1>2. /\ calls' = Tail(calls) /\ UNCHANGED <<ident, unlocks, list, msgs, view, fetch, loop, turns, live, gap>>
      BY DEF Serve
<1>3. /\ calls' \in Seq(StoreCalls) /\ x = calls[1] /\ 1 \in 1..Len(calls)
      /\ \A i \in 1..Len(calls') : i + 1 \in 1..Len(calls) /\ calls'[i] = calls[i + 1] /\ i + 1 # 1
      BY <1>1, <1>2, Shifted DEF ConvInv, ConvTypes
<1> HIDE DEF x
<1>4. /\ \A i \in 1..Len(calls') : /\ calls'[i].op # "list"
                                   /\ calls'[i].op = "relist" => loop.pc # "listing"
      /\ x.op = "list" => answers = <<>> /\ loop.pc = "listing"
      /\ x.op = "relist" => loop.pc # "listing"
      /\ x.op # "list" /\ loop.pc = "listing" => answers # <<>> /\ answers[1].op = "list"
      BY <1>1, <1>3 DEF ConvInv, OrderSound
<1>5. answers \in Seq(StoreAnswers)
      BY DEF ConvInv, ConvTypes
<1>6. loop.stored \subseteq Stored(ident)
      BY DEF ConvInv, SeedSound, ConvTypes
<1>7. CASE x.op = "persist" /\ UNCHANGED answers
  <2>1. ConvTypes'
        BY <1>1, <1>2, <1>3, <1>7 DEF ConvInv, ConvTypes
  <2>2. LockedSound'
        BY <1>1, <1>2, ConvRecords DEF ConvInv, LockedSound
  <2>3. OrderSound'
        BY <1>2, <1>4, <1>7 DEF ConvInv, OrderSound
  <2>4. SeedSound'
        BY <1>1, <1>2, <1>7, PagesKept DEF ConvInv, SeedSound
  <2> QED BY <2>1, <2>2, <2>3, <2>4 DEF ConvInv
<1>8. ASSUME NEW a \in StoreAnswers, answers' = Append(answers, a), a.op = x.op,
             a.op \in {"list", "relist"} => a.got = Stored(ident)
      PROVE  ConvInv'
  <2>1. /\ answers' \in Seq(StoreAnswers) /\ answers' # <<>>
        /\ \A i \in 1..Len(answers') : \/ i \in 1..Len(answers) /\ answers'[i] = answers[i]
                                       \/ i = Len(answers) + 1 /\ answers'[i] = a
        /\ answers # <<>> => answers'[1] = answers[1]
        /\ answers = <<>> => Len(answers) = 0 /\ answers'[1] = a
        BY <1>5, <1>8, Appended
  <2>2. ConvTypes'
        BY <1>1, <1>2, <1>3, <2>1 DEF ConvInv, ConvTypes
  <2>3. LockedSound'
        BY <1>1, <1>2, ConvRecords DEF ConvInv, LockedSound
  <2>4. OrderSound'
    <3>1. ASSUME NEW i \in 1..Len(answers')
          PROVE  /\ answers'[i].op = "list" => i = 1 /\ loop'.pc = "listing"
                 /\ answers'[i].op = "relist" => loop'.pc # "listing"
      <4>1. CASE i \in 1..Len(answers) /\ answers'[i] = answers[i]
            BY <1>2, <4>1 DEF ConvInv, OrderSound
      <4>2. CASE i = Len(answers) + 1 /\ answers'[i] = a
            BY <1>2, <1>4, <1>8, <2>1, <4>2
      <4> QED BY <2>1, <4>1, <4>2
    <3>2. loop'.pc = "listing" => answers'[1].op = "list"
          BY <1>2, <1>4, <1>8, <2>1
    <3> QED BY <1>2, <1>4, <2>1, <3>1, <3>2 DEF OrderSound
  <2>5. SeedSound'
    <3>1. ASSUME NEW i \in 1..Len(answers')
          PROVE  /\ answers'[i].op = "list" => answers'[i].got \subseteq Stored(ident)'
                 /\ answers'[i].op = "relist" => loop'.stored \subseteq answers'[i].got
      <4>1. CASE i \in 1..Len(answers) /\ answers'[i] = answers[i]
            BY <1>1, <1>2, <4>1 DEF ConvInv, SeedSound
      <4>2. CASE answers'[i] = a
            BY <1>1, <1>2, <1>6, <1>8, <4>2
      <4> QED BY <2>1, <4>1, <4>2
    <3>2. Empty(list)' <=> Empty(list)
          BY <1>2 DEF Empty
    <3> QED BY <1>1, <1>2, <3>1, <3>2 DEF ConvInv, SeedSound
  <2> QED BY <2>2, <2>3, <2>4, <2>5 DEF ConvInv
<1> QED BY <1>1, <1>7, <1>8

\* The first page arrives: the window begins, or there is nothing to seed.
LEMMA ListArrives == ASSUME ConvInv, Deliver, Head(answers).op = "list" PROVE ConvInv'
<1> USE ConvRecords
<1> DEFINE a == Head(answers)
           p == IF a.got = {} THEN "off" ELSE "ticking"
<1>1. /\ answers # <<>> /\ answers' = Tail(answers) /\ loop' = [loop EXCEPT !.stored = a.got, !.pc = p]
      /\ UNCHANGED <<ident, unlocks, rows, calls, list, msgs, view, fetch, turns, live, gap>>
      BY DEF Deliver
<1>2. /\ answers' \in Seq(StoreAnswers) /\ a \in StoreAnswers /\ a = answers[1] /\ 1 \in 1..Len(answers)
      /\ \A i \in 1..Len(answers') : i + 1 \in 1..Len(answers) /\ answers'[i] = answers[i + 1] /\ i + 1 # 1
      BY <1>1, Shifted DEF ConvInv, ConvTypes
<1>3. a.op = "list" /\ a.got \in SUBSET Convos /\ loop.pc = "listing" /\ a.got \subseteq Stored(ident)
      BY <1>2 DEF StoreAnswers, ConvInv, OrderSound, SeedSound
<1>4. p \in {"off", "ticking"} /\ (p = "off" => a.got = {})
      OBVIOUS
<1> HIDE DEF a, p
<1>5. /\ loop' \in [pc : {"off", "listing", "ticking", "done"}, ticks : 0..Ticks, stored : SUBSET Convos]
      /\ loop'.pc = p /\ loop'.stored = a.got /\ loop'.ticks # 0
      BY <1>1, <1>3, <1>4 DEF ConvInv, ConvTypes
<1>6. /\ \A i \in 1..Len(calls) : calls[i].op \notin {"list", "relist"}
      /\ \A i \in 1..Len(answers') : answers'[i].op \notin {"list", "relist"}
      BY <1>1, <1>2, <1>3 DEF ConvInv, OrderSound
<1>7. ConvTypes'
      BY <1>1, <1>2, <1>5 DEF ConvInv, ConvTypes
<1>8. LockedSound'
      BY <1>1 DEF ConvInv, LockedSound
<1>9. OrderSound'
      BY <1>1, <1>4, <1>5, <1>6 DEF OrderSound
<1>10. SeedSound'
  <2>1. Stored(ident)' = Stored(ident) /\ (Empty(list)' <=> Empty(list))
        BY <1>1 DEF Stored, Empty
  <2> QED BY <1>1, <1>3, <1>4, <1>5, <1>6, <2>1 DEF ConvInv, SeedSound
<1> QED BY <1>7, <1>8, <1>9, <1>10 DEF ConvInv
\* Another answer arrives: the first page came before it.
LEMMA AnswerArrives == ASSUME ConvInv, Deliver, Head(answers).op # "list" PROVE ConvInv'
<1> USE ConvRecords
<1> DEFINE a == Head(answers)
           rest == Tail(answers)
<1>1. /\ answers # <<>> /\ calls \in Seq(StoreCalls) /\ answers \in Seq(StoreAnswers)
      /\ UNCHANGED <<ident, unlocks, rows, fetch, turns, live, loop>>
      /\ answers' \in {rest, Left(rest)}
      BY DEF Deliver, ConvInv, ConvTypes
<1>2. /\ rest \in Seq(StoreAnswers) /\ a \in StoreAnswers /\ a = answers[1] /\ 1 \in 1..Len(answers)
      /\ \A i \in 1..Len(rest) : i + 1 \in 1..Len(answers) /\ rest[i] = answers[i + 1]
      BY <1>1, Shifted
<1> HIDE DEF rest
<1>3. /\ Left(rest) \in Seq(StoreAnswers)
      /\ \A i \in 1..Len(Left(rest)) : \E j \in 1..Len(rest) :
             Left(rest)[i] = rest[j] /\ (j = 1 => i = 1)
      BY <1>2, LeftSound
<1>4. /\ answers' \in Seq(StoreAnswers)
      /\ \A i \in 1..Len(answers') : \E j \in 1..Len(answers) : answers'[i] = answers[j]
  <2>1. CASE answers' = rest
        BY <1>2, <2>1
  <2>2. CASE answers' = Left(rest)
        BY <1>2, <1>3, <2>2
  <2> QED BY <1>1, <2>1, <2>2
<1>5. /\ loop.pc # "listing"
      /\ \A i \in 1..Len(calls) : calls[i].op # "list"
      /\ \A i \in 1..Len(answers) : answers[i].op # "list"
      BY <1>1, <1>2 DEF ConvInv, OrderSound
<1>6. /\ a.op \in {"hydrate", "readback"} => a.c \in Convos /\ a.got \in SUBSET (0..MaxTurns)
      /\ a.op = "relist" => a.got \in SUBSET Convos /\ loop.stored \subseteq a.got
      /\ a.c \in Convos \cup {None}
      BY <1>2 DEF StoreAnswers, ConvInv, SeedSound
<1>7. \/ a.op = "hydrate" /\ msgs' = Hydrated(a.c, a.got) /\ UNCHANGED <<calls, list, view, gap>>
      \/ /\ a.op = "fork" /\ UNCHANGED <<list, msgs, view, gap>>
         /\ calls' = IF a.c = None THEN calls ELSE Append(calls, Call("readback", a.c, 0))
      \/ /\ a.op = "readback" /\ msgs' = [msgs EXCEPT ![a.c] = a.got] /\ list' = Added(list, {a.c})
         /\ gap' = (gap \/ list = {}) /\ view' = a.c /\ calls' = Left(calls)
      \/ a.op = "import" /\ calls' = Append(calls, Call("relist", None, 0)) /\ UNCHANGED <<list, msgs, view, gap>>
      \/ /\ a.op = "relist" /\ UNCHANGED <<calls, msgs, view, gap>>
         /\ list' = IF a.got = {} THEN list ELSE Added(IF list = None THEN {} ELSE list, a.got)
      BY DEF Deliver
<1> HIDE DEF a
<1>8. calls' \in Seq(StoreCalls) /\ \A i \in 1..Len(calls') : calls'[i].op # "list"
  <2>1. ASSUME NEW y \in StoreCalls, y.op # "list", calls' = Append(calls, y)
        PROVE  calls' \in Seq(StoreCalls) /\ \A i \in 1..Len(calls') : calls'[i].op # "list"
    <3>1. /\ calls' \in Seq(StoreCalls)
          /\ \A i \in 1..Len(calls') : \/ i \in 1..Len(calls) /\ calls'[i] = calls[i]
                                       \/ i = Len(calls) + 1 /\ calls'[i] = y
          BY <1>1, <2>1, Appended
    <3> QED BY <1>5, <2>1, <3>1
  <2>2. CASE calls' = Left(calls)
    <3>1. /\ calls' \in Seq(StoreCalls)
          /\ \A i \in 1..Len(calls') : \E j \in 1..Len(calls) : calls'[i] = calls[j] /\ (j = 1 => i = 1)
          BY <1>1, <2>2, LeftSound
    <3> QED BY <1>5, <3>1
  <2>3. CASE UNCHANGED calls
        BY <1>1, <1>5, <2>3
  <2>4. /\ a.c \in Convos => /\ Call("readback", a.c, 0) \in StoreCalls
                             /\ Call("readback", a.c, 0).op # "list"
        /\ Call("relist", None, 0) \in StoreCalls /\ Call("relist", None, 0).op # "list"
        BY DEF Call, StoreCalls, StoreOps
  <2>5. \/ UNCHANGED calls \/ calls' = Left(calls)
        \/ a.c \in Convos /\ calls' = Append(calls, Call("readback", a.c, 0))
        \/ calls' = Append(calls, Call("relist", None, 0))
        BY <1>6, <1>7
  <2> QED BY <2>1, <2>2, <2>3, <2>4, <2>5
<1>9. /\ msgs' \in [Convos -> SUBSET (0..MaxTurns)] /\ view' \in Convos \cup {None} /\ gap' \in BOOLEAN
  <2>1. msgs \in [Convos -> SUBSET (0..MaxTurns)] /\ view \in Convos \cup {None} /\ gap \in BOOLEAN
        BY DEF ConvInv, ConvTypes
  <2>2. CASE a.op = "hydrate" /\ msgs' = Hydrated(a.c, a.got) /\ UNCHANGED <<calls, list, view, gap>>
        BY <1>6, <2>1, <2>2 DEF Hydrated
  <2>3. CASE /\ a.op = "readback" /\ msgs' = [msgs EXCEPT ![a.c] = a.got]
             /\ gap' = (gap \/ list = {}) /\ view' = a.c
    <3>1. gap' \in BOOLEAN
          BY <2>3
    <3> QED BY <1>6, <2>1, <2>3, <3>1
  <2>4. CASE UNCHANGED <<msgs, view, gap>>
        BY <2>1, <2>4
  <2> QED BY <1>7, <2>2, <2>3, <2>4
<1>10. /\ list' \in (SUBSET Convos) \cup {None}
       /\ ~gap' => ~gap
       /\ ~gap' => \/ UNCHANGED list
                   \/ ~Empty(list) /\ list' # None /\ list \subseteq list'
                   \/ list' # None /\ loop.stored \subseteq list'
  <2>1. list \in (SUBSET Convos) \cup {None}
        BY DEF ConvInv, ConvTypes
  <2>2. CASE UNCHANGED <<list, gap>>
        BY <2>1, <2>2
  <2>3. CASE a.op = "readback" /\ list' = Added(list, {a.c}) /\ gap' = (gap \/ list = {})
    <3>1. {a.c} \in SUBSET Convos
          BY <1>6, <2>3
    <3> QED BY <2>1, <2>3, <3>1 DEF Added, Empty
  <2>4. CASE /\ a.op = "relist" /\ UNCHANGED gap
             /\ list' = IF a.got = {} THEN list ELSE Added(IF list = None THEN {} ELSE list, a.got)
    <3> DEFINE l == IF list = None THEN {} ELSE list
    <3>1. l \in SUBSET Convos /\ l # None
          BY <2>1
    <3>2. Added(l, a.got) = l \cup a.got
          BY <3>1 DEF Added
    <3>3. l \cup a.got \in SUBSET Convos
          BY <1>6, <2>4, <3>1
    <3> HIDE DEF l
    <3>4. list' \in {list, l \cup a.got}
          BY <2>4, <3>2 DEF l
    <3> QED BY <1>6, <2>1, <2>4, <3>3, <3>4
  <2> QED BY <1>7, <2>2, <2>3, <2>4
<1>11. ConvTypes'
       BY <1>1, <1>4, <1>8, <1>9, <1>10 DEF ConvInv, ConvTypes
<1>12. LockedSound'
       BY <1>1 DEF ConvInv, LockedSound
<1>13. OrderSound'
  <2>1. \A i \in 1..Len(answers') : answers'[i].op # "list"
        BY <1>4, <1>5
  <2> QED BY <1>1, <1>5, <1>8, <2>1 DEF OrderSound
<1>14. SeedSound'
  <2>1. Stored(ident)' = Stored(ident)
        BY <1>1 DEF Stored
  <2>2. ASSUME ~gap'
        PROVE  /\ loop.pc = "ticking" => Empty(list') \/ loop.stored \subseteq list'
               /\ loop.pc = "done" => list' # None /\ loop.stored \subseteq list'
    <3>1. /\ loop.pc = "ticking" => Empty(list) \/ loop.stored \subseteq list
          /\ loop.pc = "done" => list # None /\ loop.stored \subseteq list
          BY <1>1, <1>10, <2>2 DEF ConvInv, SeedSound
    <3> QED BY <1>10, <2>2, <3>1
  <2> QED BY <1>1, <1>4, <1>5, <2>1, <2>2, PagesKept
<1> QED BY <1>11, <1>12, <1>13, <1>14 DEF ConvInv

LEMMA ConvStep == ConvInv /\ [Next]_vars => ConvInv'
<1> SUFFICES ASSUME ConvInv, [Next]_vars PROVE ConvInv'
    OBVIOUS
<1>1. CASE Next
      BY <1>1, LockingSteps, SurfaceSteps, TickKeeps, OpenKeeps, FinishKeeps, AskingSteps, ServeKeeps,
         ListArrives, AnswerArrives DEF Next
<1>2. CASE UNCHANGED vars
      BY <1>2 DEF vars, ConvInv, ConvTypes, LockedSound, OrderSound, SeedSound, Stored, Empty
<1> QED BY <1>1, <1>2

LEMMA ConvSteps == [MCNext]_allVars => [Next]_vars
  BY DEF MCNext, allVars, vars

LEMMA ConvInvariant == MCSpec => []ConvInv
<1>1. MCInit => ConvInv
      BY ConvInit DEF MCInit
<1>2. ConvInv /\ [MCNext]_allVars => ConvInv'
      BY ConvSteps, ConvStep
<1> QED BY <1>1, <1>2, PTL DEF MCSpec

(***************************************************************************)
(* useConversationList: the stub's empty answer to /api/convos does not    *)
(* cost the sidebar the history that the store listed, for every length of *)
(* the window, every number of unlocks and every interleaving of turns,    *)
(* forks and imports, unless the list was cached before the unlock, was    *)
(* filled by a turn or fork while it was the empty answer, or was emptied  *)
(* after the window: in these three cases (gap) the code shows less.       *)
(***************************************************************************)
THEOREM SidebarIsKept == MCSpec => []SidebarKept
<1>1. ConvInv => SidebarKept
  <2> SUFFICES ASSUME ConvInv PROVE SidebarKept
      OBVIOUS
  <2>1. TypeOK
        BY DEF ConvInv, ConvTypes, TypeOK
  <2>2. SeedSurvives
        BY DEF ConvInv, SeedSound, SeedSurvives
  <2> QED BY <2>1, <2>2 DEF SidebarKept
<1> QED BY <1>1, ConvInvariant, PTL

(***************************************************************************)
(* useHydrateConversation: no seed, import or late answer takes a turn out *)
(* of the messages cache; only the read-back of a fork writes it unasked.  *)
(***************************************************************************)
THEOREM LiveAlwaysWins == MCSpec => LiveWins
<1> DEFINE Wins == \A c \in Convos :
                      \/ msgs[c] \subseteq msgs'[c]
                      \/ answers # <<>> /\ Head(answers).op = "readback" /\ Head(answers).c = c
<1>1. ConvInv /\ [Next]_vars => [Wins]_vars
  <2> SUFFICES ASSUME ConvInv, Next, NEW c \in Convos
               PROVE  \/ msgs[c] \subseteq msgs'[c]
                      \/ answers # <<>> /\ Head(answers).op = "readback" /\ Head(answers).c = c
      OBVIOUS
  <2>0. msgs \in [Convos -> SUBSET (0..MaxTurns)]
        BY DEF ConvInv, ConvTypes
  <2>1. ASSUME NEW d \in Convos, Send(d) PROVE msgs[c] \subseteq msgs'[c]
        BY <2>0, <2>1 DEF Send
  <2>2. ASSUME Deliver
        PROVE  \/ msgs[c] \subseteq msgs'[c]
               \/ answers # <<>> /\ Head(answers).op = "readback" /\ Head(answers).c = c
    <3> DEFINE a == Head(answers)
    <3>1. CASE a.op = "hydrate" /\ msgs' = Hydrated(a.c, a.got)
          BY <2>0, <3>1 DEF Hydrated
    <3>2. CASE a.op = "readback" /\ answers # <<>> /\ msgs' = [msgs EXCEPT ![a.c] = a.got]
          BY <2>0, <3>2
    <3>3. CASE UNCHANGED msgs
          BY <3>3
    <3> QED BY <2>2, <3>1, <3>2, <3>3 DEF Deliver
  <2>3. CASE UNCHANGED msgs
        BY <2>3
  <2> QED BY <2>1, <2>2, <2>3 DEF Next, Unlock, Lock, Mount, FetchReturns, Tick, Open, Finish, Fork, Import, Serve
<1>2. MCSpec => [][Wins]_vars
      BY <1>1, ConvSteps, ConvInvariant, PTL DEF MCSpec
<1> QED BY <1>2 DEF LiveWins

-----------------------------------------------------------------------------
(***************************************************************************)
(* The library.  First, sequences: what is in them, what comes later, and  *)
(* that they hold at most one element of a set.                            *)
(***************************************************************************)
Els(s) == {s[n] : n \in 1..Len(s)}
Later(s, p) == {s[n] : n \in (p + 1)..Len(s)}
Reads(s) == {<<s[p], Later(s, p)>> : p \in 1..Len(s)}
Once(K, s) == \A m, n \in 1..Len(s) : s[m] \in K /\ s[n] \in K => m = n

LEMMA NoEls == ASSUME NEW K PROVE Els(<<>>) = {} /\ Reads(<<>>) = {} /\ Once(K, <<>>)
  BY DEF Els, Reads, Once

LEMMA ElsOf == ASSUME NEW S, NEW s \in Seq(S) PROVE Els(s) \subseteq S /\ Range(s) = Els(s)
  BY DEF Els, Range

\* What is read of q, when q is s and then e.
Longer(q, s, e) ==
    \A r \in Reads(q) : r = <<e, {}>> \/ \E R : <<r[1], R>> \in Reads(s) /\ r = <<r[1], R \cup {e}>>

LEMMA AppendEls ==
    ASSUME NEW S, NEW s \in Seq(S), NEW e \in S
    PROVE  /\ Append(s, e) \in Seq(S)
           /\ Els(Append(s, e)) = Els(s) \cup {e}
           /\ Longer(Append(s, e), s, e)
<1> DEFINE q == Append(s, e)
           k == Len(s)
           l == k + 1
<1>1. /\ q \in Seq(S) /\ Len(q) = l /\ k \in Nat /\ q[l] = e
      /\ \A n \in 1..k : q[n] = s[n]
      OBVIOUS
<1>2. /\ \A n \in 1..l : n = l \/ n \in 1..k
      /\ \A n \in 1..k : n \in 1..l
      /\ l \in 1..l
      BY <1>1
<1>3. (l + 1)..l = {} /\ \A p \in 1..k : l \in (p + 1)..l /\ (p + 1)..k \subseteq 1..k
                        /\ (p + 1)..l = ((p + 1)..k) \cup {l}
      BY <1>1
<1> HIDE DEF q, k, l
<1>4. Els(q) = Els(s) \cup {e}
      BY <1>1, <1>2 DEF Els, k
<1>5. Later(q, l) = {}
      BY <1>1, <1>3 DEF Later
<1>6. ASSUME NEW p \in 1..k PROVE Later(q, p) = Later(s, p) \cup {e}
  <2>1. Later(s, p) = {s[n] : n \in (p + 1)..k}
        BY DEF Later, k
  <2>2. Later(q, p) = {q[n] : n \in ((p + 1)..k) \cup {l}}
        BY <1>1, <1>3 DEF Later
  <2>3. \A n \in (p + 1)..k : q[n] = s[n]
        BY <1>1, <1>3
  <2> QED BY <1>1, <2>1, <2>2, <2>3
<1>7. ASSUME NEW r \in Reads(q)
      PROVE  r = <<e, {}>> \/ \E R : <<r[1], R>> \in Reads(s) /\ r = <<r[1], R \cup {e}>>
  <2>1. PICK p \in 1..l : r = <<q[p], Later(q, p)>>
        BY <1>1 DEF Reads
  <2>2. CASE p = l
        BY <1>1, <1>5, <2>1, <2>2
  <2>3. CASE p \in 1..k
    <3>1. r = <<s[p], Later(s, p) \cup {e}>> /\ r[1] = s[p]
          BY <1>1, <1>6, <2>1, <2>3
    <3>2. <<s[p], Later(s, p)>> \in Reads(s)
          BY <2>3 DEF Reads, k
    <3> QED BY <3>1, <3>2
  <2> QED BY <1>2, <2>1, <2>2, <2>3
<1>8. Longer(q, s, e)
      BY <1>7 DEF Longer
<1> QED BY <1>1, <1>4, <1>8 DEF q

LEMMA TailEls ==
    ASSUME NEW S, NEW s \in Seq(S), s # <<>>
    PROVE  /\ Head(s) \in S /\ Tail(s) \in Seq(S)
           /\ Els(s) = {Head(s)} \cup Els(Tail(s))
           /\ Reads(Tail(s)) \subseteq Reads(s)
           /\ <<Head(s), Els(Tail(s))>> \in Reads(s)
<1> DEFINE q == Tail(s)
           k == Len(q)
           l == Len(s)
<1>1. /\ q \in Seq(S) /\ k \in Nat /\ l \in Nat /\ l = k + 1 /\ Head(s) = s[1] /\ Head(s) \in S
      /\ \A n \in 1..k : q[n] = s[n + 1]
      OBVIOUS
<1>2. /\ 1 \in 1..l /\ \A n \in 1..k : n + 1 \in 1..l
      /\ \A n \in 1..l : n = 1 \/ (n - 1 \in 1..k /\ (n - 1) + 1 = n)
      /\ \A p \in 1..k : \A n \in (p + 1)..k : n \in 1..k /\ n + 1 \in ((p + 1) + 1)..l
      /\ \A p \in 1..k : \A n \in ((p + 1) + 1)..l : n - 1 \in (p + 1)..k /\ n - 1 \in 1..k /\ (n - 1) + 1 = n
      /\ \A n \in (1 + 1)..l : n - 1 \in 1..k /\ (n - 1) + 1 = n
      /\ \A n \in 1..k : n + 1 \in (1 + 1)..l
      BY <1>1
<1> HIDE DEF q, k, l
<1>3. Els(s) = {Head(s)} \cup Els(q)
  <2>1. Els(s) \subseteq {Head(s)} \cup Els(q)
    <3> SUFFICES ASSUME NEW n \in 1..l PROVE s[n] \in {Head(s)} \cup Els(q)
        BY DEF Els, l
    <3>1. CASE n = 1
          BY <1>1, <3>1
    <3>2. CASE n # 1
      <4>1. n - 1 \in 1..k /\ q[n - 1] = s[n]
            BY <1>1, <1>2, <3>2
      <4> QED BY <4>1 DEF Els, k
    <3> QED BY <3>1, <3>2
  <2>2. Head(s) \in Els(s)
        BY <1>1, <1>2 DEF Els, l
  <2>3. Els(q) \subseteq Els(s)
        BY <1>1, <1>2 DEF Els, l, k
  <2> QED BY <2>1, <2>2, <2>3
<1>4. Later(s, 1) = Els(q)
  <2>1. ASSUME NEW n \in (1 + 1)..l PROVE s[n] \in Els(q)
    <3>1. n - 1 \in 1..k /\ q[n - 1] = s[n]
          BY <1>1, <1>2
    <3> QED BY <3>1 DEF Els, k
  <2>2. ASSUME NEW n \in 1..k PROVE q[n] \in Later(s, 1)
    <3>1. n + 1 \in (1 + 1)..l /\ q[n] = s[n + 1]
          BY <1>1, <1>2
    <3> QED BY <3>1 DEF Later, l
  <2> QED BY <2>1, <2>2 DEF Later, Els, k, l
<1>5. ASSUME NEW p \in 1..k PROVE Later(q, p) = Later(s, p + 1)
  <2>1. ASSUME NEW n \in (p + 1)..k PROVE q[n] \in Later(s, p + 1)
    <3>1. n + 1 \in ((p + 1) + 1)..l /\ q[n] = s[n + 1]
          BY <1>1, <1>2
    <3> QED BY <3>1 DEF Later, l
  <2>2. ASSUME NEW n \in ((p + 1) + 1)..l PROVE s[n] \in Later(q, p)
    <3>1. n - 1 \in (p + 1)..k /\ q[n - 1] = s[n]
          BY <1>1, <1>2
    <3> QED BY <3>1 DEF Later, k
  <2> QED BY <2>1, <2>2 DEF Later, k, l
<1>6. ASSUME NEW p \in 1..k PROVE <<q[p], Later(q, p)>> \in Reads(s)
  <2>1. p + 1 \in 1..l /\ q[p] = s[p + 1]
        BY <1>1, <1>2
  <2> QED BY <1>5, <2>1 DEF Reads, l
<1>7. Reads(q) \subseteq Reads(s)
      BY <1>6 DEF Reads, k
<1>8. <<Head(s), Els(q)>> \in Reads(s)
      BY <1>1, <1>2, <1>4 DEF Reads, l
<1> QED BY <1>1, <1>3, <1>7, <1>8 DEF q

LEMMA ReadEls ==
    ASSUME NEW S, NEW s \in Seq(S), NEW r \in Reads(s)
    PROVE  r = <<r[1], r[2]>> /\ r[1] \in Els(s) /\ r[2] \subseteq Els(s)
<1>1. PICK p \in 1..Len(s) : r = <<s[p], Later(s, p)>>
      BY DEF Reads
<1>2. \A n \in (p + 1)..Len(s) : n \in 1..Len(s)
      OBVIOUS
<1> QED BY <1>1, <1>2 DEF Els, Later

LEMMA OnceAppend ==
    ASSUME NEW S, NEW K, NEW s \in Seq(S), NEW e \in S, Once(K, s), e \notin K \/ Els(s) \cap K = {}
    PROVE  Once(K, Append(s, e))
<1> DEFINE q == Append(s, e)
           k == Len(s)
           l == k + 1
<1>1. Len(q) = l /\ q[l] = e /\ \A n \in 1..k : q[n] = s[n]
      OBVIOUS
<1>2. \A n \in 1..l : n = l \/ n \in 1..k
      OBVIOUS
<1> HIDE DEF q, l
<1>3. SUFFICES ASSUME NEW m \in 1..l, NEW n \in 1..l, q[m] \in K, q[n] \in K PROVE m = n
      BY <1>1 DEF Once, q
<1>4. \A j \in 1..k : s[j] \in Els(s)
      BY DEF Els
<1> HIDE DEF k
<1>5. CASE m \in 1..k /\ n \in 1..k
      BY <1>1, <1>3, <1>5 DEF Once, k
<1>6. CASE m = l /\ n \in 1..k
      BY <1>1, <1>3, <1>4, <1>6
<1>7. CASE n = l /\ m \in 1..k
      BY <1>1, <1>3, <1>4, <1>7
<1> QED BY <1>2, <1>5, <1>6, <1>7

LEMMA OnceTail ==
    ASSUME NEW S, NEW K, NEW s \in Seq(S), s # <<>>, Once(K, s)
    PROVE  /\ Once(K, Tail(s))
           /\ Head(s) \in K => Els(Tail(s)) \cap K = {}
<1> DEFINE q == Tail(s)
           k == Len(q)
<1>1. /\ k \in Nat /\ Len(s) = k + 1 /\ Head(s) = s[1] /\ 1 \in 1..Len(s)
      /\ \A n \in 1..k : q[n] = s[n + 1] /\ n + 1 \in 1..Len(s) /\ n + 1 # 1
      OBVIOUS
<1> HIDE DEF q, k
<1>2. Once(K, q)
  <2> SUFFICES ASSUME NEW m \in 1..k, NEW n \in 1..k, q[m] \in K, q[n] \in K PROVE m = n
      BY DEF Once, k
  <2>1. m + 1 = n + 1
        BY <1>1 DEF Once
  <2> QED BY <2>1
<1>3. ASSUME Head(s) \in K, NEW n \in 1..k, q[n] \in K PROVE FALSE
      BY <1>1, <1>3 DEF Once
<1> QED BY <1>2, <1>3 DEF q, k, Els

\* One put in front.
LEMMA ConsEls ==
    ASSUME NEW S, NEW s \in Seq(S), NEW e \in S
    PROVE  /\ <<e>> \o s \in Seq(S)
           /\ Els(<<e>> \o s) = {e} \cup Els(s)
           /\ \A K : Once(K, s) /\ (e \notin K \/ Els(s) \cap K = {}) => Once(K, <<e>> \o s)
<1> DEFINE q == <<e>> \o s
           k == Len(s)
           l == k + 1
<1>1. /\ q \in Seq(S) /\ Len(q) = l /\ q[1] = e /\ k \in Nat
      OBVIOUS
<1>a. \A n \in 1..k : q[n + 1] = s[n] /\ n + 1 \in 1..l /\ n + 1 # 1
      OBVIOUS
<1>2. /\ \A n \in 1..l : n = 1 \/ (n - 1 \in 1..k /\ n = (n - 1) + 1)
      /\ 1 \in 1..l
      OBVIOUS
<1> HIDE DEF q, l
<1>3. \A n \in 1..l : n = 1 \/ (n - 1 \in 1..k /\ q[n] = s[n - 1])
      BY <1>a, <1>2
<1>4. Els(q) = {e} \cup Els(s)
  <2> HIDE DEF k
  <2>1. Els(q) = {q[n] : n \in 1..l}
        BY <1>1 DEF Els
  <2>2. Els(s) = {s[n] : n \in 1..k}
        BY DEF Els, k
  <2> QED BY <1>1, <1>a, <1>2, <1>3, <2>1, <2>2
<1>5. ASSUME NEW K, Once(K, s), e \notin K \/ Els(s) \cap K = {} PROVE Once(K, q)
  <2>1. SUFFICES ASSUME NEW m \in 1..l, NEW n \in 1..l, q[m] \in K, q[n] \in K PROVE m = n
        BY <1>1 DEF Once
  <2>2. \A j \in 1..k : s[j] \in Els(s)
        BY DEF Els
  <2>3. CASE m # 1 /\ n # 1
    <3>1. m - 1 = n - 1
          BY <1>3, <1>5, <2>1, <2>3 DEF Once
    <3> QED BY <1>2, <2>3, <3>1
  <2>4. CASE m = 1 /\ n # 1
        BY <1>1, <1>3, <1>5, <2>1, <2>2, <2>4
  <2>5. CASE n = 1 /\ m # 1
        BY <1>1, <1>3, <1>5, <2>1, <2>2, <2>5
  <2> QED BY <2>3, <2>4, <2>5
<1> QED BY <1>1, <1>4, <1>5 DEF q
-----------------------------------------------------------------------------
\* Induction: a statement that fails for a number fails for a least one.
LEMMA Least ==
    ASSUME NEW T \in SUBSET Nat, T # {}
    PROVE  \E x \in T : \A y \in T : x <= y
<1> DEFINE R == {ss \in Nat \X Nat : ss[1] < ss[2]}
<1>1. IsWellFoundedOn(R, Nat)
      BY NatLessThanWellFounded DEF OpToRel
<1> HIDE DEF R
<1>2. \E x \in T : \A y \in T : ~ (<<y, x>> \in R)
      BY <1>1, WFMin
<1>3. \A x, y \in Nat : ~(<<y, x>> \in R) => x <= y
      BY DEF R
<1> QED BY <1>2, <1>3

LEMMA FirstFailure ==
    ASSUME NEW T \in SUBSET Nat, 0 \notin T, \A n \in Nat : n \notin T => n + 1 \notin T
    PROVE  T = {}
<1> SUFFICES ASSUME T # {} PROVE FALSE
    OBVIOUS
<1>1. PICK m \in T : \A y \in T : m <= y
      BY Least
<1>2. m \in Nat /\ m # 0 /\ m - 1 \in Nat /\ (m - 1) + 1 = m /\ ~(m <= m - 1)
      BY <1>1
<1>3. m - 1 \notin T
      BY <1>1, <1>2
<1> QED BY <1>1, <1>2, <1>3

\* A recursive function on the numbers up to m exists, if every step stays in one set.
Iterated(f, m, a, G) == f = [n \in 0..m |-> IF n = 0 THEN a ELSE G[n][f[n - 1]]]

LEMMA Iterates ==
    ASSUME NEW S, NEW a \in S, NEW m \in Nat, NEW G \in [1..m -> [S -> S]]
    PROVE  \E f \in [0..m -> S] : Iterated(f, m, a, G)
<1> DEFINE T == {k \in Nat : k <= m /\ ~\E f \in [0..k -> S] : Iterated(f, k, a, G)}
<1>1. 0 \notin T
  <2> DEFINE f == [n \in 0..0 |-> a]
  <2>1. f = [n \in 0..0 |-> IF n = 0 THEN a ELSE G[n][f[n - 1]]] /\ f \in [0..0 -> S]
        OBVIOUS
  <2> HIDE DEF f
  <2>2. Iterated(f, 0, a, G)
        BY <2>1 DEF Iterated
  <2> QED BY <2>1, <2>2
<1>2. ASSUME NEW k \in Nat, k \notin T PROVE k + 1 \notin T
  <2> SUFFICES ASSUME k + 1 <= m PROVE \E f \in [0..(k + 1) -> S] : Iterated(f, k + 1, a, G)
      OBVIOUS
  <2>1. PICK f \in [0..k -> S] : Iterated(f, k, a, G)
    <3>1. k <= m
          OBVIOUS
    <3> QED BY <1>2, <3>1
  <2>2. \A n \in 0..k : f[n] = (IF n = 0 THEN a ELSE G[n][f[n - 1]]) /\ f[n] \in S
        BY <2>1 DEF Iterated
  <2> DEFINE x == G[k + 1][f[k]]
             g == [n \in 0..(k + 1) |-> IF n = k + 1 THEN x ELSE f[n]]
             h == [n \in 0..(k + 1) |-> IF n = 0 THEN a ELSE G[n][g[n - 1]]]
  <2>3. x \in S
    <3>1. k + 1 \in 1..m /\ k \in 0..k
          OBVIOUS
    <3>2. G[k + 1] \in [S -> S] /\ f[k] \in S
          BY <2>2, <3>1
    <3> QED BY <3>2
  <2>4. ASSUME NEW n \in 0..(k + 1) PROVE g[n] = h[n] /\ g[n] \in S
    <3>1. CASE n = k + 1
      <4>1. n # 0 /\ n - 1 = k /\ k \in 0..(k + 1) /\ k # k + 1
            BY <3>1
      <4>2. g[n - 1] = f[k]
            BY <4>1
      <4>3. g[n] = x
            BY <3>1
      <4>4. h[n] = G[n][g[n - 1]]
            BY <4>1
      <4> QED BY <2>3, <3>1, <4>2, <4>3, <4>4
    <3>2. CASE n # k + 1
      <4>1. n \in 0..k /\ g[n] = f[n]
            BY <3>2
      <4>2. CASE n = 0
            BY <2>2, <4>1, <4>2
      <4>3. CASE n # 0
        <5>1. n - 1 \in 0..k /\ n - 1 \in 0..(k + 1) /\ n - 1 # k + 1
              BY <4>1, <4>3
        <5>2. g[n - 1] = f[n - 1]
              BY <5>1
        <5>3. h[n] = G[n][g[n - 1]]
              BY <4>3
        <5> QED BY <2>2, <4>1, <4>3, <5>2, <5>3
      <4> QED BY <4>2, <4>3
    <3> QED BY <3>1, <3>2
  <2> HIDE DEF x
  <2>5. g = h /\ g \in [0..(k + 1) -> S]
    <3>1. g = [n \in 0..(k + 1) |-> g[n]] /\ h = [n \in 0..(k + 1) |-> h[n]]
          OBVIOUS
    <3> HIDE DEF g, h
    <3> QED BY <2>4, <3>1
  <2>6. Iterated(g, k + 1, a, G)
    <3> HIDE DEF g
    <3> QED BY <2>5 DEF Iterated
  <2> HIDE DEF g
  <2> QED BY <2>5, <2>6
<1>3. T = {}
  <2> HIDE DEF T
  <2>1. T \in SUBSET Nat
        BY DEF T
  <2> QED BY <1>1, <1>2, <2>1, FirstFailure
<1> QED BY <1>3

\* What is kept of a sequence.
LEMMA KeptEls ==
    ASSUME NEW S, NEW s \in Seq(S), NEW K
    PROVE  /\ Library!Kept(s, K) \in Seq(S)
           /\ Els(Library!Kept(s, K)) = Els(s) \cap K
           /\ \A J : Once(J, s) => Once(J, Library!Kept(s, K))
<1> DEFINE N == Len(s)
           grow(n, t) == IF s[n] \in K THEN Append(t, s[n]) ELSE t
           Eq(f) == f = [n \in 0..N |-> IF n = 0 THEN <<>> ELSE grow(n, f[n - 1])]
           kept == CHOOSE f : Eq(f)
<1>1. Library!Kept(s, K) = kept[N]
      BY DEF Library!Kept
<1>2. N \in Nat /\ \A n \in 1..N : s[n] \in S
      OBVIOUS
<1>3. <<>> \in Seq(S)
      OBVIOUS
<1>4. ASSUME NEW n \in 1..N, NEW t \in Seq(S) PROVE grow(n, t) \in Seq(S)
      BY <1>2
<1> HIDE DEF N, grow
<1>5. \E f : Eq(f)
  <2> DEFINE G == [n \in 1..N |-> [t \in Seq(S) |-> grow(n, t)]]
             e == <<>>
  <2>1. G \in [1..N -> [Seq(S) -> Seq(S)]]
        BY <1>4
  <2>2. \A n \in 1..N : \A t \in Seq(S) : G[n][t] = grow(n, t)
        OBVIOUS
  <2> HIDE DEF G, e
  <2>a. e \in Seq(S)
        BY <1>3 DEF e
  <2>3. PICK f \in [0..N -> Seq(S)] : Iterated(f, N, e, G)
        BY <1>2, <2>1, <2>a, Iterates
  <2>4. f = [n \in 0..N |-> IF n = 0 THEN e ELSE G[n][f[n - 1]]]
        BY <2>3 DEF Iterated
  <2>5. \A n \in 0..N : n # 0 => n \in 1..N /\ n - 1 \in 0..N
        BY <1>2
  <2>6. \A n \in 0..N : (IF n = 0 THEN e ELSE G[n][f[n - 1]]) = (IF n = 0 THEN e ELSE grow(n, f[n - 1]))
        BY <2>2, <2>3, <2>5
  <2>7. f = [n \in 0..N |-> IF n = 0 THEN e ELSE grow(n, f[n - 1])]
        BY <2>4, <2>6
  <2> QED BY <2>7 DEF e
<1>6. Eq(kept)
      BY <1>5
<1> HIDE DEF kept
<1>7. kept[0] = <<>> /\ \A n \in 1..N : kept[n] = grow(n, kept[n - 1])
  <2>1. 0 \in 0..N /\ \A n \in 1..N : n \in 0..N /\ n # 0
        BY <1>2
  <2> QED BY <1>6, <2>1
<1>8. ASSUME NEW J, Once(J, s)
      PROVE  kept[N] \in Seq(S) /\ Els(kept[N]) = Els(s) \cap K /\ Once(J, kept[N])
  <2> DEFINE Good(n) == /\ kept[n] \in Seq(S) /\ Els(kept[n]) = {s[m] : m \in 1..n} \cap K
                        /\ Once(J, kept[n])
             T == {n \in Nat : n <= N /\ ~Good(n)}
  <2>1. 0 \notin T
    <3>1. 1..0 = {}
          OBVIOUS
    <3>2. Good(0)
          BY <1>3, <1>7, <3>1, NoEls
    <3> QED BY <3>2
  <2>2. ASSUME NEW n \in Nat, n \notin T PROVE n + 1 \notin T
    <3> SUFFICES ASSUME n + 1 <= N PROVE Good(n + 1)
        OBVIOUS
    <3> DEFINE p == n + 1
               t == kept[n]
    <3>1. /\ p \in 1..N /\ p - 1 = n /\ n <= N /\ 1..p = (1..n) \cup {p} /\ p \notin 1..n
          /\ \A m \in 1..n : m \in 1..N
          BY <1>2
    <3>2. Good(n)
          BY <2>2, <3>1
    <3>3. kept[p] = IF s[p] \in K THEN Append(t, s[p]) ELSE t
          BY <1>7, <3>1 DEF grow
    <3>4. {s[m] : m \in 1..p} = {s[m] : m \in 1..n} \cup {s[p]}
          BY <3>1
    <3> HIDE DEF p
    <3>5. CASE s[p] \in K
      <4>1. s[p] \notin J \/ Els(t) \cap J = {}
        <5>1. ASSUME NEW m \in 1..n, s[m] \in J, s[p] \in J PROVE FALSE
          <6>1. m = p
                BY <1>8, <3>1, <5>1 DEF Once, N
          <6> QED BY <3>1, <6>1
        <5> QED BY <3>2, <5>1
      <4>2. t \in Seq(S) /\ s[p] \in S /\ Once(J, t)
            BY <1>2, <3>1, <3>2
      <4> HIDE DEF t
      <4>3. Append(t, s[p]) \in Seq(S) /\ Els(Append(t, s[p])) = Els(t) \cup {s[p]}
            BY <4>2, AppendEls
      <4>4. Once(J, Append(t, s[p]))
            BY <4>1, <4>2, OnceAppend
      <4>5. Els(t) = {s[m] : m \in 1..n} \cap K
            BY <3>2 DEF t
      <4>6. Els(kept[p]) = {s[m] : m \in 1..p} \cap K
            BY <3>3, <3>4, <3>5, <4>3, <4>5
      <4> QED BY <3>3, <3>5, <4>3, <4>4, <4>6 DEF p
    <3>6. CASE s[p] \notin K
      <4>1. {s[m] : m \in 1..p} \cap K = {s[m] : m \in 1..n} \cap K
            BY <3>4, <3>6
      <4>2. kept[p] = t
            BY <3>3, <3>6
      <4> QED BY <3>2, <4>1, <4>2 DEF p
    <3> QED BY <3>5, <3>6
  <2>3. T = {}
    <3> HIDE DEF T
    <3>1. T \in SUBSET Nat
          BY DEF T
    <3> QED BY <2>1, <2>2, <3>1, FirstFailure
  <2>4. Good(N)
    <3> HIDE DEF Good
    <3>1. N \notin T /\ N \in Nat /\ N <= N
          BY <1>2, <2>3
    <3> QED BY <3>1
  <2> QED BY <2>4 DEF Els, N
<1>9. Once({}, s)
      BY DEF Once
<1> QED BY <1>1, <1>8, <1>9

-----------------------------------------------------------------------------
(***************************************************************************)
(* The inductive invariant.                                                *)
(***************************************************************************)
Rows == [Fields -> Nat]
Maybe == Rows \cup {None}
Items == [id : Ids, row : Rows]

CallSet ==
    [op : {"list", "detail", "get", "put", "del"}, k : Ids \cup {None}, id : Ids \cup {None},
     row : Rows, fields : SUBSET Fields, was : Ids \cup {None}]
AnswerSet ==
    [op : {"list", "detail", "get", "put", "del"}, k : Ids \cup {None}, id : Ids \cup {None},
     row : Rows, fields : SUBSET Fields, was : Ids \cup {None}, got : Maybe \cup Seq(Items)]

\* Only memories are renamed; only agents are read by themselves.
Fit(x) ==
    /\ x.op # "list" => x.id \in Ids
    /\ x.was # None => x.op = "put" /\ panel = "memories"
    /\ x.op \in {"detail", "get"} => Library!OfAgents
Fits(a) ==
    /\ Fit(a)
    /\ a.op = "list" => a.got \in Seq(Items)
    /\ a.op \in {"get", "detail"} => a.got \in Maybe

LibTypes ==
    /\ lident \in Seeds \cup {None} /\ lopen \in BOOLEAN /\ (lident = None => ~lopen)
    /\ ~lopen => lcalls = <<>> /\ lanswers = <<>>
    /\ lrows \in [Seeds -> [Ids -> Maybe]] /\ wanted \in [Seeds -> [Ids -> Maybe]]
    /\ lcalls \in Seq(CallSet) /\ \A x \in Els(lcalls) : Fit(x)
    /\ lanswers \in Seq(AnswerSet) /\ \A a \in Els(lanswers) : Fits(a)
    /\ lfetch \in {"none", "wait", "lost", "asked"} /\ (lfetch = "asked" => lopen)
    /\ llist \in Seq(Items) \cup {None} /\ lseen \in BOOLEAN
    /\ lseen => llist \in Seq(Items) /\ lident # None
    /\ detail \in [Ids -> Maybe] /\ (~Library!OfAgents => \A i \in Ids : detail[i] = None)
    /\ active \in Ids \cup {None} /\ (panel # "skills" => active = None)
    /\ edits \in 0..MaxEdits /\ lunlocks \in 0..MaxUnlocks /\ crossed \in SUBSET Ids

\* At most one mutation of i is under way.
CallsOn(i) == {x \in CallSet : Library!Mutates(x, i)}
AnswersOn(i) == {a \in AnswerSet : Library!Mutates(a, i)}
Alone(i) ==
    /\ Once(CallsOn(i), lcalls) /\ Once(AnswersOn(i), lanswers)
    /\ Els(lcalls) \cap CallsOn(i) = {} \/ Els(lanswers) \cap AnswersOn(i) = {}

\* What i will be when x is served, if it is v now.
Due(x, i, v) ==
    IF x.op = "get" THEN Library!Merged(v, x)
    ELSE IF x.op = "put" /\ x.id = i THEN x.row ELSE None

Mine(i) == lrows[lident][i]
Want(i) == wanted[lident][i]

\* What was asked for is stored, or is what the mutation under way makes of what is stored.
CallWants(x, i) ==
    /\ Want(i) = Due(x, i, Mine(i))
    /\ x.op = "get" => x.fields # {}
    /\ Library!OfAgents /\ x.op \in {"get", "put"} => (x.fields = {} <=> Mine(i) = None)
AnswerWants(a, i) ==
    IF a.op = "get" THEN /\ a.fields # {} /\ a.got # None /\ Mine(i) = a.got
                         /\ Want(i) = Library!Merged(a.got, a)
    ELSE Want(i) = Mine(i) /\ Mine(i) = Due(a, i, None)
Settled(i) == \A x \in Els(lcalls) \cup Els(lanswers) : ~Library!Mutates(x, i)
Wants(i) ==
    /\ Settled(i) => Mine(i) = Want(i)
    /\ \A x \in Els(lcalls) : Library!Mutates(x, i) => CallWants(x, i)
    /\ \A a \in Els(lanswers) : Library!Mutates(a, i) => AnswerWants(a, i)
Apart(i) == \A s \in Seeds \ {lident} : lrows[s][i] = wanted[s][i]

\* The list l shows i as v, and once.
Has(l, i) == \E e \in Els(l) : e.id = i
Single(l, i) == Once({e \in Items : e.id = i}, l)
ShowsAs(l, i, v) ==
    /\ Single(l, i)
    /\ v = None => ~Has(l, i)
    /\ v # None => Library!Item(i, v) \in Els(l)
Shows(l) == \A i \in Ids : ShowsAs(l, i, Mine(i))

\* A list with the answers R after it: it shows i as it is stored, or one of them will patch it.
Changes(a, i) == a.op \in {"put", "del"} /\ a.id = i
Base(l, i, R) ==
    /\ (\A a \in R : ~Changes(a, i)) => ShowsAs(l, i, Mine(i))
    /\ \A a \in R : Changes(a, i) => Single(l, i) /\ (a.op = "put" => (a.fields = {} <=> ~Has(l, i)))
AgentLists(i) ==
    panel = "agents" =>
        /\ lseen => Base(llist, i, Els(lanswers))
        /\ \A r \in Reads(lanswers) : r[1].op = "list" => Base(r[1].got, i, r[2])

\* A list of memories or skills shows the table, or will be read again.
ReadLists ==
    ~Library!OfAgents /\ lident # None =>
        /\ lseen => \/ Shows(llist)
                    \/ \E a \in Els(lanswers) : a.op \in {"put", "del", "list"}
                    \/ \E x \in Els(lcalls) : x.op = "list"
        /\ \A r \in Reads(lanswers) : r[1].op = "list" =>
               Shows(r[1].got) \/ \E a \in r[2] : a.op \in {"put", "del"}

\* A single agent is as some seed stores it, or an answer will replace it.
InStore(i, v) == \E s \in Seeds : lrows[s][i] = v
Replaces(a, i) == a.id = i /\ (a.op = "del" \/ (a.op = "put" /\ a.fields # {}))
Known(v, i, R) == v = None \/ InStore(i, v) \/ \E a \in R : Replaces(a, i)
Details(i) ==
    Library!OfAgents =>
        /\ Known(detail[i], i, Els(lanswers))
        /\ \A r \in Reads(lanswers) : r[1].op = "detail" /\ r[1].id = i => Known(r[1].got, i, r[2])

\* The active skill is stored, or about to be, or about to be taken down.
Removal(x, i) == x.op = "del" /\ x.id = i
Chosen(i) ==
    active = i =>
        /\ \/ \E s \in Seeds : lrows[s][i] # None
           \/ \E x \in Els(lcalls) : x.op = "put" /\ x.id = i
           \/ \E a \in Els(lanswers) : Removal(a, i)
        /\ \A x \in Els(lcalls) : Removal(x, i) => x.k = i
        /\ \A a \in Els(lanswers) : Removal(a, i) => a.k = i

PerId(i) ==
    /\ Alone(i) /\ Apart(i) /\ Details(i) /\ Chosen(i)
    /\ lident # None => Wants(i) /\ AgentLists(i)

LibInv == LibTypes /\ ReadLists /\ \A i \in Ids \ crossed : PerId(i)

-----------------------------------------------------------------------------
\* Who is busy.
LEMMA BusyIs ==
    ASSUME LibTypes, NEW i
    PROVE  Library!Busy(i) <=> ~Settled(i)
<1> DEFINE S == CallSet \cup AnswerSet
           q == lcalls \o lanswers
<1>1. lcalls \in Seq(S) /\ lanswers \in Seq(S)
      BY DEF LibTypes
<1> HIDE DEF S
<1>2. /\ q \in Seq(S) /\ Len(q) = Len(lcalls) + Len(lanswers)
      /\ \A n \in 1..Len(lcalls) : q[n] = lcalls[n] /\ n \in 1..Len(q)
      /\ \A n \in 1..Len(lanswers) : n + Len(lcalls) \in 1..Len(q)
      /\ \A n \in 1..Len(q) : n \in 1..Len(lcalls) \/ (n - Len(lcalls) \in 1..Len(lanswers) /\ n = (n - Len(lcalls)) + Len(lcalls))
      BY <1>1
<1>3. \A n \in 1..Len(lanswers) : q[n + Len(lcalls)] = lanswers[n]
      BY <1>1
<1> HIDE DEF q
<1>4. Els(q) = Els(lcalls) \cup Els(lanswers)
  <2>1. Els(q) \subseteq Els(lcalls) \cup Els(lanswers)
    <3> SUFFICES ASSUME NEW n \in 1..Len(q) PROVE q[n] \in Els(lcalls) \cup Els(lanswers)
        BY DEF Els
    <3>1. CASE n \in 1..Len(lcalls)
          BY <1>2, <3>1 DEF Els
    <3>2. CASE n \notin 1..Len(lcalls)
      <4>1. n - Len(lcalls) \in 1..Len(lanswers) /\ n = (n - Len(lcalls)) + Len(lcalls)
            BY <1>2, <3>2
      <4>2. q[n] = lanswers[n - Len(lcalls)]
            BY <1>3, <4>1
      <4> QED BY <4>1, <4>2 DEF Els
    <3> QED BY <3>1, <3>2
  <2>2. Els(lcalls) \subseteq Els(q)
        BY <1>2 DEF Els
  <2>3. Els(lanswers) \subseteq Els(q)
        BY <1>2, <1>3 DEF Els
  <2> QED BY <2>1, <2>2, <2>3
<1>5. Range(q) = Els(q)
      BY <1>2, ElsOf
<1> QED BY <1>4, <1>5 DEF Library!Busy, Library!Range, Range, q, Settled

\* A list that shows every id, each once, is the table.
LEMMA ShowsTable ==
    ASSUME LibTypes, lident \in Seeds, NEW l \in Seq(Items), Shows(l)
    PROVE  Range(l) = Library!Table(lident) /\ Len(l) = Cardinality(Library!Table(lident))
<1> DEFINE T == Library!Table(lident)
<1> USE LibraryAssumption
<1>1. /\ Range(l) = Els(l) /\ Els(l) \subseteq Items
      BY ElsOf
<1>2. T = {Library!Item(i, Mine(i)) : i \in {j \in Ids : Mine(j) # None}}
      BY DEF Library!Table, Mine
<1>3. \A e \in Items : e = Library!Item(e.id, e.row) /\ e.id \in Ids
      BY DEF Items, Library!Item
<1>4. \A i \in Ids : Mine(i) \in Maybe
      BY DEF LibTypes, Mine
<1>5. \A i \in Ids : \A v \in Rows : Library!Item(i, v) \in Items /\ Library!Item(i, v).id = i
      BY DEF Library!Item, Items
<1>6. ASSUME NEW m \in 1..Len(l), NEW n \in 1..Len(l), l[m].id = l[n].id PROVE m = n
  <2>1. l[m] \in Items /\ l[n] \in Items
        OBVIOUS
  <2>2. Single(l, l[m].id)
        BY <1>3, <2>1 DEF Shows, ShowsAs
  <2> QED BY <1>6, <2>1, <2>2 DEF Single, Once
<1>7. ASSUME NEW e \in Els(l) PROVE e \in T
  <2>1. e \in Items /\ e.id \in Ids
        BY <1>1, <1>3
  <2>2. Mine(e.id) # None /\ Library!Item(e.id, Mine(e.id)) \in Els(l)
        BY <2>1 DEF Shows, ShowsAs, Has
  <2>3. PICK m \in 1..Len(l) : e = l[m]
        BY DEF Els
  <2>4. PICK n \in 1..Len(l) : Library!Item(e.id, Mine(e.id)) = l[n]
        BY <2>2 DEF Els
  <2>5. l[n].id = e.id
        BY <1>4, <1>5, <2>1, <2>2, <2>4 DEF Maybe
  <2>6. e = Library!Item(e.id, Mine(e.id))
        BY <1>6, <2>3, <2>4, <2>5
  <2> QED BY <1>2, <2>1, <2>2, <2>6
<1>8. ASSUME NEW e \in T PROVE e \in Els(l)
  <2>1. PICK i \in Ids : Mine(i) # None /\ e = Library!Item(i, Mine(i))
        BY <1>2
  <2> QED BY <2>1 DEF Shows, ShowsAs
<1>9. Els(l) = T
      BY <1>7, <1>8
<1>10. Len(l) = Cardinality(T)
  <2> DEFINE N == Len(l)
  <2>1. N \in Nat /\ DOMAIN l = 1..N /\ l \in [1..N -> Items]
        OBVIOUS
  <2> HIDE DEF N, T
  <2>2. l \in [1..N -> T] /\ \A t \in T : \E n \in 1..N : l[n] = t
        BY <1>9, <2>1 DEF Els, N
  <2>3. \A m, n \in 1..N : l[m] = l[n] => m = n
        BY <1>6 DEF N
  <2>4. l \in Bijection(1..N, T)
        BY <2>1, <2>2, <2>3 DEF Bijection, Injection, Surjection, IsInjective
  <2>5. ExistsBijection(1..N, T)
        BY <2>4 DEF ExistsBijection
  <2> QED BY <2>1, <2>5, FS_CountingElements DEF N
<1> QED BY <1>1, <1>9, <1>10

LEMMA SameCardinality == ASSUME NEW S PROVE Library!Cardinality(S) = Cardinality(S)
  BY DEF Library!Cardinality, Cardinality

\* The list that the store answers.
LEMMA TableShows ==
    ASSUME LibTypes, lident \in Seeds
    PROVE  LET l == Library!SetToSeq(Library!Table(lident)) IN l \in Seq(Items) /\ Shows(l)
<1> DEFINE T == Library!Table(lident)
           D == {j \in Ids : Mine(j) # None}
           n == Cardinality(T)
           l == Library!SetToSeq(T)
<1> USE LibraryAssumption
<1>1. T = {Library!Item(i, Mine(i)) : i \in D} /\ D \subseteq Ids
      BY DEF Library!Table, Mine
<1>2. \A i \in D : Mine(i) \in Rows
      BY DEF LibTypes, Mine, Maybe
<1>3. \A i \in Ids : \A v \in Rows : Library!Item(i, v) \in Items /\ Library!Item(i, v).id = i
      BY DEF Library!Item, Items
<1>4. T \subseteq Items
      BY <1>1, <1>2, <1>3
<1>5. IsFiniteSet(D)
      BY <1>1, FS_Subset
<1> HIDE DEF T, D
<1>6. IsFiniteSet(T)
  <2> DEFINE f == [i \in D |-> Library!Item(i, Mine(i))]
  <2>1. f \in [D -> T] /\ \A t \in T : \E i \in D : f[i] = t
        BY <1>1
  <2> HIDE DEF f
  <2>2. f \in Surjection(D, T)
        BY <2>1 DEF Surjection
  <2> QED BY <1>5, <2>2, FS_Surjection
<1>7. n \in Nat /\ ExistsBijection(1..n, T)
      BY <1>6, FS_CardinalityType
<1>8. l \in [1..n -> T] /\ IsInjective(l)
  <2>1. \E f \in [1..n -> T] : IsInjective(f)
    <3>1. PICK f : f \in Bijection(1..n, T)
          BY <1>7 DEF ExistsBijection
    <3> QED BY <3>1 DEF Bijection, Injection
  <2>2. \A f : Library!IsInjective(f) <=> IsInjective(f)
        BY DEF Library!IsInjective, IsInjective
  <2>3. l = CHOOSE f \in [1..n -> T] : Library!IsInjective(f)
        BY SameCardinality DEF Library!SetToSeq
  <2> HIDE DEF l, n
  <2> QED BY <2>1, <2>2, <2>3
<1> HIDE DEF l
<1>9. \A t \in T : \E m \in 1..n : l[m] = t
  <2>1. IsFiniteSet(1..n) /\ Cardinality(1..n) = n
        BY <1>7, FS_CountingElements, FS_Bijection, FS_Interval
  <2>2. l \in Injection(1..n, T)
        BY <1>8 DEF Injection
  <2>3. l \in Surjection(1..n, T)
        BY <1>6, <2>1, <2>2, FS_Injection
  <2> QED BY <2>3 DEF Surjection
<1>10. l \in Seq(Items) /\ Len(l) = n
  <2>1. l \in [1..n -> Items]
        BY <1>4, <1>8
  <2> HIDE DEF n
  <2> QED BY <1>7, <2>1
<1>11. Els(l) = T
      BY <1>8, <1>9, <1>10 DEF Els
<1>12. ASSUME NEW i \in Ids PROVE ShowsAs(l, i, Mine(i))
  <2>1. ASSUME NEW e \in T, e.id = i PROVE e = Library!Item(i, Mine(i)) /\ Mine(i) # None
    <3>1. PICK j \in D : e = Library!Item(j, Mine(j))
          BY <1>1
    <3>2. j = i
          BY <1>1, <1>2, <1>3, <2>1, <3>1
    <3> QED BY <3>1, <3>2 DEF D
  <2>2. Single(l, i)
    <3> SUFFICES ASSUME NEW p \in 1..n, NEW q \in 1..n, l[p].id = i, l[q].id = i PROVE p = q
        BY <1>10 DEF Single, Once
    <3>1. l[p] \in T /\ l[q] \in T
          BY <1>8
    <3>2. l[p] = l[q]
          BY <2>1, <3>1
    <3> QED BY <1>8, <3>2 DEF IsInjective
  <2>3. Mine(i) = None => ~Has(l, i)
        BY <1>11, <2>1 DEF Has
  <2>4. Mine(i) # None => Library!Item(i, Mine(i)) \in Els(l)
        BY <1>1, <1>11 DEF D
  <2> QED BY <2>2, <2>3, <2>4 DEF ShowsAs
<1> QED BY <1>10, <1>12 DEF Shows, T, l

\* The invariant gives what the run checks.
LEMMA LibAgrees == LibInv => LibraryAgrees
<1> SUFFICES ASSUME LibInv PROVE LibraryAgrees
    OBVIOUS
<1> USE DEF LibInv
<1>1. Library!TypeOK
      BY DEF LibTypes, Library!TypeOK
<1>2. Library!UpdatesMerge
      BY BusyIs DEF LibTypes, Library!UpdatesMerge, PerId, Wants, Mine, Want
<1>3. ASSUME lident # None, Library!Quiet, crossed = {} PROVE lident \in Seeds /\ Els(lcalls) = {} /\ Els(lanswers) = {}
      BY <1>3, NoEls DEF LibTypes, Library!Quiet
<1>4. Library!CachesAgree
  <2> SUFFICES ASSUME lident # None, Library!Quiet, crossed = {}
               PROVE  /\ lseen /\ panel # "default" => Library!ShowsStore
                      /\ \A i \in Ids : detail[i] \in {None, lrows[lident][i]} \/ \E s \in Seeds \ {lident} : lrows[s][i] # None
      BY DEF Library!CachesAgree
  <2>1. lident \in Seeds /\ Els(lcalls) = {} /\ Els(lanswers) = {}
        BY <1>3
  <2>2. ASSUME lseen, panel # "default" PROVE Library!ShowsStore
    <3>1. llist \in Seq(Items)
          BY <2>2 DEF LibTypes
    <3>2. Shows(llist)
      <4>1. CASE panel = "agents"
            BY <2>1, <2>2, <4>1 DEF PerId, AgentLists, Base, Shows
      <4>2. CASE panel # "agents"
        <5>1. ~Library!OfAgents
              BY <2>2, <4>2 DEF Library!OfAgents
        <5> QED BY <2>1, <2>2, <5>1 DEF ReadLists
      <4> QED BY <4>1, <4>2
    <3>3. Range(llist) = Library!Table(lident) /\ Len(llist) = Cardinality(Library!Table(lident))
          BY <2>1, <3>1, <3>2, ShowsTable
    <3>4. llist # None
      <4>1. Items = [id : Ids, row : [Fields -> Nat]]
            BY DEF Items, Rows
      <4> QED BY <3>1, <4>1, LibraryAssumption
    <3>5. Library!Range(llist) = Range(llist)
          BY DEF Library!Range, Range
    <3> QED BY <3>3, <3>4, <3>5, SameCardinality DEF Library!ShowsStore
  <2>3. ASSUME NEW i \in Ids PROVE detail[i] \in {None, lrows[lident][i]} \/ \E s \in Seeds \ {lident} : lrows[s][i] # None
    <3>1. CASE Library!OfAgents
          BY <2>1, <3>1 DEF PerId, Details, Known, InStore
    <3>2. CASE ~Library!OfAgents
          BY <3>2 DEF LibTypes
    <3> QED BY <3>1, <3>2
  <2> QED BY <2>2, <2>3
<1>5. Library!ActiveIsStored
  <2> SUFFICES ASSUME lident # None, Library!Quiet, active # None, active \notin crossed
               PROVE  \E s \in Seeds : lrows[s][active] # None
      BY DEF Library!ActiveIsStored
  <2>1. Els(lcalls) = {} /\ Els(lanswers) = {}
        BY NoEls DEF Library!Quiet
  <2>2. Chosen(active)
        BY DEF LibTypes, PerId
  <2> QED BY <2>1, <2>2 DEF Chosen
<1> QED BY <1>1, <1>2, <1>4, <1>5 DEF LibraryAgrees

LEMMA LibInitial == Library!Init => LibInv
<1> SUFFICES ASSUME Library!Init PROVE LibInv
    OBVIOUS
<1>1. lcalls = <<>> /\ lanswers = <<>> /\ Els(<<>>) = {} /\ Reads(<<>>) = {} /\ \A K : Once(K, <<>>)
      BY NoEls DEF Library!Init
<1>2. [f \in Fields |-> 0] \in Rows /\ Library!NoRow = [f \in Fields |-> 0]
      BY DEF Rows, Library!NoRow
<1>3. LibTypes
  <2>1. lrows \in [Seeds -> [Ids -> Maybe]] /\ wanted \in [Seeds -> [Ids -> Maybe]]
        BY <1>2 DEF Library!Init, Maybe
  <2>2. lcalls \in Seq(CallSet) /\ lanswers \in Seq(AnswerSet)
        BY <1>1
  <2>3. edits \in 0..MaxEdits /\ lunlocks \in 0..MaxUnlocks
        BY LibraryAssumption, BoundsAssumption DEF Library!Init
  <2>4. detail \in [Ids -> Maybe] /\ (\A i \in Ids : detail[i] = None) /\ active = None /\ crossed = {}
        BY DEF Library!Init, Maybe
  <2>5. lident = None /\ lopen = FALSE /\ lfetch = "none" /\ llist = None /\ lseen = FALSE
        BY DEF Library!Init
  <2> QED BY <1>1, <2>1, <2>2, <2>3, <2>4, <2>5 DEF LibTypes
<1>4. lident = None /\ wanted = lrows /\ \A i \in Ids : detail[i] = None
      BY DEF Library!Init
<1>5. active = None
      BY DEF Library!Init
<1>6. ASSUME NEW i \in Ids PROVE PerId(i)
      BY <1>1, <1>4, <1>5, LibraryAssumption DEF PerId, Alone, Apart, Details, Chosen, Known
<1> QED BY <1>3, <1>4, <1>6 DEF LibInv, ReadLists

-----------------------------------------------------------------------------
\* Nothing happened to what the invariant is about.
LEMMA LibFrame ==
    ASSUME LibInv, LibTypes',
           UNCHANGED <<panel, lident, lrows, lcalls, lanswers, llist, lseen, detail, active, wanted, crossed>>
    PROVE  LibInv'
<1>1. ReadLists'
      BY DEF LibInv, ReadLists, Shows, ShowsAs, Mine, Single, Has, Library!OfAgents
<1>2. ASSUME NEW i \in Ids \ crossed PROVE PerId(i)'
  <2>1. PerId(i)
        BY DEF LibInv
  <2>2. Alone(i)' /\ Apart(i)' /\ Chosen(i)'
        BY <2>1 DEF PerId, Alone, Apart, Chosen, CallsOn, AnswersOn
  <2>3. Details(i)'
        BY <2>1 DEF PerId, Details, Known, InStore, Library!OfAgents
  <2>4. (lident # None => Wants(i) /\ AgentLists(i))'
        BY <2>1 DEF PerId, Wants, Settled, CallWants, AnswerWants, Mine, Want, AgentLists, Base, ShowsAs, Single,
           Has, Library!OfAgents
  <2> QED BY <2>2, <2>3, <2>4 DEF PerId
<1> QED BY <1>1, <1>2 DEF LibInv

LEMMA UnlockKeepsLib == ASSUME LibInv, NEW s \in Seeds, Library!Unlock(s) PROVE LibInv'
<1> USE DEF Library!Unlock, Library!store, Library!cache, Library!ghost
<1>1. /\ lident = None /\ lident' = s /\ s # None /\ lunlocks' = lunlocks + 1 /\ lunlocks < MaxUnlocks
      /\ UNCHANGED <<panel, lopen, lrows, lcalls, lanswers, lfetch, llist, lseen, detail, active, edits,
                     wanted, crossed>>
      BY NoneAssumption
<1>2. lcalls = <<>> /\ lanswers = <<>> /\ lseen = FALSE /\ Els(<<>>) = {} /\ Reads(<<>>) = {}
      BY <1>1, NoEls DEF LibInv, LibTypes
<1>3. LibTypes'
  <2>1. lunlocks' \in 0..MaxUnlocks
        BY <1>1, BoundsAssumption DEF LibInv, LibTypes
  <2>2. lident' \in Seeds \cup {None} /\ (lident' = None => ~lopen')
        BY <1>1
  <2> QED BY <1>1, <1>2, <2>1, <2>2 DEF LibInv, LibTypes, Fit, Fits, Library!OfAgents
<1>4. ReadLists'
      BY <1>1, <1>2 DEF ReadLists
<1>5. ASSUME NEW i \in Ids \ crossed PROVE PerId(i)'
  <2>1. PerId(i)
        BY DEF LibInv
  <2>2. Alone(i)' /\ Chosen(i)'
        BY <1>1, <2>1 DEF PerId, Alone, Chosen, CallsOn, AnswersOn
  <2>3. Details(i)'
        BY <1>1, <2>1 DEF PerId, Details, Known, InStore, Library!OfAgents
  <2>4. \A r \in Seeds : lrows[r][i] = wanted[r][i]
        BY <1>1, <2>1, NoneAssumption DEF PerId, Apart
  <2>5. Apart(i)' /\ Wants(i)' /\ AgentLists(i)'
        BY <1>1, <1>2, <2>4 DEF Apart, Wants, AgentLists, Mine, Want
  <2> QED BY <2>2, <2>3, <2>5 DEF PerId
<1> QED BY <1>1, <1>3, <1>4, <1>5 DEF LibInv

LEMMA OpenKeepsLib == ASSUME LibInv, Library!OpenStore PROVE LibInv'
<1>1. lident # None /\ lopen' = TRUE
      /\ UNCHANGED <<panel, lident, lunlocks, lrows, lcalls, lanswers, lfetch, llist, lseen, detail, active, edits,
                     wanted, crossed>>
      BY DEF Library!OpenStore, Library!store, Library!cache, Library!ghost
<1>2. LibTypes'
      BY <1>1 DEF LibInv, LibTypes, Fit, Fits, Library!OfAgents
<1> QED BY <1>1, <1>2, LibFrame

LEMMA GiveUpKeepsLib == ASSUME LibInv, Library!GiveUp PROVE LibInv'
<1>1. /\ lfetch' = "none" /\ llist' = (IF panel = "skills" THEN llist ELSE <<>>) /\ lseen' = FALSE
      /\ UNCHANGED <<panel, lident, lopen, lunlocks, lrows, lcalls, lanswers, detail, active, edits, wanted, crossed>>
      BY DEF Library!GiveUp, Library!store, Library!ghost
<1>a. llist' \in Seq(Items) \cup {None}
      BY <1>1 DEF LibInv, LibTypes
<1>2. LibTypes'
      BY <1>1, <1>a DEF LibInv, LibTypes, Fit, Fits, Library!OfAgents
<1>3. ReadLists'
      BY <1>1 DEF LibInv, ReadLists, Shows, ShowsAs, Mine, Single, Has, Library!OfAgents
<1>4. ASSUME NEW i \in Ids \ crossed PROVE PerId(i)'
  <2>1. PerId(i)
        BY DEF LibInv
  <2>2. Alone(i)' /\ Apart(i)' /\ Chosen(i)'
        BY <1>1, <2>1 DEF PerId, Alone, Apart, Chosen, CallsOn, AnswersOn
  <2>3. Details(i)'
        BY <1>1, <2>1 DEF PerId, Details, Known, InStore, Library!OfAgents
  <2>4. (lident # None => Wants(i) /\ AgentLists(i))'
        BY <1>1, <2>1 DEF PerId, Wants, Settled, CallWants, AnswerWants, Mine, Want, AgentLists, Base, ShowsAs, Single,
           Has, Library!OfAgents
  <2> QED BY <2>2, <2>3, <2>4 DEF PerId
<1> QED BY <1>1, <1>2, <1>3, <1>4 DEF LibInv

LEMMA LockKeepsLib == ASSUME LibInv, Library!Lock PROVE LibInv'
<1>1. /\ lident # None /\ lident' = None /\ lopen' = FALSE /\ lcalls' = <<>> /\ lanswers' = <<>>
      /\ crossed' = crossed \cup {i \in Ids : Library!Busy(i)} /\ lseen' = FALSE
      /\ lfetch' \in {"none", "lost"} /\ llist' \in {llist, None}
      /\ UNCHANGED <<panel, lunlocks, lrows, detail, active, edits, wanted>>
      BY DEF Library!Lock
<1>2. Els(<<>>) = {} /\ Reads(<<>>) = {} /\ \A K : Once(K, <<>>)
      BY NoEls
<1>3. LibTypes'
  <2>1. crossed' \in SUBSET Ids
        BY <1>1 DEF LibInv, LibTypes
  <2>2. lcalls' \in Seq(CallSet) /\ lanswers' \in Seq(AnswerSet)
        BY <1>1
  <2> QED BY <1>1, <1>2, <2>1, <2>2 DEF LibInv, LibTypes, Library!OfAgents
<1>4. ReadLists'
      BY <1>1 DEF ReadLists
<1>5. ASSUME NEW i \in Ids \ crossed' PROVE PerId(i)'
  <2>1. PerId(i)
        BY <1>1 DEF LibInv
  <2>2. Settled(i)
        BY <1>1, BusyIs DEF LibInv
  <2>3. Mine(i) = Want(i)
        BY <1>1, <2>1, <2>2 DEF PerId, Wants
  <2>4. Alone(i)' /\ Apart(i)'
        BY <1>1, <1>2, <2>1, <2>3 DEF PerId, Alone, Apart, Mine, Want
  <2>5. \A a \in Els(lanswers) : ~Replaces(a, i) /\ ~Removal(a, i)
        BY <2>2 DEF Settled, Library!Mutates, Replaces, Removal
  <2>6. \A x \in Els(lcalls) : ~(x.op = "put" /\ x.id = i)
        BY <2>2 DEF Settled, Library!Mutates
  <2>7. Chosen(i)'
        BY <1>1, <1>2, <2>1, <2>5, <2>6 DEF PerId, Chosen
  <2>8. Details(i)'
        BY <1>1, <1>2, <2>1, <2>5 DEF PerId, Details, Known, InStore, Library!OfAgents
  <2> QED BY <1>1, <2>4, <2>7, <2>8 DEF PerId
<1> QED BY <1>3, <1>4, <1>5 DEF LibInv

-----------------------------------------------------------------------------
\* A call that reads is posted.
LEMMA AskKeepsLib ==
    ASSUME LibInv, NEW x \in CallSet, Fit(x), x.op \in {"list", "detail"},
           lcalls' = Append(lcalls, x), lopen, lfetch' \in {lfetch, "asked"},
           UNCHANGED <<panel, lident, lopen, lunlocks, lrows, lanswers, llist, lseen, detail, active, edits,
                       wanted, crossed>>
    PROVE  LibInv'
<1>1. lcalls' \in Seq(CallSet) /\ Els(lcalls') = Els(lcalls) \cup {x}
      BY AppendEls DEF LibInv, LibTypes
<1>2. \A i : ~Library!Mutates(x, i)
      BY DEF Library!Mutates
<1>3. LibTypes'
  <2>1. \A y \in Els(lcalls') : Fit(y)'
        BY <1>1 DEF LibInv, LibTypes, Fit, Library!OfAgents
  <2> QED BY <1>1, <2>1 DEF LibInv, LibTypes, Fit, Fits, Library!OfAgents
<1>4. ReadLists'
      BY <1>1 DEF LibInv, ReadLists, Shows, ShowsAs, Mine, Single, Has, Library!OfAgents
<1>5. ASSUME NEW i \in Ids \ crossed PROVE PerId(i)'
  <2>1. PerId(i)
        BY DEF LibInv
  <2>2. Once(CallsOn(i), lcalls') /\ Els(lcalls') \cap CallsOn(i) = Els(lcalls) \cap CallsOn(i)
    <3> DEFINE K == CallsOn(i)
    <3>1. x \notin K
          BY <1>2 DEF CallsOn
    <3>2. Once(K, lcalls) /\ lcalls \in Seq(CallSet)
          BY <2>1 DEF PerId, Alone, LibInv, LibTypes
    <3> HIDE DEF K
    <3>3. Once(K, lcalls')
          BY <3>1, <3>2, OnceAppend
    <3> QED BY <1>1, <3>1, <3>3 DEF K
  <2>3. Alone(i)' /\ Apart(i)'
        BY <2>1, <2>2 DEF PerId, Alone, Apart, CallsOn, AnswersOn
  <2>4. Chosen(i)'
        BY <1>1, <2>1 DEF PerId, Chosen, Removal
  <2>5. Details(i)'
        BY <2>1 DEF PerId, Details, Known, InStore, Library!OfAgents
  <2>6. (lident # None => Wants(i))'
        BY <1>1, <1>2, <2>1 DEF PerId, Wants, Settled, CallWants, AnswerWants, Mine, Want, Library!OfAgents
  <2>7. (lident # None => AgentLists(i))'
        BY <2>1 DEF PerId, AgentLists, Base, ShowsAs, Single, Has, Mine
  <2> QED BY <2>3, <2>4, <2>5, <2>6, <2>7 DEF PerId
<1> QED BY <1>3, <1>4, <1>5 DEF LibInv

LEMMA ListCall ==
    LET x == [Library!NoCall EXCEPT !.op = "list"] IN x \in CallSet /\ Fit(x) /\ x.op = "list" /\ x.was = None
<1>1. Library!NoRow \in Rows
      BY DEF Library!NoRow, Rows
<1> QED BY <1>1 DEF Library!NoCall, CallSet, Fit

\* Calls, written out.
LEMMA DetailCall ==
    ASSUME NEW i
    PROVE  [Library!NoCall EXCEPT !.op = "detail", !.id = i]
           = [op |-> "detail", k |-> None, id |-> i, row |-> Library!NoRow, fields |-> {}, was |-> None]
<1> DEFINE z0 == Library!NoCall
           z1 == [z0 EXCEPT !.op = "detail"]
           z2 == [z1 EXCEPT !.id = i]
<1>0. z0 = [op |-> "none", k |-> None, id |-> None, row |-> Library!NoRow, fields |-> {}, was |-> None]
      BY DEF Library!NoCall
<1> HIDE DEF z0
<1>1. z1 = [op |-> "detail", k |-> None, id |-> None, row |-> Library!NoRow, fields |-> {}, was |-> None]
      BY <1>0
<1> HIDE DEF z1
<1>2. z2 = [op |-> "detail", k |-> None, id |-> i, row |-> Library!NoRow, fields |-> {}, was |-> None]
      BY <1>1
<1> QED BY <1>2 DEF z0, z1

LEMMA CreateCall ==
    ASSUME NEW i, NEW row
    PROVE  [Library!NoCall EXCEPT !.op = "put", !.id = i, !.row = row]
           = [op |-> "put", k |-> None, id |-> i, row |-> row, fields |-> {}, was |-> None]
<1> DEFINE z0 == Library!NoCall
           z1 == [z0 EXCEPT !.op = "put"]
           z2 == [z1 EXCEPT !.id = i]
           z3 == [z2 EXCEPT !.row = row]
<1>0. z0 = [op |-> "none", k |-> None, id |-> None, row |-> Library!NoRow, fields |-> {}, was |-> None]
      BY DEF Library!NoCall
<1> HIDE DEF z0
<1>1. z1 = [op |-> "put", k |-> None, id |-> None, row |-> Library!NoRow, fields |-> {}, was |-> None]
      BY <1>0
<1> HIDE DEF z1
<1>2. z2 = [op |-> "put", k |-> None, id |-> i, row |-> Library!NoRow, fields |-> {}, was |-> None]
      BY <1>1
<1> HIDE DEF z2
<1>3. z3 = [op |-> "put", k |-> None, id |-> i, row |-> row, fields |-> {}, was |-> None]
      BY <1>2
<1> QED BY <1>3 DEF z0, z1, z2

LEMMA DeleteCall ==
    ASSUME NEW i, NEW k
    PROVE  [Library!NoCall EXCEPT !.op = "del", !.id = i, !.k = k]
           = [op |-> "del", k |-> k, id |-> i, row |-> Library!NoRow, fields |-> {}, was |-> None]
<1> DEFINE z0 == Library!NoCall
           z1 == [z0 EXCEPT !.op = "del"]
           z2 == [z1 EXCEPT !.id = i]
           z3 == [z2 EXCEPT !.k = k]
<1>0. z0 = [op |-> "none", k |-> None, id |-> None, row |-> Library!NoRow, fields |-> {}, was |-> None]
      BY DEF Library!NoCall
<1> HIDE DEF z0
<1>1. z1 = [op |-> "del", k |-> None, id |-> None, row |-> Library!NoRow, fields |-> {}, was |-> None]
      BY <1>0
<1> HIDE DEF z1
<1>2. z2 = [op |-> "del", k |-> None, id |-> i, row |-> Library!NoRow, fields |-> {}, was |-> None]
      BY <1>1
<1> HIDE DEF z2
<1>3. z3 = [op |-> "del", k |-> k, id |-> i, row |-> Library!NoRow, fields |-> {}, was |-> None]
      BY <1>2
<1> QED BY <1>3 DEF z0, z1, z2

LEMMA RenameCall ==
    ASSUME NEW i, NEW j, NEW row
    PROVE  [Library!NoCall EXCEPT !.op = "put", !.id = j, !.was = i, !.row = row]
           = [op |-> "put", k |-> None, id |-> j, row |-> row, fields |-> {}, was |-> i]
<1> DEFINE z0 == Library!NoCall
           z1 == [z0 EXCEPT !.op = "put"]
           z2 == [z1 EXCEPT !.id = j]
           z3 == [z2 EXCEPT !.was = i]
           z4 == [z3 EXCEPT !.row = row]
<1>0. z0 = [op |-> "none", k |-> None, id |-> None, row |-> Library!NoRow, fields |-> {}, was |-> None]
      BY DEF Library!NoCall
<1> HIDE DEF z0
<1>1. z1 = [op |-> "put", k |-> None, id |-> None, row |-> Library!NoRow, fields |-> {}, was |-> None]
      BY <1>0
<1> HIDE DEF z1
<1>2. z2 = [op |-> "put", k |-> None, id |-> j, row |-> Library!NoRow, fields |-> {}, was |-> None]
      BY <1>1
<1> HIDE DEF z2
<1>3. z3 = [op |-> "put", k |-> None, id |-> j, row |-> Library!NoRow, fields |-> {}, was |-> i]
      BY <1>2
<1> HIDE DEF z3
<1>4. z4 = [op |-> "put", k |-> None, id |-> j, row |-> row, fields |-> {}, was |-> i]
      BY <1>3
<1> QED BY <1>4 DEF z0, z1, z2, z3

LEMMA UpdateCall ==
    ASSUME NEW i, NEW fields, NEW row
    PROVE  [Library!NoCall EXCEPT !.op = "get", !.id = i, !.fields = fields, !.row = row]
           = [op |-> "get", k |-> None, id |-> i, row |-> row, fields |-> fields, was |-> None]
<1> DEFINE z0 == Library!NoCall
           z1 == [z0 EXCEPT !.op = "get"]
           z2 == [z1 EXCEPT !.id = i]
           z3 == [z2 EXCEPT !.fields = fields]
           z4 == [z3 EXCEPT !.row = row]
<1>0. z0 = [op |-> "none", k |-> None, id |-> None, row |-> Library!NoRow, fields |-> {}, was |-> None]
      BY DEF Library!NoCall
<1> HIDE DEF z0
<1>1. z1 = [op |-> "get", k |-> None, id |-> None, row |-> Library!NoRow, fields |-> {}, was |-> None]
      BY <1>0
<1> HIDE DEF z1
<1>2. z2 = [op |-> "get", k |-> None, id |-> i, row |-> Library!NoRow, fields |-> {}, was |-> None]
      BY <1>1
<1> HIDE DEF z2
<1>3. z3 = [op |-> "get", k |-> None, id |-> i, row |-> Library!NoRow, fields |-> fields, was |-> None]
      BY <1>2
<1> HIDE DEF z3
<1>4. z4 = [op |-> "get", k |-> None, id |-> i, row |-> row, fields |-> fields, was |-> None]
      BY <1>3
<1> QED BY <1>4 DEF z0, z1, z2, z3

LEMMA MergedCall ==
    ASSUME NEW i, NEW fields, NEW row
    PROVE  [Library!NoCall EXCEPT !.op = "put", !.id = i, !.fields = fields, !.row = row]
           = [op |-> "put", k |-> None, id |-> i, row |-> row, fields |-> fields, was |-> None]
<1> DEFINE z0 == Library!NoCall
           z1 == [z0 EXCEPT !.op = "put"]
           z2 == [z1 EXCEPT !.id = i]
           z3 == [z2 EXCEPT !.fields = fields]
           z4 == [z3 EXCEPT !.row = row]
<1>0. z0 = [op |-> "none", k |-> None, id |-> None, row |-> Library!NoRow, fields |-> {}, was |-> None]
      BY DEF Library!NoCall
<1> HIDE DEF z0
<1>1. z1 = [op |-> "put", k |-> None, id |-> None, row |-> Library!NoRow, fields |-> {}, was |-> None]
      BY <1>0
<1> HIDE DEF z1
<1>2. z2 = [op |-> "put", k |-> None, id |-> i, row |-> Library!NoRow, fields |-> {}, was |-> None]
      BY <1>1
<1> HIDE DEF z2
<1>3. z3 = [op |-> "put", k |-> None, id |-> i, row |-> Library!NoRow, fields |-> fields, was |-> None]
      BY <1>2
<1> HIDE DEF z3
<1>4. z4 = [op |-> "put", k |-> None, id |-> i, row |-> row, fields |-> fields, was |-> None]
      BY <1>3
<1> QED BY <1>4 DEF z0, z1, z2, z3

LEMMA FetchKeepsLib == ASSUME LibInv, Library!Fetch \/ Library!Waited PROVE LibInv'
<1> DEFINE x == [Library!NoCall EXCEPT !.op = "list"]
<1>1. x \in CallSet /\ Fit(x) /\ x.op = "list"
      BY ListCall
<1> HIDE DEF x
<1>2. CASE Library!Fetch /\ lopen
  <2>1. /\ lcalls' = Append(lcalls, x) /\ lfetch' = "asked"
        /\ UNCHANGED <<panel, lident, lopen, lunlocks, lrows, lanswers, llist, lseen, detail, active, edits,
                       wanted, crossed>>
        BY <1>2 DEF Library!Fetch, Library!Ask, Library!ghost, x
  <2> QED BY <1>1, <1>2, <2>1, AskKeepsLib
<1>3. CASE Library!Fetch /\ ~lopen
  <2>1. /\ lfetch' = "wait"
        /\ UNCHANGED <<panel, lident, lopen, lunlocks, lrows, lcalls, lanswers, llist, lseen, detail, active, edits,
                       wanted, crossed>>
        BY <1>3 DEF Library!Fetch, Library!ghost
  <2>2. LibTypes'
        BY <2>1 DEF LibInv, LibTypes, Fit, Fits, Library!OfAgents
  <2> QED BY <2>1, <2>2, LibFrame
<1>4. CASE Library!Waited
  <2>1. /\ lcalls' = Append(lcalls, x) /\ lfetch' = "asked" /\ lopen
        /\ UNCHANGED <<panel, lident, lopen, lunlocks, lrows, lanswers, llist, lseen, detail, active, edits,
                       wanted, crossed>>
        BY <1>4 DEF Library!Waited, Library!Ask, Library!ghost, x
  <2> QED BY <1>1, <2>1, AskKeepsLib
<1> QED BY <1>2, <1>3, <1>4

LEMMA FetchAgentKeepsLib == ASSUME LibInv, NEW i \in Ids, Library!FetchAgent(i) PROVE LibInv'
<1> DEFINE y == [Library!NoCall EXCEPT !.op = "detail", !.id = i]
<1>1. /\ Library!OfAgents /\ lopen /\ lcalls' = Append(lcalls, y)
      /\ UNCHANGED <<panel, lident, lopen, lunlocks, lrows, lanswers, llist, lseen, detail, active, edits,
                     wanted, crossed, lfetch>>
  <2>1. Library!OfAgents /\ lopen /\ lcalls' = Append(lcalls, [Library!NoCall EXCEPT !.op = "detail", !.id = i])
        BY DEF Library!FetchAgent
  <2>2. UNCHANGED <<panel, lident, lopen, lunlocks, lrows, lanswers, llist, lseen, detail, active, edits,
                    wanted, crossed, lfetch>>
        BY DEF Library!FetchAgent, Library!cache, Library!ghost
  <2> QED BY <2>1, <2>2
<1>2. y = [op |-> "detail", k |-> None, id |-> i, row |-> Library!NoRow, fields |-> {}, was |-> None]
      BY DetailCall, Zenon
<1>3. Library!NoRow \in Rows
      BY DEF Library!NoRow, Rows
<1> HIDE DEF y
<1>4. y \in CallSet /\ Fit(y) /\ y.op = "detail"
      BY <1>1, <1>2, <1>3 DEF CallSet, Fit
<1> QED BY <1>1, <1>4, AskKeepsLib

\* A mutation is asked for.
LEMMA MutationKeepsLib ==
    ASSUME LibInv, NEW x \in CallSet, Fit(x), x.op \in {"get", "put", "del"}, NEW want \in [Ids -> Maybe],
           Library!Mutation(x, want),
           \A i \in Ids : ~Library!Mutates(x, i) => want[i] = Want(i),
           \A i \in Ids : Library!Mutates(x, i) /\ Mine(i) = Want(i) =>
               /\ want[i] = Due(x, i, Mine(i))
               /\ x.op = "get" => x.fields # {}
               /\ Library!OfAgents /\ x.op \in {"get", "put"} => (x.fields = {} <=> Mine(i) = None),
           x.op = "del" /\ panel = "skills" => x.k = active
    PROVE  LibInv'
<1>1. /\ lident # None /\ lopen /\ edits < MaxEdits /\ edits' = edits + 1 /\ lcalls' = Append(lcalls, x)
      /\ crossed' = crossed \cup {i \in Ids : Library!Mutates(x, i) /\ Library!Busy(i)}
      /\ wanted' = [wanted EXCEPT ![lident] = want]
      /\ UNCHANGED <<panel, lident, lopen, lunlocks, lrows, lanswers, lfetch, llist, lseen, detail, active>>
      BY DEF Library!Mutation, Library!cache
<1>2. lcalls' \in Seq(CallSet) /\ Els(lcalls') = Els(lcalls) \cup {x} /\ lident \in Seeds
      BY <1>1, AppendEls DEF LibInv, LibTypes
<1>a. /\ wanted' \in [Seeds -> [Ids -> Maybe]] /\ \A i \in Ids : Want(i)' = want[i]
      /\ \A s \in Seeds \ {lident} : wanted'[s] = wanted[s]
      BY <1>1, <1>2 DEF LibInv, LibTypes, Want
<1>3. LibTypes'
  <2>1. \A y \in Els(lcalls') : Fit(y)'
        BY <1>1, <1>2 DEF LibInv, LibTypes, Fit, Library!OfAgents
  <2>2. edits' \in 0..MaxEdits
        BY <1>1, LibraryAssumption DEF LibInv, LibTypes
  <2>3. crossed' \in SUBSET Ids
        BY <1>1 DEF LibInv, LibTypes
  <2> QED BY <1>1, <1>2, <1>a, <2>1, <2>2, <2>3 DEF LibInv, LibTypes, Fit, Fits, Library!OfAgents
<1>4. ReadLists'
      BY <1>1, <1>2 DEF LibInv, ReadLists, Shows, ShowsAs, Mine, Single, Has, Library!OfAgents
<1>5. ASSUME NEW i \in Ids \ crossed' PROVE PerId(i)'
  <2>1. PerId(i) /\ (Library!Mutates(x, i) => Settled(i)) /\ i \in Ids
        BY <1>1, BusyIs DEF LibInv
  <2>2. Once(CallsOn(i), lcalls')
    <3> DEFINE K == CallsOn(i)
    <3>1. x \notin K \/ Els(lcalls) \cap K = {}
          BY <2>1 DEF CallsOn, Settled
    <3>2. Once(K, lcalls) /\ lcalls \in Seq(CallSet)
          BY <2>1 DEF PerId, Alone, LibInv, LibTypes
    <3> HIDE DEF K
    <3>3. Once(K, lcalls')
          BY <1>1, <3>1, <3>2, OnceAppend
    <3> QED BY <3>3 DEF K
  <2>3. Els(lcalls') \cap CallsOn(i) = {} \/ Els(lanswers') \cap AnswersOn(i) = {}
        BY <1>1, <1>2, <2>1 DEF PerId, Alone, Settled, CallsOn, AnswersOn
  <2>4. Alone(i)' /\ Apart(i)'
        BY <1>1, <1>a, <2>1, <2>2, <2>3 DEF PerId, Alone, Apart, CallsOn, AnswersOn
  <2>5. Chosen(i)'
    <3>1. Removal(x, i) /\ active = i => x.k = i
          BY <2>1, LibraryAssumption DEF Removal, LibInv, LibTypes
    <3> QED BY <1>1, <1>2, <2>1, <3>1 DEF PerId, Chosen, Removal
  <2>6. Details(i)'
        BY <1>1, <2>1 DEF PerId, Details, Known, InStore, Library!OfAgents
  <2>7. Mine(i)' = Mine(i) /\ Want(i)' = want[i]
        BY <1>1, <1>a, <2>1 DEF Mine
  <2>8. Wants(i)
        BY <1>1, <2>1 DEF PerId
  <2>9. CASE Library!Mutates(x, i)
    <3>1. Mine(i) = Want(i) /\ Settled(i)
          BY <2>1, <2>8, <2>9 DEF Wants
    <3>2. CallWants(x, i)'
          BY <1>1, <2>1, <2>7, <2>9, <3>1 DEF CallWants, Library!OfAgents
    <3>3. (\A y \in Els(lcalls) : ~Library!Mutates(y, i)) /\ (\A a \in Els(lanswers) : ~Library!Mutates(a, i))
          BY <3>1 DEF Settled
    <3> QED BY <1>1, <1>2, <2>4, <2>5, <2>6, <2>7, <2>9, <3>2, <3>3, <2>1
            DEF PerId, Wants, Settled, AgentLists, Base, ShowsAs, Single, Has
  <2>10. CASE ~Library!Mutates(x, i)
    <3>1. Want(i)' = Want(i)
          BY <2>1, <2>7, <2>10
    <3>2. Wants(i)'
          BY <1>1, <1>2, <2>7, <2>8, <2>10, <3>1 DEF Wants, Settled, CallWants, AnswerWants, Library!OfAgents
    <3>3. AgentLists(i)'
          BY <1>1, <2>1, <2>7 DEF PerId, AgentLists, Base, ShowsAs, Single, Has
    <3> QED BY <2>4, <2>5, <2>6, <3>2, <3>3 DEF PerId
  <2> QED BY <2>9, <2>10
<1> QED BY <1>3, <1>4, <1>5 DEF LibInv

LEMMA CreateKeepsLib == ASSUME LibInv, NEW i \in Ids, Library!Create(i) PROVE LibInv'
<1> DEFINE row == [f \in Fields |-> edits + 1]
           x == [Library!NoCall EXCEPT !.op = "put", !.id = i, !.row = row]
           want == [wanted[lident] EXCEPT ![i] = row]
<1>1. /\ \A s \in Seeds : lrows[s][i] = None /\ wanted[s][i] = None
      /\ Library!Mutation(x, want)
      BY DEF Library!Create
<1>2. x = [op |-> "put", k |-> None, id |-> i, row |-> row, fields |-> {}, was |-> None]
      BY CreateCall, Zenon
<1>3. row \in Rows /\ lident \in Seeds
      BY <1>1, LibraryAssumption DEF LibInv, LibTypes, Rows, Library!Mutation
<1> HIDE DEF row, x
<1>4. x \in CallSet /\ Fit(x) /\ x.op = "put" /\ x.id = i /\ x.was = None /\ x.row = row /\ x.fields = {}
      BY <1>2, <1>3 DEF CallSet, Fit
<1>5. /\ want \in [Ids -> Maybe] /\ want[i] = row
      /\ \A j \in Ids \ {i} : want[j] = Want(j)
      BY <1>3 DEF LibInv, LibTypes, Maybe, Want
<1> HIDE DEF want
<1>6. \A j \in Ids : Library!Mutates(x, j) <=> j = i
      BY <1>4, LibraryAssumption DEF Library!Mutates
<1>7. Due(x, i, Mine(i)) = row /\ Mine(i) = None
      BY <1>1, <1>3, <1>4 DEF Due, Mine
<1> QED BY <1>1, <1>4, <1>5, <1>6, <1>7, MutationKeepsLib

LEMMA DeleteKeepsLib == ASSUME LibInv, NEW i \in Ids, Library!Delete(i) PROVE LibInv'
<1> DEFINE k == IF panel = "skills" THEN active ELSE None
           x == [Library!NoCall EXCEPT !.op = "del", !.id = i, !.k = k]
           want == [wanted[lident] EXCEPT ![i] = None]
<1>1. /\ Library!Mutation(x, want) /\ lident # None
      BY DEF Library!Delete
<1>2. x = [op |-> "del", k |-> k, id |-> i, row |-> Library!NoRow, fields |-> {}, was |-> None]
      BY DeleteCall, Zenon
<1>3. Library!NoRow \in Rows /\ lident \in Seeds /\ k \in Ids \cup {None} /\ (panel = "skills" => k = active)
      BY <1>1 DEF LibInv, LibTypes, Rows, Library!NoRow
<1> HIDE DEF x, k
<1>4. x \in CallSet /\ Fit(x) /\ x.op = "del" /\ x.id = i /\ x.was = None /\ x.k = k
      BY <1>2, <1>3 DEF CallSet, Fit
<1>5. /\ want \in [Ids -> Maybe] /\ want[i] = None
      /\ \A j \in Ids \ {i} : want[j] = Want(j)
      BY <1>3 DEF LibInv, LibTypes, Maybe, Want
<1> HIDE DEF want
<1>6. \A j \in Ids : Library!Mutates(x, j) <=> j = i
      BY <1>4, LibraryAssumption DEF Library!Mutates
<1>7. Due(x, i, Mine(i)) = None
      BY <1>4 DEF Due
<1> QED BY <1>1, <1>3, <1>4, <1>5, <1>6, <1>7, MutationKeepsLib

LEMMA UpdateMemoryKeepsLib == ASSUME LibInv, NEW i \in Ids, NEW j \in Ids, Library!UpdateMemory(i, j) PROVE LibInv'
<1> DEFINE row == [f \in Fields |-> edits + 1]
           x == [Library!NoCall EXCEPT !.op = "put", !.id = j, !.was = i, !.row = row]
           w == [wanted[lident] EXCEPT ![i] = None]
           want == [w EXCEPT ![j] = row]
<1>1. /\ Library!Mutation(x, want) /\ lident # None /\ panel = "memories"
      BY DEF Library!UpdateMemory
<1>2. x = [op |-> "put", k |-> None, id |-> j, row |-> row, fields |-> {}, was |-> i]
      BY RenameCall, Zenon
<1>3. row \in Rows /\ lident \in Seeds /\ ~Library!OfAgents
      BY <1>1, LibraryAssumption DEF LibInv, LibTypes, Rows, Library!OfAgents
<1> HIDE DEF row, x
<1>4. x \in CallSet /\ Fit(x) /\ x.op = "put" /\ x.id = j /\ x.was = i /\ x.row = row
      BY <1>1, <1>2, <1>3 DEF CallSet, Fit
<1>5. /\ w \in [Ids -> Maybe] /\ w[i] = None
      /\ \A h \in Ids \ {i} : w[h] = Want(h)
      BY <1>3 DEF LibInv, LibTypes, Maybe, Want
<1> HIDE DEF w
<1>6. /\ want \in [Ids -> Maybe] /\ want[j] = row /\ (i # j => want[i] = None)
      /\ \A h \in Ids \ {i, j} : want[h] = Want(h)
      BY <1>3, <1>5 DEF Maybe
<1> HIDE DEF want
<1>7. \A h \in Ids : Library!Mutates(x, h) <=> h \in {i, j}
      BY <1>4, LibraryAssumption DEF Library!Mutates
<1>8. \A h \in {i, j} : want[h] = Due(x, h, Mine(h))
      BY <1>4, <1>6 DEF Due
<1> QED BY <1>1, <1>3, <1>4, <1>6, <1>7, <1>8, MutationKeepsLib

LEMMA UpdateAgentKeepsLib == ASSUME LibInv, NEW i \in Ids, NEW f \in Fields, Library!UpdateAgent(i, f) PROVE LibInv'
<1> DEFINE row == [Library!NoRow EXCEPT ![f] = edits + 1]
           x == [Library!NoCall EXCEPT !.op = "get", !.id = i, !.fields = {f}, !.row = row]
           old == Want(i)
           new == [old EXCEPT ![f] = edits + 1]
           want == [wanted[lident] EXCEPT ![i] = new]
<1>1. /\ Library!OfAgents /\ lident # None /\ wanted[lident][i] # None
      /\ Library!Mutation(x, [wanted[lident] EXCEPT ![i][f] = edits + 1])
      BY DEF Library!UpdateAgent
<1>a. want = [wanted[lident] EXCEPT ![i][f] = edits + 1]
      BY DEF Want
<1> HIDE DEF row
<1>2. x = [op |-> "get", k |-> None, id |-> i, row |-> row, fields |-> {f}, was |-> None]
      BY UpdateCall, Zenon
<1>3. lident \in Seeds /\ edits + 1 \in Nat /\ old \in Rows
      BY <1>1, LibraryAssumption DEF LibInv, LibTypes, Maybe, Want
<1> HIDE DEF x, old
<1>4. row \in Rows /\ row[f] = edits + 1
      BY <1>3 DEF Rows, Library!NoRow, row
<1>b. new \in Rows /\ new[f] = edits + 1 /\ \A g \in Fields \ {f} : new[g] = old[g]
      BY <1>3 DEF Rows
<1> HIDE DEF new
<1>5. x \in CallSet /\ Fit(x) /\ x.op = "get" /\ x.id = i /\ x.was = None /\ x.row = row /\ x.fields = {f}
      BY <1>1, <1>2, <1>4 DEF CallSet, Fit
<1>6. /\ want \in [Ids -> Maybe] /\ want[i] = new
      /\ \A j \in Ids \ {i} : want[j] = Want(j)
      BY <1>3, <1>b DEF LibInv, LibTypes, Maybe, Want
<1> HIDE DEF want
<1>7. \A j \in Ids : Library!Mutates(x, j) <=> j = i
      BY <1>5, LibraryAssumption DEF Library!Mutates
<1>8. ASSUME Mine(i) = Want(i) PROVE new = Due(x, i, Mine(i)) /\ Mine(i) # None
  <2>1. Mine(i) = old /\ old # None
        BY <1>1, <1>8 DEF old, Want
  <2>2. Due(x, i, old) = [g \in Fields |-> IF g \in {f} THEN row[g] ELSE old[g]]
        BY <1>5, <2>1 DEF Due, Library!Merged
  <2>3. new = [g \in Fields |-> IF g \in {f} THEN row[g] ELSE old[g]]
    <3>1. new = [g \in Fields |-> new[g]]
          BY <1>b DEF Rows
    <3>2. \A g \in Fields : new[g] = IF g \in {f} THEN row[g] ELSE old[g]
          BY <1>4, <1>b
    <3> QED BY <3>1, <3>2
  <2> QED BY <2>1, <2>2, <2>3
<1>9. Library!Mutation(x, want)
      BY <1>1, <1>a DEF row
<1> QED BY <1>5, <1>6, <1>7, <1>8, <1>9, MutationKeepsLib

LEMMA SetActiveKeepsLib == ASSUME LibInv, NEW i \in Ids \cup {None}, Library!SetActive(i) PROVE LibInv'
<1>1. /\ panel = "skills" /\ lident # None /\ active' = i
      /\ crossed' = IF i # None /\ Want(i) = None THEN crossed \cup {i} ELSE crossed
      /\ UNCHANGED <<panel, lident, lopen, lunlocks, lrows, lcalls, lanswers, lfetch, llist, lseen, detail, edits, wanted>>
      BY DEF Library!SetActive, Library!store, Want
<1>2. LibTypes'
  <2>1. crossed' \in SUBSET Ids
        BY <1>1 DEF LibInv, LibTypes
  <2> QED BY <1>1, <2>1 DEF LibInv, LibTypes, Fit, Fits, Library!OfAgents
<1>3. ReadLists'
      BY <1>1 DEF LibInv, ReadLists, Shows, ShowsAs, Mine, Single, Has, Library!OfAgents
<1>4. ASSUME NEW j \in Ids \ crossed' PROVE PerId(j)'
  <2>1. PerId(j) /\ (j = i => Want(i) # None)
        BY <1>1, LibraryAssumption DEF LibInv
  <2>2. Alone(j)' /\ Apart(j)'
        BY <1>1, <2>1 DEF PerId, Alone, Apart, CallsOn, AnswersOn
  <2>3. Details(j)'
        BY <1>1, <2>1 DEF PerId, Details, Known, InStore, Library!OfAgents
  <2>4. (lident # None => Wants(j) /\ AgentLists(j))'
        BY <1>1, <2>1 DEF PerId, Wants, Settled, CallWants, AnswerWants, Mine, Want, AgentLists, Base, ShowsAs, Single,
           Has, Library!OfAgents
  <2>5. Chosen(j)'
    <3> SUFFICES ASSUME j = i
                 PROVE  /\ \/ \E s \in Seeds : lrows[s][i] # None
                           \/ \E x \in Els(lcalls) : x.op = "put" /\ x.id = i
                        /\ \A x \in Els(lcalls) \cup Els(lanswers) : ~Removal(x, i)
        BY <1>1 DEF Chosen
    <3>1. Wants(i) /\ Want(i) # None /\ lident \in Seeds /\ ~Library!OfAgents
          BY <1>1, <2>1 DEF PerId, LibInv, LibTypes, Library!OfAgents
    <3>2. \A x \in Els(lcalls) : Fit(x)
          BY DEF LibInv, LibTypes
    <3>3. \A a \in Els(lanswers) : Fit(a)
          BY DEF LibInv, LibTypes, Fits
    <3>4. \A x \in Els(lcalls) : Library!Mutates(x, i) => x.op = "put" /\ x.id = i
      <4> SUFFICES ASSUME NEW x \in Els(lcalls), Library!Mutates(x, i) PROVE x.op = "put" /\ x.id = i
          OBVIOUS
      <4>1. x.op \in {"put", "del"} /\ x.id = i
            BY <1>1, <3>1, <3>2, <2>1, LibraryAssumption DEF Library!Mutates, Fit
      <4>2. Want(i) = Due(x, i, Mine(i))
            BY <3>1 DEF Wants, CallWants
      <4> QED BY <3>1, <4>1, <4>2 DEF Due
    <3>5. \A a \in Els(lanswers) : Library!Mutates(a, i) => a.op = "put" /\ Mine(i) # None
      <4> SUFFICES ASSUME NEW a \in Els(lanswers), Library!Mutates(a, i) PROVE a.op = "put" /\ Mine(i) # None
          OBVIOUS
      <4>1. a.op \in {"put", "del"} /\ a.id = i
            BY <1>1, <3>1, <3>3, <2>1, LibraryAssumption DEF Library!Mutates, Fit
      <4>2. Want(i) = Mine(i) /\ Mine(i) = Due(a, i, None)
            BY <3>1, <4>1 DEF Wants, AnswerWants
      <4> QED BY <3>1, <4>1, <4>2 DEF Due
    <3>6. Settled(i) => Mine(i) # None
          BY <3>1 DEF Wants
    <3>7. Mine(i) # None => \E s \in Seeds : lrows[s][i] # None
          BY <3>1 DEF Mine
    <3>8. (\E s \in Seeds : lrows[s][i] # None) \/ \E x \in Els(lcalls) : x.op = "put" /\ x.id = i
          BY <3>4, <3>5, <3>6, <3>7 DEF Settled
    <3>9. \A x \in Els(lcalls) \cup Els(lanswers) : ~Removal(x, i)
          BY <3>4, <3>5 DEF Removal, Library!Mutates
    <3> QED BY <3>8, <3>9
  <2> QED BY <2>2, <2>3, <2>4, <2>5 DEF PerId
<1> QED BY <1>2, <1>3, <1>4 DEF LibInv

-----------------------------------------------------------------------------
\* The store serves a call.
Reply(x) ==
    [op |-> x.op, k |-> x.k, id |-> x.id, row |-> x.row, fields |-> x.fields, was |-> x.was,
     got |-> IF x.op = "list" THEN Library!SetToSeq(Library!Table(lident))
             ELSE IF x.op \in {"get", "detail"} THEN Mine(x.id) ELSE None]

Written(x, i) == x.op \in {"put", "del"} /\ Library!Mutates(x, i)

LEMMA ServeFacts ==
    ASSUME LibInv, Library!Serve
    PROVE  LET x == Head(lcalls) a == Reply(x) IN
           /\ x \in CallSet /\ Fit(x) /\ a \in AnswerSet /\ Fits(a)
           /\ x.op = "list" => Shows(a.got)
           /\ lident \in Seeds /\ lopen
           /\ lcalls # <<>> /\ lcalls' = Tail(lcalls) /\ lanswers' = Append(lanswers, a)
           /\ lrows' \in [Seeds -> [Ids -> Maybe]]
           /\ \A s \in Seeds \ {lident} : lrows'[s] = lrows[s]
           /\ \A i \in Ids : Mine(i)' = IF Written(x, i) THEN Due(x, i, None) ELSE Mine(i)
           /\ UNCHANGED <<panel, lident, lopen, lunlocks, lfetch, llist, lseen, detail, active, edits, wanted, crossed>>
<1> DEFINE x == Head(lcalls)
           a == Reply(x)
           mine == lrows[lident]
           new == CASE x.op = "put" -> [i \in Ids |-> IF i = x.id THEN x.row ELSE IF i = x.was THEN None ELSE mine[i]]
                    [] x.op = "del" -> [mine EXCEPT ![x.id] = None]
                    [] OTHER -> mine
<1>1. /\ lcalls # <<>> /\ lcalls' = Tail(lcalls)
      /\ UNCHANGED <<panel, lident, lopen, lunlocks, lfetch, llist, lseen, detail, active, edits, wanted, crossed>>
      BY DEF Library!Serve, Library!cache, Library!ghost
<1>2. x \in CallSet /\ x \in Els(lcalls)
      BY <1>1, TailEls DEF LibInv, LibTypes
<1>3. Fit(x) /\ lopen /\ lident \in Seeds /\ mine \in [Ids -> Maybe]
      BY <1>1, <1>2 DEF LibInv, LibTypes
<1>4. lanswers' = Append(lanswers, a)
  <2>1. lanswers' = Append(lanswers,
          [op |-> x.op, k |-> x.k, id |-> x.id, row |-> x.row, fields |-> x.fields, was |-> x.was,
           got |-> IF x.op = "list" THEN Library!SetToSeq(Library!Table(lident))
                   ELSE IF x.op \in {"get", "detail"} THEN lrows[lident][x.id] ELSE None])
        BY DEF Library!Serve
  <2> QED BY <2>1 DEF Reply, Mine
<1>5. lrows' = [lrows EXCEPT ![lident] = new]
  <2>1. lrows' = CASE x.op = "put" -> [lrows EXCEPT ![lident] =
                          [i \in Ids |-> IF i = x.id THEN x.row ELSE IF i = x.was THEN None ELSE lrows[lident][i]]]
                   [] x.op = "del" -> [lrows EXCEPT ![lident][x.id] = None]
                   [] OTHER -> lrows
        BY DEF Library!Serve
  <2>2. CASE x.op = "put"
        BY <2>1, <2>2
  <2>3. CASE x.op = "del"
        BY <2>1, <2>3
  <2>4. CASE x.op \notin {"put", "del"}
    <3>1. lrows' = lrows /\ new = mine
          BY <2>1, <2>4
    <3>2. lrows = [lrows EXCEPT ![lident] = lrows[lident]]
          BY <1>3 DEF LibInv, LibTypes
    <3> QED BY <3>1, <3>2
  <2> QED BY <2>2, <2>3, <2>4
<1>6. x.id \in Ids \/ x.op = "list"
      BY <1>3 DEF Fit
<1>7. x.row \in Rows /\ x.op \in {"list", "detail", "get", "put", "del"}
      BY <1>2 DEF CallSet
<1>8. LET l == Library!SetToSeq(Library!Table(lident)) IN l \in Seq(Items) /\ Shows(l)
      BY <1>3, TableShows DEF LibInv
<1> HIDE DEF x
<1>9. /\ a.op = x.op /\ a.k = x.k /\ a.id = x.id /\ a.row = x.row /\ a.fields = x.fields /\ a.was = x.was
      /\ x.op = "list" => a.got \in Seq(Items) /\ Shows(a.got)
      /\ x.op \in {"get", "detail"} => a.got = Mine(x.id)
      /\ a.got \in Maybe \cup Seq(Items)
  <2>1. /\ a.op = x.op /\ a.k = x.k /\ a.id = x.id /\ a.row = x.row /\ a.fields = x.fields /\ a.was = x.was
        /\ x.op = "list" => a.got = Library!SetToSeq(Library!Table(lident))
        /\ x.op \in {"get", "detail"} => a.got = Mine(x.id)
        /\ x.op \notin {"list", "get", "detail"} => a.got = None
        BY DEF Reply
  <2>2. x.op # "list" => Mine(x.id) \in Maybe
        BY <1>3, <1>6 DEF Mine
  <2> QED BY <1>7, <1>8, <2>1, <2>2 DEF Maybe
<1>10. a \in AnswerSet
  <2>1. a = [op |-> a.op, k |-> a.k, id |-> a.id, row |-> a.row, fields |-> a.fields, was |-> a.was, got |-> a.got]
        BY DEF Reply
  <2>2. /\ x.op \in {"list", "detail", "get", "put", "del"} /\ x.k \in Ids \cup {None}
        /\ x.id \in Ids \cup {None} /\ x.row \in Rows /\ x.fields \in SUBSET Fields /\ x.was \in Ids \cup {None}
        BY <1>2 DEF CallSet
  <2> HIDE DEF a
  <2> QED BY <1>9, <2>1, <2>2 DEF AnswerSet
<1>11. Fits(a)
  <2>1. x.op \in {"get", "detail"} => Mine(x.id) \in Maybe
        BY <1>3, <1>6 DEF Mine
  <2> HIDE DEF a
  <2> QED BY <1>3, <1>9, <2>1 DEF Fits, Fit
<1>12. /\ new \in [Ids -> Maybe]
       /\ \A i \in Ids : new[i] = IF Written(x, i) THEN Due(x, i, None) ELSE mine[i]
  <2>1. CASE x.op = "put"
    <3>1. new = [i \in Ids |-> IF i = x.id THEN x.row ELSE IF i = x.was THEN None ELSE mine[i]]
          BY <2>1
    <3>2. \A i \in Ids : Written(x, i) <=> i = x.id \/ i = x.was
          BY <2>1 DEF Written, Library!Mutates
    <3> HIDE DEF new, mine
    <3> QED BY <1>3, <1>7, <2>1, <3>1, <3>2 DEF Due, Maybe, mine
  <2>2. CASE x.op = "del"
    <3>1. new = [mine EXCEPT ![x.id] = None]
          BY <2>2
    <3>2. \A i \in Ids : Written(x, i) <=> i = x.id
          BY <1>3, <2>2, LibraryAssumption DEF Written, Library!Mutates, Fit
    <3> HIDE DEF new, mine
    <3> QED BY <1>3, <1>7, <2>2, <3>1, <3>2 DEF Due, Maybe, mine
  <2>3. CASE x.op \notin {"put", "del"}
    <3>1. new = mine /\ \A i \in Ids : ~Written(x, i)
          BY <2>3 DEF Written
    <3> HIDE DEF new, mine
    <3> QED BY <1>3, <3>1 DEF mine
  <2> QED BY <2>1, <2>2, <2>3
<1> HIDE DEF new
<1>13. /\ lrows' \in [Seeds -> [Ids -> Maybe]] /\ lrows'[lident] = new
       /\ \A s \in Seeds \ {lident} : lrows'[s] = lrows[s]
      BY <1>3, <1>5, <1>12 DEF LibInv, LibTypes
<1>14. \A i \in Ids : Mine(i)' = IF Written(x, i) THEN Due(x, i, None) ELSE Mine(i)
      BY <1>1, <1>12, <1>13 DEF Mine
<1> HIDE DEF a
<1> QED BY <1>1, <1>2, <1>3, <1>4, <1>9, <1>10, <1>11, <1>13, <1>14 DEF x, a

LEMMA ReplyIs ==
    ASSUME NEW x
    PROVE  /\ Reply(x).op = x.op /\ Reply(x).k = x.k /\ Reply(x).id = x.id /\ Reply(x).row = x.row
           /\ Reply(x).fields = x.fields /\ Reply(x).was = x.was
           /\ x.op \in {"get", "detail"} => Reply(x).got = Mine(x.id)
  BY DEF Reply

LEMMA ServeKeepsLib == ASSUME LibInv, Library!Serve PROVE LibInv'
<1>1. PICK x \in CallSet, a \in AnswerSet :
      /\ x = Head(lcalls) /\ a = Reply(x)
      /\ Fit(x) /\ Fits(a)
      /\ x.op = "list" => Shows(a.got)
      /\ lident \in Seeds /\ lopen
      /\ lcalls # <<>> /\ lcalls' = Tail(lcalls) /\ lanswers' = Append(lanswers, a)
      /\ lrows' \in [Seeds -> [Ids -> Maybe]]
      /\ \A s \in Seeds \ {lident} : lrows'[s] = lrows[s]
      /\ \A i \in Ids : Mine(i)' = IF Written(x, i) THEN Due(x, i, None) ELSE Mine(i)
      /\ UNCHANGED <<panel, lident, lopen, lunlocks, lfetch, llist, lseen, detail, active, edits, wanted, crossed>>
      BY ServeFacts
<1>2. /\ a.op = x.op /\ a.k = x.k /\ a.id = x.id /\ a.row = x.row /\ a.fields = x.fields /\ a.was = x.was
      /\ x.op \in {"get", "detail"} => a.got = Mine(x.id)
      BY <1>1, ReplyIs
<1>3. lcalls \in Seq(CallSet) /\ lanswers \in Seq(AnswerSet)
      BY DEF LibInv, LibTypes
<1>4. Els(lcalls) = {x} \cup Els(lcalls') /\ lcalls' \in Seq(CallSet)
      BY <1>1, <1>3, TailEls
<1>5. /\ lanswers' \in Seq(AnswerSet) /\ Els(lanswers') = Els(lanswers) \cup {a}
      /\ \A r \in Reads(lanswers') :
           r = <<a, {}>> \/ \E R : <<r[1], R>> \in Reads(lanswers) /\ r = <<r[1], R \cup {a}>>
  <2>1. a \in AnswerSet /\ lanswers' = Append(lanswers, a)
        BY <1>1
  <2>2. lanswers' \in Seq(AnswerSet) /\ Els(lanswers') = Els(lanswers) \cup {a} /\ Longer(lanswers', lanswers, a)
        BY <1>3, <2>1, AppendEls
  <2> QED BY <2>2 DEF Longer
<1>6. ASSUME NEW K, Once(K, lcalls)
      PROVE  Once(K, lcalls') /\ (x \in K => Els(lcalls') \cap K = {})
      BY <1>1, <1>3, <1>6, OnceTail
<1>7. ASSUME NEW K, Once(K, lanswers), a \notin K \/ Els(lanswers) \cap K = {}
      PROVE  Once(K, lanswers')
      BY <1>1, <1>3, <1>7, OnceAppend
<1>8. /\ \A i \in Ids : Library!Mutates(a, i) <=> Library!Mutates(x, i)
      /\ \A i \in Ids : Written(x, i) => x.op \in {"put", "del"} /\ Library!Mutates(x, i)
      /\ \A i \in Ids : ~Written(x, i) => x.op \notin {"put", "del"} \/ ~Library!Mutates(x, i)
      BY <1>2 DEF Library!Mutates, Written
<1>9. LibTypes'
  <2>1. \A y \in Els(lcalls') : Fit(y)'
        BY <1>1, <1>4 DEF LibInv, LibTypes, Fit, Library!OfAgents
  <2>2. \A b \in Els(lanswers') : Fits(b)'
        BY <1>1, <1>5 DEF LibInv, LibTypes, Fits, Fit, Library!OfAgents
  <2> QED BY <1>1, <1>4, <1>5, <2>1, <2>2 DEF LibInv, LibTypes, Library!OfAgents
<1>10. x.op \notin {"put", "del"} => \A i \in Ids : Mine(i)' = Mine(i)
      BY <1>1, <1>8
<1>11. ASSUME NEW l, x.op \notin {"put", "del"}, Shows(l) PROVE Shows(l)'
      BY <1>10, <1>11 DEF Shows, ShowsAs, Single, Has
<1>12. ReadLists'
  <2> SUFFICES ASSUME ~Library!OfAgents
               PROVE  /\ \E b \in Els(lanswers') : b.op \in {"put", "del", "list"}
                      /\ \A r \in Reads(lanswers') : r[1].op = "list" =>
                            Shows(r[1].got)' \/ \E b \in r[2] : b.op \in {"put", "del"}
      BY <1>1 DEF ReadLists, Library!OfAgents
  <2>1. x.op \in {"put", "del", "list"}
        BY <1>1 DEF Fit, CallSet
  <2>2. \E b \in Els(lanswers') : b.op \in {"put", "del", "list"}
        BY <1>2, <1>5, <2>1
  <2>3. ASSUME NEW r \in Reads(lanswers'), r[1].op = "list"
        PROVE  Shows(r[1].got)' \/ \E b \in r[2] : b.op \in {"put", "del"}
    <3>1. CASE r = <<a, {}>>
      <4>1. r[1] = a
            BY <3>1
      <4> QED BY <1>1, <1>2, <1>11, <2>3, <4>1
    <3>2. ASSUME NEW R, <<r[1], R>> \in Reads(lanswers), r = <<r[1], R \cup {a}>>
          PROVE  Shows(r[1].got)' \/ \E b \in r[2] : b.op \in {"put", "del"}
      <4>1. r[2] = R \cup {a} /\ a.op = x.op
            BY <1>2, <3>2
      <4>2. Shows(r[1].got) \/ \E b \in R : b.op \in {"put", "del"}
        <5>1. \A q \in Reads(lanswers) : q[1].op = "list" => Shows(q[1].got) \/ \E b \in q[2] : b.op \in {"put", "del"}
              BY <1>1, NoneAssumption DEF LibInv, ReadLists
        <5>2. <<r[1], R>>[1] = r[1] /\ <<r[1], R>>[2] = R
              OBVIOUS
        <5> QED BY <2>3, <3>2, <5>1, <5>2
      <4> QED BY <1>11, <4>1, <4>2
    <3> QED BY <1>5, <3>1, <3>2
  <2> QED BY <2>2, <2>3
<1>13. ASSUME NEW i \in Ids \ crossed PROVE PerId(i)'
  <2>1. PerId(i) /\ i \in Ids /\ i # None /\ lident # None /\ Wants(i)
        BY <1>1, NoneAssumption, LibraryAssumption DEF LibInv, PerId
  <2>2. ASSUME Library!Mutates(x, i)
        PROVE  /\ CallWants(x, i)
               /\ \A y \in Els(lcalls') : ~Library!Mutates(y, i)
               /\ \A b \in Els(lanswers) : ~Library!Mutates(b, i)
    <3>1. x \in CallsOn(i) /\ x \in Els(lcalls)
          BY <1>1, <1>4, <2>2 DEF CallsOn
    <3>2. Els(lcalls') \cap CallsOn(i) = {} /\ Els(lanswers) \cap AnswersOn(i) = {}
          BY <1>6, <2>1, <3>1 DEF PerId, Alone
    <3>3. Els(lcalls') \subseteq CallSet /\ Els(lanswers) \subseteq AnswerSet
          BY <1>3, <1>4, ElsOf
    <3> QED BY <2>1, <2>2, <3>1, <3>2, <3>3 DEF CallsOn, AnswersOn, Wants
  <2>3. Mine(i)' = IF Written(x, i) THEN Due(x, i, None) ELSE Mine(i)
        BY <1>1
  <2>4. Want(i)' = Want(i)
        BY <1>1 DEF Want
  <2>5. Alone(i)'
    <3>1. Once(CallsOn(i), lcalls') /\ Once(AnswersOn(i), lanswers')
      <4>1. a \notin AnswersOn(i) \/ Els(lanswers) \cap AnswersOn(i) = {}
            BY <1>8, <2>1, <2>2 DEF AnswersOn
      <4>2. Once(CallsOn(i), lcalls) /\ Once(AnswersOn(i), lanswers)
            BY <2>1 DEF PerId, Alone
      <4> QED BY <1>6, <1>7, <4>1, <4>2
    <3>2. Els(lcalls') \cap CallsOn(i) = {} \/ Els(lanswers') \cap AnswersOn(i) = {}
          BY <1>4, <1>5, <1>8, <2>1, <2>2 DEF PerId, Alone, CallsOn, AnswersOn
    <3> QED BY <3>1, <3>2 DEF Alone, CallsOn, AnswersOn
  <2>6. Apart(i)'
        BY <1>1, <2>1 DEF PerId, Apart
  <2>7. Wants(i)'
    <3>1. CASE Library!Mutates(x, i)
      <4>1. AnswerWants(a, i)'
        <5>1. CASE x.op = "get"
          <6>1. x.id = i /\ Library!OfAgents
                BY <1>1, <2>1, <3>1, <5>1 DEF Fit, Library!Mutates
          <6>2. Mine(i)' = Mine(i) /\ a.got = Mine(i)
                BY <1>2, <1>8, <2>1, <2>3, <5>1, <6>1
          <6>3. Want(i) = Library!Merged(Mine(i), x) /\ x.fields # {} /\ Mine(i) # None
                BY <2>2, <3>1, <5>1, <6>1 DEF CallWants, Due
          <6>4. Library!Merged(Mine(i), x) = Library!Merged(a.got, a)
                BY <1>2, <6>2 DEF Library!Merged
          <6> QED BY <1>2, <2>4, <5>1, <6>2, <6>3, <6>4 DEF AnswerWants
        <5>2. CASE x.op # "get"
          <6>1. Written(x, i)
                BY <3>1, <5>2 DEF Written, Library!Mutates
          <6>2. Want(i) = Due(x, i, None)
                BY <2>2, <3>1, <5>2 DEF CallWants, Due
          <6>3. Due(a, i, None) = Due(x, i, None)
                BY <1>2, <5>2 DEF Due
          <6> QED BY <1>2, <2>3, <2>4, <5>2, <6>1, <6>2, <6>3 DEF AnswerWants
        <5> QED BY <5>1, <5>2
      <4>2. ~Settled(i)'
            BY <1>5, <1>8, <2>1, <3>1 DEF Settled
      <4> QED BY <1>5, <2>2, <3>1, <4>1, <4>2 DEF Wants
    <3>2. CASE ~Library!Mutates(x, i)
      <4>1. Mine(i)' = Mine(i) /\ ~Library!Mutates(a, i)
            BY <1>8, <2>1, <2>3, <3>2
      <4>2. Settled(i)' => Settled(i)
            BY <1>4, <1>5, <3>2 DEF Settled
      <4>3. \A y \in Els(lcalls') : Library!Mutates(y, i) => CallWants(y, i)'
            BY <1>1, <1>4, <2>1, <2>4, <4>1 DEF Wants, CallWants, Library!OfAgents
      <4>4. \A b \in Els(lanswers') : Library!Mutates(b, i) => AnswerWants(b, i)'
            BY <1>5, <2>1, <2>4, <4>1 DEF Wants, AnswerWants
      <4> QED BY <2>1, <2>4, <4>1, <4>2, <4>3, <4>4 DEF Wants
    <3> QED BY <3>1, <3>2
  <2>8. Details(i)'
    <3> SUFFICES ASSUME Library!OfAgents
                 PROVE  /\ Known(detail[i], i, Els(lanswers))'
                        /\ \A r \in Reads(lanswers') : r[1].op = "detail" /\ r[1].id = i => Known(r[1].got, i, r[2])'
        BY <1>1 DEF Details, Library!OfAgents
    <3>1. ASSUME NEW v, NEW R, Known(v, i, R) PROVE Known(v, i, R \cup {a})'
      <4>1. CASE v = None \/ \E b \in R : Replaces(b, i)
            BY <4>1 DEF Known
      <4>2. CASE \E s \in Seeds \ {lident} : lrows[s][i] = v
            BY <1>1, <4>2 DEF Known, InStore
      <4>3. CASE Mine(i) = v
        <5>1. CASE ~Written(x, i)
          <6>1. lrows'[lident][i] = v
                BY <1>1, <2>3, <4>3, <5>1 DEF Mine
          <6> QED BY <1>1, <6>1 DEF Known, InStore
        <5>2. CASE Written(x, i)
          <6>1. x.id = i /\ x.op \in {"put", "del"} /\ CallWants(x, i)
                BY <1>1, <1>8, <2>1, <2>2, <5>2 DEF Fit, Library!Mutates, Library!OfAgents
          <6>2. v = None \/ Replaces(a, i)
                BY <1>2, <4>3, <6>1 DEF CallWants, Replaces
          <6> QED BY <6>2 DEF Known
        <5> QED BY <5>1, <5>2
      <4> QED BY <1>1, <3>1, <4>1, <4>2, <4>3 DEF Known, InStore, Mine
    <3>2. Known(detail[i], i, Els(lanswers))'
          BY <1>1, <1>5, <2>1, <3>1 DEF PerId, Details
    <3>3. ASSUME NEW r \in Reads(lanswers'), r[1].op = "detail", r[1].id = i PROVE Known(r[1].got, i, r[2])'
      <4>1. CASE r = <<a, {}>>
        <5>1. r[1] = a
              BY <4>1
        <5>2. a.got = Mine(i) /\ Mine(i)' = Mine(i)
              BY <1>2, <1>10, <2>1, <3>3, <5>1
        <5>3. lrows'[lident][i] = r[1].got
              BY <1>1, <5>1, <5>2 DEF Mine
        <5> QED BY <1>1, <5>3 DEF Known, InStore
      <4>2. ASSUME NEW R, <<r[1], R>> \in Reads(lanswers), r = <<r[1], R \cup {a}>>
            PROVE  Known(r[1].got, i, r[2])'
        <5>1. <<r[1], R>>[1] = r[1] /\ <<r[1], R>>[2] = R /\ r[2] = R \cup {a}
              BY <4>2
        <5>2. Known(r[1].got, i, R)
              BY <2>1, <3>3, <4>2, <5>1 DEF PerId, Details
        <5> QED BY <3>1, <5>1, <5>2
      <4> QED BY <1>5, <3>3, <4>1, <4>2
    <3> QED BY <3>2, <3>3
  <2>9. Chosen(i)'
    <3> SUFFICES ASSUME active = i
                 PROVE  /\ \/ \E s \in Seeds : lrows'[s][i] # None
                           \/ \E y \in Els(lcalls') : y.op = "put" /\ y.id = i
                           \/ \E b \in Els(lanswers') : Removal(b, i)
                        /\ \A y \in Els(lcalls') : Removal(y, i) => y.k = i
                        /\ \A b \in Els(lanswers') : Removal(b, i) => b.k = i
        BY <1>1 DEF Chosen
    <3>1. /\ \/ \E s \in Seeds : lrows[s][i] # None
             \/ \E y \in Els(lcalls) : y.op = "put" /\ y.id = i
             \/ \E b \in Els(lanswers) : Removal(b, i)
          /\ \A y \in Els(lcalls) : Removal(y, i) => y.k = i
          /\ \A b \in Els(lanswers) : Removal(b, i) => b.k = i
          BY <2>1 DEF PerId, Chosen
    <3>2. x.was = None
          BY <1>1, <2>1 DEF Fit, LibInv, LibTypes
    <3>3. x.op = "put" /\ x.id = i => lrows'[lident][i] # None
      <4> SUFFICES ASSUME x.op = "put", x.id = i PROVE lrows'[lident][i] # None
          OBVIOUS
      <4>1. Written(x, i)
            BY DEF Written, Library!Mutates
      <4>2. Mine(i)' = x.row
            BY <2>3, <4>1 DEF Due
      <4>3. x.row # None
            BY <1>1, LibraryAssumption DEF CallSet, Rows
      <4> QED BY <1>1, <4>2, <4>3 DEF Mine
    <3>4. ASSUME NEW s \in Seeds, lrows[s][i] # None
          PROVE  (\E q \in Seeds : lrows'[q][i] # None) \/ \E b \in Els(lanswers') : Removal(b, i)
      <4>1. CASE s # lident
        <5>1. lrows'[s][i] # None
              BY <1>1, <3>4, <4>1
        <5> QED BY <5>1
      <4>2. CASE s = lident /\ ~Written(x, i)
        <5>1. lrows'[lident][i] # None
              BY <1>1, <2>3, <3>4, <4>2 DEF Mine
        <5> QED BY <1>1, <5>1
      <4>3. CASE Written(x, i)
        <5>1. x.id = i /\ x.op \in {"put", "del"}
              BY <1>8, <2>1, <3>2, <4>3 DEF Library!Mutates
        <5>2. x.op = "del" => Removal(a, i)
              BY <1>2, <5>1 DEF Removal
        <5> QED BY <1>1, <1>5, <3>3, <5>1, <5>2
      <4> QED BY <4>1, <4>2, <4>3
    <3>5. \/ \E s \in Seeds : lrows'[s][i] # None
          \/ \E y \in Els(lcalls') : y.op = "put" /\ y.id = i
          \/ \E b \in Els(lanswers') : Removal(b, i)
          BY <1>1, <1>4, <1>5, <3>1, <3>3, <3>4
    <3>6. \A y \in Els(lcalls') : Removal(y, i) => y.k = i
          BY <1>4, <3>1
    <3>7. \A b \in Els(lanswers') : Removal(b, i) => b.k = i
          BY <1>2, <1>4, <1>5, <3>1 DEF Removal
    <3> QED BY <3>5, <3>6, <3>7
  <2>10. AgentLists(i)'
    <3> SUFFICES ASSUME panel = "agents"
                 PROVE  /\ lseen => Base(llist, i, Els(lanswers))'
                        /\ \A r \in Reads(lanswers') : r[1].op = "list" => Base(r[1].got, i, r[2])'
        BY <1>1 DEF AgentLists
    <3>1. Changes(a, i) <=> Written(x, i)
          BY <1>1, <1>2, <2>1 DEF Changes, Written, Library!Mutates, Fit
    <3>2. ASSUME NEW l, NEW R \in SUBSET Els(lanswers), Base(l, i, R) PROVE Base(l, i, R \cup {a})'
      <4>1. CASE Changes(a, i)
        <5>1. Library!Mutates(x, i) /\ x.op \in {"put", "del"} /\ CallWants(x, i)
              BY <1>8, <2>1, <2>2, <3>1, <4>1
        <5>2. \A b \in R : ~Changes(b, i)
              BY <2>2, <5>1 DEF Changes, Library!Mutates
        <5>3. ShowsAs(l, i, Mine(i))
              BY <3>2, <5>2 DEF Base
        <5>4. Single(l, i) /\ (Mine(i) = None <=> ~Has(l, i))
              BY <5>3 DEF ShowsAs, Has, Library!Item
        <5>5. a.op = "put" => (a.fields = {} <=> Mine(i) = None)
              BY <1>2, <5>1 DEF CallWants, Library!OfAgents
        <5> QED BY <4>1, <5>2, <5>4, <5>5 DEF Base, Single, Has
      <4>2. CASE ~Changes(a, i)
        <5>1. Mine(i)' = Mine(i)
              BY <2>3, <3>1, <4>2
        <5> QED BY <3>2, <4>2, <5>1 DEF Base, ShowsAs, Single, Has
      <4> QED BY <4>1, <4>2
    <3>3. lseen => Base(llist, i, Els(lanswers))'
          BY <1>1, <1>5, <2>1, <3>2 DEF PerId, AgentLists
    <3>4. ASSUME NEW r \in Reads(lanswers'), r[1].op = "list" PROVE Base(r[1].got, i, r[2])'
      <4>1. CASE r = <<a, {}>>
        <5>1. r[1] = a /\ r[2] = {}
              BY <4>1
        <5>2. Shows(a.got) /\ Mine(i)' = Mine(i)
              BY <1>1, <1>2, <1>10, <2>1, <3>4, <5>1
        <5> QED BY <2>1, <5>1, <5>2 DEF Base, Shows, ShowsAs, Single, Has
      <4>2. ASSUME NEW R, <<r[1], R>> \in Reads(lanswers), r = <<r[1], R \cup {a}>>
            PROVE  Base(r[1].got, i, r[2])'
        <5>1. <<r[1], R>>[1] = r[1] /\ <<r[1], R>>[2] = R /\ r[2] = R \cup {a}
              BY <4>2
        <5>2. R \subseteq Els(lanswers)
              BY <1>3, <4>2, <5>1, ReadEls
        <5>3. Base(r[1].got, i, R)
              BY <2>1, <3>4, <4>2, <5>1 DEF PerId, AgentLists
        <5> QED BY <3>2, <5>1, <5>2, <5>3
      <4> QED BY <1>5, <3>4, <4>1, <4>2
    <3> QED BY <3>3, <3>4
  <2> QED BY <2>5, <2>6, <2>7, <2>8, <2>9, <2>10 DEF PerId
<1> QED BY <1>1, <1>9, <1>12, <1>13 DEF LibInv

\* An answer arrives.
Arrived(a) ==
    /\ lanswers # <<>> /\ a = Head(lanswers) /\ lanswers' = Tail(lanswers)
    /\ UNCHANGED <<panel, lident, lopen, lunlocks, lrows, edits, wanted, crossed>>

LEMMA ArrivedFacts ==
    ASSUME LibInv, NEW CONSTANT a, Arrived(a)
    PROVE  /\ a \in AnswerSet /\ Fits(a) /\ Fit(a) /\ lopen /\ lident \in Seeds /\ lident # None
           /\ lanswers' \in Seq(AnswerSet) /\ Els(lanswers) = {a} \cup Els(lanswers')
           /\ Reads(lanswers') \subseteq Reads(lanswers)
           /\ <<a, Els(lanswers')>> \in Reads(lanswers)
           /\ \A b \in Els(lanswers') : Fits(b)'
           /\ \A i : Mine(i)' = Mine(i) /\ Want(i)' = Want(i)
           /\ \A l : Shows(l) => Shows(l)'
<1>1. lanswers \in Seq(AnswerSet) /\ lanswers # <<>> /\ a = Head(lanswers) /\ lanswers' = Tail(lanswers)
      BY DEF Arrived, LibInv, LibTypes
<1>2. /\ a \in AnswerSet /\ lanswers' \in Seq(AnswerSet) /\ Els(lanswers) = {a} \cup Els(lanswers')
      /\ Reads(lanswers') \subseteq Reads(lanswers) /\ <<a, Els(lanswers')>> \in Reads(lanswers)
      BY <1>1, TailEls
<1>3. Fits(a) /\ Fit(a) /\ lopen /\ lident \in Seeds /\ lident # None
      BY <1>1, <1>2, NoneAssumption DEF LibInv, LibTypes, Fits
<1>4. \A b \in Els(lanswers') : Fits(b)'
      BY <1>2 DEF LibInv, LibTypes, Fits, Fit, Arrived, Library!OfAgents
<1>5. \A i : Mine(i)' = Mine(i) /\ Want(i)' = Want(i)
      BY DEF Mine, Want, Arrived
<1>6. \A l : Shows(l) => Shows(l)'
      BY <1>5 DEF Shows, ShowsAs, Single, Has
<1> QED BY <1>2, <1>3, <1>4, <1>5, <1>6

\* What an answer that arrives leaves true of i, whatever becomes of it.
LEMMA ArrivedKeeps ==
    ASSUME LibInv, NEW CONSTANT a, Arrived(a), NEW CONSTANT i \in Ids \ crossed
    PROVE  /\ Apart(i)'
           /\ Once(AnswersOn(i), lanswers')
           /\ Library!Mutates(a, i) =>
                /\ AnswerWants(a, i)
                /\ \A x \in Els(lcalls) : ~Library!Mutates(x, i)
                /\ \A b \in Els(lanswers') : ~Library!Mutates(b, i)
           /\ \A v : Known(v, i, Els(lanswers)) /\ ~Replaces(a, i) => Known(v, i, Els(lanswers))'
           /\ Library!OfAgents => Known(detail[i], i, Els(lanswers))
           /\ Library!OfAgents => \A r \in Reads(lanswers') : r[1].op = "detail" /\ r[1].id = i => Known(r[1].got, i, r[2])'
           /\ Library!OfAgents /\ a.op = "detail" /\ a.id = i => Known(a.got, i, Els(lanswers))'
           /\ panel = "agents" /\ lseen /\ ~Changes(a, i) => Base(llist, i, Els(lanswers'))
           /\ panel = "agents" => \A r \in Reads(lanswers') : r[1].op = "list" => Base(r[1].got, i, r[2])'
           /\ panel = "agents" /\ a.op = "list" => Base(a.got, i, Els(lanswers'))
           /\ \A l, R : Base(l, i, R) => Base(l, i, R)'
           /\ \A x \in Els(lcalls) : Library!Mutates(x, i) => CallWants(x, i)'
           /\ \A b \in Els(lanswers') : Library!Mutates(b, i) => AnswerWants(b, i)'
<1>1. /\ a \in AnswerSet /\ lident \in Seeds /\ lident # None
      /\ Els(lanswers) = {a} \cup Els(lanswers') /\ lanswers' \in Seq(AnswerSet)
      /\ Reads(lanswers') \subseteq Reads(lanswers)
      /\ <<a, Els(lanswers')>> \in Reads(lanswers)
      /\ \A j : Mine(j)' = Mine(j) /\ Want(j)' = Want(j)
      BY ArrivedFacts
<1>2. /\ lanswers # <<>> /\ a = Head(lanswers) /\ lanswers' = Tail(lanswers)
      /\ UNCHANGED <<panel, lident, lopen, lunlocks, lrows, edits, wanted, crossed>>
      BY DEF Arrived
<1>3. PerId(i) /\ Wants(i) /\ AgentLists(i) /\ lanswers \in Seq(AnswerSet) /\ lcalls \in Seq(CallSet)
      BY <1>1 DEF LibInv, LibTypes, PerId
<1>4. Apart(i)'
      BY <1>2, <1>3 DEF PerId, Apart
<1>5. Once(AnswersOn(i), lanswers') /\ (a \in AnswersOn(i) => Els(lanswers') \cap AnswersOn(i) = {})
  <2> DEFINE K == AnswersOn(i)
  <2>1. Once(K, lanswers)
        BY <1>3 DEF PerId, Alone
  <2> HIDE DEF K
  <2>2. Once(K, lanswers') /\ (a \in K => Els(lanswers') \cap K = {})
        BY <1>2, <1>3, <2>1, OnceTail
  <2> QED BY <2>2 DEF K
<1>6. ASSUME Library!Mutates(a, i)
      PROVE  /\ AnswerWants(a, i)
             /\ \A x \in Els(lcalls) : ~Library!Mutates(x, i)
             /\ \A b \in Els(lanswers') : ~Library!Mutates(b, i)
  <2>1. a \in AnswersOn(i) /\ a \in Els(lanswers)
        BY <1>1, <1>6 DEF AnswersOn
  <2>2. Els(lcalls) \subseteq CallSet /\ Els(lanswers') \subseteq AnswerSet
        BY <1>1, <1>3, ElsOf
  <2>3. Els(lcalls) \cap CallsOn(i) = {} /\ Els(lanswers') \cap AnswersOn(i) = {}
        BY <1>3, <1>5, <2>1 DEF PerId, Alone
  <2> QED BY <1>3, <1>6, <2>1, <2>2, <2>3 DEF CallsOn, AnswersOn, Wants
<1>7. ASSUME NEW CONSTANT v, Known(v, i, Els(lanswers)), ~Replaces(a, i) PROVE Known(v, i, Els(lanswers))'
      BY <1>1, <1>2, <1>7 DEF Known, InStore
<1>8. ASSUME NEW CONSTANT v, NEW CONSTANT R, Known(v, i, R) PROVE Known(v, i, R)'
      BY <1>2, <1>8 DEF Known, InStore
<1>9. ASSUME Library!OfAgents
      PROVE  /\ Known(detail[i], i, Els(lanswers))
             /\ \A r \in Reads(lanswers') : r[1].op = "detail" /\ r[1].id = i => Known(r[1].got, i, r[2])'
             /\ a.op = "detail" /\ a.id = i => Known(a.got, i, Els(lanswers))'
  <2>1. \A r \in Reads(lanswers) : r[1].op = "detail" /\ r[1].id = i => Known(r[1].got, i, r[2])
        BY <1>3, <1>9 DEF PerId, Details
  <2>2. Known(detail[i], i, Els(lanswers))
        BY <1>3, <1>9 DEF PerId, Details
  <2>3. ASSUME NEW CONSTANT r \in Reads(lanswers'), r[1].op = "detail", r[1].id = i PROVE Known(r[1].got, i, r[2])'
        BY <1>1, <1>8, <2>1, <2>3
  <2>4. ASSUME a.op = "detail", a.id = i PROVE Known(a.got, i, Els(lanswers))'
    <3>1. <<a, Els(lanswers')>>[1] = a /\ <<a, Els(lanswers')>>[2] = Els(lanswers')
          OBVIOUS
    <3>2. Known(a.got, i, Els(lanswers'))
          BY <1>1, <2>1, <2>4, <3>1
    <3> QED BY <1>2, <3>2 DEF Known, InStore
  <2> QED BY <2>2, <2>3, <2>4
<1>10. ASSUME NEW CONSTANT l, NEW CONSTANT R, Base(l, i, R) PROVE Base(l, i, R)'
      BY <1>1, <1>10 DEF Base, ShowsAs, Single, Has
<1>11. ASSUME panel = "agents"
       PROVE  /\ lseen /\ ~Changes(a, i) => Base(llist, i, Els(lanswers'))
              /\ \A r \in Reads(lanswers') : r[1].op = "list" => Base(r[1].got, i, r[2])'
              /\ a.op = "list" => Base(a.got, i, Els(lanswers'))
  <2>1. /\ lseen => Base(llist, i, Els(lanswers))
        /\ \A r \in Reads(lanswers) : r[1].op = "list" => Base(r[1].got, i, r[2])
        BY <1>3, <1>11 DEF AgentLists
  <2>2. ASSUME lseen, ~Changes(a, i) PROVE Base(llist, i, Els(lanswers'))
        BY <1>1, <2>1, <2>2 DEF Base
  <2>3. ASSUME NEW CONSTANT r \in Reads(lanswers'), r[1].op = "list" PROVE Base(r[1].got, i, r[2])'
        BY <1>1, <1>10, <2>1, <2>3
  <2>4. ASSUME a.op = "list" PROVE Base(a.got, i, Els(lanswers'))
    <3>1. <<a, Els(lanswers')>>[1] = a /\ <<a, Els(lanswers')>>[2] = Els(lanswers')
          OBVIOUS
    <3> QED BY <1>1, <2>1, <2>4, <3>1
  <2> QED BY <2>2, <2>3, <2>4
<1>12. \A x \in Els(lcalls) : Library!Mutates(x, i) => CallWants(x, i)'
      BY <1>1, <1>2, <1>3 DEF Wants, CallWants, Library!OfAgents
<1>13. \A b \in Els(lanswers') : Library!Mutates(b, i) => AnswerWants(b, i)'
      BY <1>1, <1>3 DEF Wants, AnswerWants
<1> QED BY <1>4, <1>5, <1>6, <1>7, <1>9, <1>10, <1>11, <1>12, <1>13

\* What was read is shown.
LEMMA LibListArrives ==
    ASSUME LibInv, NEW CONSTANT a, Arrived(a), a.op = "list", llist' = a.got, lseen', lfetch' = "none", lseen' \in BOOLEAN,
           UNCHANGED <<lcalls, detail, active>>
    PROVE  LibInv'
<1>1. /\ a \in AnswerSet /\ Fits(a) /\ lident \in Seeds /\ lident # None
      /\ Els(lanswers) = {a} \cup Els(lanswers') /\ lanswers' \in Seq(AnswerSet)
      /\ Reads(lanswers') \subseteq Reads(lanswers)
      /\ <<a, Els(lanswers')>> \in Reads(lanswers)
      /\ \A b \in Els(lanswers') : Fits(b)'
      /\ \A j : Mine(j)' = Mine(j) /\ Want(j)' = Want(j)
      /\ \A l : Shows(l) => Shows(l)'
      BY ArrivedFacts
<1>2. UNCHANGED <<panel, lident, lopen, lunlocks, lrows, edits, wanted, crossed, lcalls, detail, active>>
      BY DEF Arrived
<1>3. LibTypes'
  <2>1. \A x \in Els(lcalls') : Fit(x)'
        BY <1>2 DEF LibInv, LibTypes, Fit, Library!OfAgents
  <2>2. a.got \in Seq(Items) /\ lopen
        BY <1>1, ArrivedFacts DEF Fits
  <2> QED BY <1>1, <1>2, <2>1, <2>2 DEF LibInv, LibTypes, Library!OfAgents
<1>4. ReadLists'
  <2> SUFFICES ASSUME ~Library!OfAgents
               PROVE  /\ Shows(a.got)' \/ \E b \in Els(lanswers') : b.op \in {"put", "del", "list"}
                      /\ \A r \in Reads(lanswers') : r[1].op = "list" =>
                            Shows(r[1].got)' \/ \E b \in r[2] : b.op \in {"put", "del"}
      BY <1>2 DEF ReadLists, Library!OfAgents
  <2>1. \A r \in Reads(lanswers) : r[1].op = "list" => Shows(r[1].got) \/ \E b \in r[2] : b.op \in {"put", "del"}
        BY <1>1 DEF LibInv, ReadLists
  <2>2. <<a, Els(lanswers')>>[1] = a /\ <<a, Els(lanswers')>>[2] = Els(lanswers')
        OBVIOUS
  <2>3. Shows(a.got) \/ \E b \in Els(lanswers') : b.op \in {"put", "del"}
        BY <1>1, <2>1, <2>2
  <2> QED BY <1>1, <2>1, <2>3
<1>5. ASSUME NEW CONSTANT i \in Ids \ crossed PROVE PerId(i)'
  <2> USE DEF LibInv
  <2>1. PerId(i) /\ Wants(i) /\ i \in Ids
        BY <1>1 DEF PerId
  <2>2. ~Library!Mutates(a, i) /\ ~Replaces(a, i) /\ ~Removal(a, i) /\ ~Changes(a, i)
        BY DEF Library!Mutates, Replaces, Removal, Changes
  <2>3. Alone(i)'
    <3>1. Once(AnswersOn(i), lanswers') /\ Once(CallsOn(i), lcalls)
          BY <2>1, ArrivedKeeps DEF PerId, Alone
    <3> QED BY <1>1, <1>2, <2>1, <3>1 DEF PerId, Alone, CallsOn, AnswersOn
  <2>4. Wants(i)'
    <3>1. Settled(i)' => Settled(i)
          BY <1>1, <1>2, <2>2 DEF Settled
    <3>2. /\ \A x \in Els(lcalls) : Library!Mutates(x, i) => CallWants(x, i)'
          /\ \A b \in Els(lanswers') : Library!Mutates(b, i) => AnswerWants(b, i)'
          BY ArrivedKeeps
    <3> QED BY <1>1, <1>2, <2>1, <3>1, <3>2 DEF Wants
  <2>5. Details(i)'
    <3>1. /\ \A v : Known(v, i, Els(lanswers)) /\ ~Replaces(a, i) => Known(v, i, Els(lanswers))'
          /\ Library!OfAgents => Known(detail[i], i, Els(lanswers))
          /\ Library!OfAgents => \A r \in Reads(lanswers') : r[1].op = "detail" /\ r[1].id = i => Known(r[1].got, i, r[2])'
          BY ArrivedKeeps
    <3>2. detail' = detail /\ (Library!OfAgents' <=> Library!OfAgents)
          BY <1>2 DEF Library!OfAgents
    <3> QED BY <2>2, <3>1, <3>2 DEF Details
  <2>6. Chosen(i)'
        BY <1>1, <1>2, <2>1, <2>2 DEF PerId, Chosen
  <2>7. AgentLists(i)'
    <3>1. /\ panel = "agents" => \A r \in Reads(lanswers') : r[1].op = "list" => Base(r[1].got, i, r[2])'
          /\ panel = "agents" => Base(a.got, i, Els(lanswers'))
          /\ \A l, R : Base(l, i, R) => Base(l, i, R)'
          BY ArrivedKeeps
    <3>2. panel' = panel /\ llist' = a.got
          BY <1>2
    <3> QED BY <3>1, <3>2 DEF AgentLists
  <2>8. Apart(i)'
        BY ArrivedKeeps
  <2> QED BY <2>3, <2>4, <2>5, <2>6, <2>7, <2>8 DEF PerId
<1> QED BY <1>2, <1>3, <1>4, <1>5 DEF LibInv

\* A single agent is cached.
LEMMA DetailArrives ==
    ASSUME LibInv, NEW CONSTANT a, Arrived(a), a.op = "detail", detail' = [detail EXCEPT ![a.id] = a.got],
           UNCHANGED <<lcalls, lfetch, llist, lseen, active>>
    PROVE  LibInv'
<1>1. /\ a \in AnswerSet /\ Fits(a) /\ Fit(a) /\ lident \in Seeds /\ lident # None
      /\ Els(lanswers) = {a} \cup Els(lanswers') /\ lanswers' \in Seq(AnswerSet)
      /\ Reads(lanswers') \subseteq Reads(lanswers)
      /\ \A b \in Els(lanswers') : Fits(b)'
      /\ \A j : Mine(j)' = Mine(j) /\ Want(j)' = Want(j)
      BY ArrivedFacts
<1>2. UNCHANGED <<panel, lident, lopen, lunlocks, lrows, edits, wanted, crossed, lcalls, lfetch, llist, lseen, active>>
      BY DEF Arrived
<1>3. Library!OfAgents /\ a.got \in Maybe /\ a.id \in Ids
      BY <1>1 DEF Fits, Fit
<1>a. detail' \in [Ids -> Maybe] /\ \A i \in Ids : detail'[i] = IF i = a.id THEN a.got ELSE detail[i]
      BY <1>3 DEF LibInv, LibTypes
<1>4. LibTypes'
  <2>1. \A x \in Els(lcalls') : Fit(x)'
        BY <1>2 DEF LibInv, LibTypes, Fit, Library!OfAgents
  <2>2. lopen
        BY ArrivedFacts
  <2> QED BY <1>1, <1>2, <1>3, <1>a, <2>1, <2>2 DEF LibInv, LibTypes, Library!OfAgents
<1>5. ReadLists'
      BY <1>2, <1>3 DEF ReadLists, Library!OfAgents
<1>6. ASSUME NEW CONSTANT i \in Ids \ crossed PROVE PerId(i)'
  <2> USE DEF LibInv
  <2>1. PerId(i) /\ Wants(i) /\ i \in Ids
        BY <1>1 DEF PerId
  <2>2. ~Library!Mutates(a, i) /\ ~Replaces(a, i) /\ ~Removal(a, i) /\ ~Changes(a, i)
        BY DEF Library!Mutates, Replaces, Removal, Changes
  <2>3. Alone(i)'
    <3>1. Once(AnswersOn(i), lanswers') /\ Once(CallsOn(i), lcalls)
          BY <2>1, ArrivedKeeps DEF PerId, Alone
    <3> QED BY <1>1, <1>2, <2>1, <3>1 DEF PerId, Alone, CallsOn, AnswersOn
  <2>4. Wants(i)'
    <3>1. Settled(i)' => Settled(i)
          BY <1>1, <1>2, <2>2 DEF Settled
    <3>2. /\ \A x \in Els(lcalls) : Library!Mutates(x, i) => CallWants(x, i)'
          /\ \A b \in Els(lanswers') : Library!Mutates(b, i) => AnswerWants(b, i)'
          BY ArrivedKeeps
    <3> QED BY <1>1, <1>2, <2>1, <3>1, <3>2 DEF Wants
  <2>5. Details(i)'
    <3>1. /\ \A v : Known(v, i, Els(lanswers)) /\ ~Replaces(a, i) => Known(v, i, Els(lanswers))'
          /\ Library!OfAgents => Known(detail[i], i, Els(lanswers))
          /\ Library!OfAgents => \A r \in Reads(lanswers') : r[1].op = "detail" /\ r[1].id = i => Known(r[1].got, i, r[2])'
          /\ a.id = i => Known(a.got, i, Els(lanswers))'
          BY <1>3, ArrivedKeeps
    <3>2. Known(detail[i], i, Els(lanswers))'
      <4>1. CASE a.id = i
            BY <1>a, <2>1, <3>1, <4>1
      <4>2. CASE a.id # i
        <5>1. detail'[i] = detail[i]
              BY <1>a, <2>1, <4>2
        <5> QED BY <1>3, <2>2, <3>1, <5>1
      <4> QED BY <4>1, <4>2
    <3> QED BY <1>3, <3>1, <3>2 DEF Details
  <2>6. Chosen(i)'
        BY <1>1, <1>2, <2>1, <2>2 DEF PerId, Chosen
  <2>7. AgentLists(i)'
    <3>1. /\ panel = "agents" => \A r \in Reads(lanswers') : r[1].op = "list" => Base(r[1].got, i, r[2])'
          /\ panel = "agents" /\ lseen => Base(llist, i, Els(lanswers'))
          /\ \A l, R : Base(l, i, R) => Base(l, i, R)'
          BY <2>2, ArrivedKeeps
    <3> QED BY <1>2, <3>1 DEF AgentLists
  <2>8. Apart(i)'
        BY ArrivedKeeps
  <2> QED BY <2>3, <2>4, <2>5, <2>6, <2>7, <2>8 DEF PerId
<1> QED BY <1>2, <1>4, <1>5, <1>6 DEF LibInv

\* A row that was read is merged and put.
LEMMA GetArrives ==
    ASSUME LibInv, NEW CONSTANT a, Arrived(a), a.op = "get", NEW CONSTANT m, lcalls' = Append(lcalls, m),
           m = [op |-> "put", k |-> None, id |-> a.id, row |-> Library!Merged(a.got, a), fields |-> a.fields, was |-> None],
           UNCHANGED <<lfetch, llist, lseen, detail, active>>
    PROVE  LibInv'
<1>1. /\ a \in AnswerSet /\ Fits(a) /\ Fit(a) /\ lident \in Seeds /\ lident # None /\ lopen
      /\ Els(lanswers) = {a} \cup Els(lanswers') /\ lanswers' \in Seq(AnswerSet)
      /\ Reads(lanswers') \subseteq Reads(lanswers)
      /\ \A b \in Els(lanswers') : Fits(b)'
      /\ \A j : Mine(j)' = Mine(j) /\ Want(j)' = Want(j)
      BY ArrivedFacts
<1>2. UNCHANGED <<panel, lident, lopen, lunlocks, lrows, edits, wanted, crossed, lfetch, llist, lseen, detail, active>>
      BY DEF Arrived
<1>3. Library!OfAgents /\ a.got \in Maybe /\ a.id \in Ids /\ a.was = None
      BY <1>1 DEF Fits, Fit
<1>4. a.fields \in SUBSET Fields /\ a.row \in Rows
      BY <1>1 DEF AnswerSet
<1>5. Library!Merged(a.got, a) \in Rows
      BY <1>3, <1>4 DEF Library!Merged, Rows, Maybe
<1>6. /\ m.op = "put" /\ m.id = a.id /\ m.row = Library!Merged(a.got, a) /\ m.fields = a.fields /\ m.was = None
      /\ m \in CallSet /\ Fit(m)
      BY <1>3, <1>4, <1>5 DEF CallSet, Fit
<1>7. lcalls' \in Seq(CallSet) /\ Els(lcalls') = Els(lcalls) \cup {m}
      BY <1>6, AppendEls DEF LibInv, LibTypes
<1>8. LibTypes'
  <2>1. \A x \in Els(lcalls') : Fit(x)'
        BY <1>2, <1>6, <1>7 DEF LibInv, LibTypes, Fit, Library!OfAgents
  <2> QED BY <1>1, <1>2, <1>7, <2>1 DEF LibInv, LibTypes, Library!OfAgents
<1>9. ReadLists'
      BY <1>2, <1>3 DEF ReadLists, Library!OfAgents
<1>10. ASSUME NEW CONSTANT i \in Ids \ crossed PROVE PerId(i)'
  <2> USE DEF LibInv
  <2>1. PerId(i) /\ Wants(i) /\ i \in Ids /\ i # None
        BY <1>1, LibraryAssumption DEF PerId
  <2>2. /\ ~Replaces(a, i) /\ ~Changes(a, i)
        /\ Library!Mutates(a, i) <=> a.id = i
        /\ Library!Mutates(m, i) <=> a.id = i
        BY <1>3, <1>6, <2>1 DEF Library!Mutates, Replaces, Changes
  <2>a. a.id = i => /\ AnswerWants(a, i)
                    /\ \A x \in Els(lcalls) : ~Library!Mutates(x, i)
                    /\ \A b \in Els(lanswers') : ~Library!Mutates(b, i)
        BY <2>2, ArrivedKeeps
  <2>3. Alone(i)'
    <3> DEFINE K == CallsOn(i)
    <3>1. Once(AnswersOn(i), lanswers') /\ Once(K, lcalls) /\ lcalls \in Seq(CallSet)
          BY <2>1, ArrivedKeeps DEF PerId, Alone, LibTypes
    <3>2. m \notin K \/ Els(lcalls) \cap K = {}
          BY <2>2, <2>a DEF CallsOn
    <3>3. Els(lcalls') \cap K = {} \/ Els(lanswers') \cap AnswersOn(i) = {}
      <4>1. CASE a.id = i
            BY <2>a, <4>1 DEF AnswersOn
      <4>2. CASE a.id # i
        <5>1. m \notin K
              BY <2>2, <4>2 DEF CallsOn
        <5> QED BY <1>1, <1>7, <2>1, <5>1 DEF PerId, Alone
      <4> QED BY <4>1, <4>2
    <3> HIDE DEF K
    <3>4. Once(K, lcalls')
          BY <1>6, <3>1, <3>2, OnceAppend
    <3> QED BY <3>1, <3>3, <3>4 DEF Alone, CallsOn, AnswersOn, K
  <2>4. Wants(i)'
    <3>1. /\ \A x \in Els(lcalls) : Library!Mutates(x, i) => CallWants(x, i)'
          /\ \A b \in Els(lanswers') : Library!Mutates(b, i) => AnswerWants(b, i)'
          BY ArrivedKeeps
    <3>2. CASE a.id = i
      <4>1. /\ a.fields # {} /\ a.got # None /\ Mine(i) = a.got /\ Want(i) = Library!Merged(a.got, a)
            BY <2>a, <3>2 DEF AnswerWants
      <4>2. Due(m, i, Mine(i)) = m.row /\ Due(m, i, Mine(i)') = m.row
            BY <1>6, <3>2 DEF Due
      <4>3. CallWants(m, i)'
            BY <1>1, <1>6, <4>1, <4>2 DEF CallWants
      <4>4. ~Settled(i)'
            BY <1>7, <2>2, <3>2 DEF Settled
      <4> QED BY <1>7, <2>a, <3>1, <3>2, <4>3, <4>4 DEF Wants
    <3>3. CASE a.id # i
      <4>1. Settled(i)' => Settled(i)
            BY <1>1, <1>7, <2>2, <3>3 DEF Settled
      <4> QED BY <1>1, <1>7, <2>1, <2>2, <3>1, <3>3, <4>1 DEF Wants
    <3> QED BY <3>2, <3>3
  <2>5. Details(i)'
    <3>1. /\ \A v : Known(v, i, Els(lanswers)) /\ ~Replaces(a, i) => Known(v, i, Els(lanswers))'
          /\ Library!OfAgents => Known(detail[i], i, Els(lanswers))
          /\ Library!OfAgents => \A r \in Reads(lanswers') : r[1].op = "detail" /\ r[1].id = i => Known(r[1].got, i, r[2])'
          BY ArrivedKeeps
    <3> QED BY <1>2, <1>3, <2>2, <3>1 DEF Details
  <2>6. Chosen(i)'
    <3>1. active' # i
          BY <1>2, <1>3, <2>1 DEF LibTypes, Library!OfAgents
    <3> QED BY <3>1 DEF Chosen
  <2>7. AgentLists(i)'
    <3>1. /\ panel = "agents" => \A r \in Reads(lanswers') : r[1].op = "list" => Base(r[1].got, i, r[2])'
          /\ panel = "agents" /\ lseen => Base(llist, i, Els(lanswers'))
          /\ \A l, R : Base(l, i, R) => Base(l, i, R)'
          BY <2>2, ArrivedKeeps
    <3> QED BY <1>2, <3>1 DEF AgentLists
  <2>8. Apart(i)'
        BY ArrivedKeeps
  <2> QED BY <2>3, <2>4, <2>5, <2>6, <2>7, <2>8 DEF PerId
<1> QED BY <1>2, <1>8, <1>9, <1>10 DEF LibInv

\* What onSuccess makes of a list, for every other agent and for its own.
PatchedOthers(l, q, i) ==
    /\ Single(l, i) => Single(q, i)
    /\ Has(q, i) <=> Has(l, i)
    /\ \A v : Library!Item(i, v) \in Els(l) => Library!Item(i, v) \in Els(q)

LEMMA PatchedShows ==
    ASSUME NEW l \in Seq(Items), NEW a \in AnswerSet, a.op \in {"put", "del"}, a.id \in Ids
    PROVE  /\ Library!Patched(l, a) \in Seq(Items)
           /\ \A i \in Ids \ {a.id} : PatchedOthers(l, Library!Patched(l, a), i)
           /\ Single(l, a.id) /\ (a.op = "put" => (a.fields = {} <=> ~Has(l, a.id)))
                => ShowsAs(Library!Patched(l, a), a.id, IF a.op = "del" THEN None ELSE a.row)
<1> DEFINE q == Library!Patched(l, a)
           e == Library!Item(a.id, a.row)
<1>1. a.row \in Rows /\ a.row # None
      BY LibraryAssumption DEF AnswerSet, Rows
<1>2. e \in Items /\ e.id = a.id
      BY <1>1 DEF Items, Library!Item
<1>3. Els(l) \subseteq Items /\ Range(l) = Els(l) /\ Library!Range(l) = Els(l)
      BY ElsOf DEF Library!Range, Range
<1>a. \A i, v : Library!Item(i, v).id = i
      BY DEF Library!Item
<1>4. CASE a.op = "del"
  <2> DEFINE K == {y \in Els(l) : y.id # a.id}
  <2>1. q = Library!Kept(l, K)
        BY <1>3, <1>4 DEF Library!Patched
  <2>2. q \in Seq(Items) /\ Els(q) = Els(l) \cap K /\ \A J : Once(J, l) => Once(J, q)
        BY <2>1, KeptEls
  <2>3. Els(q) = {y \in Els(l) : y.id # a.id}
        BY <2>2
  <2> HIDE DEF q, K
  <2>4. ASSUME NEW i \in Ids \ {a.id} PROVE PatchedOthers(l, q, i)
        BY <1>a, <2>2, <2>3 DEF PatchedOthers, Single, Has
  <2>5. Single(l, a.id) => ShowsAs(q, a.id, None)
        BY <2>2, <2>3 DEF ShowsAs, Single, Has
  <2> QED BY <1>4, <2>2, <2>4, <2>5 DEF q
<1>5. CASE a.op = "put" /\ a.fields = {}
  <2>1. q = <<e>> \o l
        BY <1>5 DEF Library!Patched
  <2>2. /\ q \in Seq(Items) /\ Els(q) = {e} \cup Els(l)
        /\ \A K : Once(K, l) /\ (e \notin K \/ Els(l) \cap K = {}) => Once(K, q)
        BY <1>2, <2>1, ConsEls
  <2> HIDE DEF q, e
  <2>3. ASSUME NEW i \in Ids \ {a.id} PROVE PatchedOthers(l, q, i)
    <3>1. Single(l, i) => Single(q, i)
      <4>1. e \notin {y \in Items : y.id = i}
            BY <1>2
      <4> QED BY <2>2, <4>1 DEF Single
    <3> QED BY <1>2, <2>2, <3>1 DEF PatchedOthers, Has
  <2>4. ASSUME Single(l, a.id), ~Has(l, a.id) PROVE ShowsAs(q, a.id, a.row)
    <3>1. Els(l) \cap {y \in Items : y.id = a.id} = {}
          BY <2>4 DEF Has
    <3>2. Single(q, a.id)
          BY <2>2, <2>4, <3>1 DEF Single
    <3> QED BY <1>1, <2>2, <3>2 DEF ShowsAs, e
  <2> QED BY <1>5, <2>2, <2>3, <2>4 DEF q
<1>6. CASE a.op = "put" /\ a.fields # {}
  <2> DEFINE N == Len(l)
  <2>1. q = [n \in DOMAIN l |-> IF l[n].id = a.id THEN e ELSE l[n]]
        BY <1>6 DEF Library!Patched
  <2>2. N \in Nat /\ DOMAIN l = 1..N /\ \A n \in 1..N : l[n] \in Items
        OBVIOUS
  <2> HIDE DEF q, e
  <2>3. q \in [1..N -> Items] /\ \A n \in 1..N : q[n] = IF l[n].id = a.id THEN e ELSE l[n]
    <3> HIDE DEF N
    <3> QED BY <1>2, <2>1, <2>2
  <2>4. q \in Seq(Items) /\ Len(q) = N
    <3> HIDE DEF N
    <3> QED BY <2>2, <2>3
  <2>5. \A n \in 1..N : q[n].id = l[n].id
        BY <1>2, <2>3
  <2>6. Els(q) = {q[n] : n \in 1..N} /\ Els(l) = {l[n] : n \in 1..N}
        BY <2>4 DEF Els
  <2>7. \A i : Single(l, i) => Single(q, i)
        BY <2>2, <2>3, <2>4, <2>5 DEF Single, Once
  <2>8. \A i : Has(q, i) <=> Has(l, i)
        BY <2>5, <2>6 DEF Has
  <2>9. ASSUME NEW i \in Ids \ {a.id} PROVE PatchedOthers(l, q, i)
    <3>1. ASSUME NEW v, Library!Item(i, v) \in Els(l) PROVE Library!Item(i, v) \in Els(q)
      <4>1. PICK n \in 1..N : l[n] = Library!Item(i, v)
            BY <2>6, <3>1
      <4>2. q[n] = l[n]
            BY <1>a, <2>3, <4>1
      <4> QED BY <2>6, <4>1, <4>2
    <3> QED BY <2>7, <2>8, <3>1 DEF PatchedOthers
  <2>10. ASSUME Single(l, a.id), Has(l, a.id) PROVE ShowsAs(q, a.id, a.row)
    <3>1. PICK n \in 1..N : l[n].id = a.id
          BY <2>6, <2>10 DEF Has
    <3>2. e \in Els(q)
          BY <2>3, <2>6, <3>1
    <3> QED BY <1>1, <2>7, <2>10, <3>2 DEF ShowsAs, e
  <2> QED BY <1>6, <2>4, <2>9, <2>10 DEF q
<1> QED BY <1>4, <1>5, <1>6

\* The list and the agent are patched.
LEMMA PatchArrives ==
    ASSUME LibInv, NEW CONSTANT a, Arrived(a), a.op \in {"put", "del"}, Library!OfAgents,
           llist' = (IF panel = "default" \/ llist = None THEN llist ELSE Library!Patched(llist, a)),
           detail' = [detail EXCEPT ![a.id] = IF a.op = "del" THEN None
                                              ELSE IF a.fields = {} THEN detail[a.id] ELSE a.row],
           UNCHANGED <<lcalls, lfetch, lseen, active>>
    PROVE  LibInv'
<1>1. /\ a \in AnswerSet /\ Fits(a) /\ Fit(a) /\ lident \in Seeds /\ lident # None /\ lopen
      /\ Els(lanswers) = {a} \cup Els(lanswers') /\ lanswers' \in Seq(AnswerSet)
      /\ Reads(lanswers') \subseteq Reads(lanswers)
      /\ \A b \in Els(lanswers') : Fits(b)'
      /\ \A j : Mine(j)' = Mine(j) /\ Want(j)' = Want(j)
      BY ArrivedFacts
<1>2. UNCHANGED <<panel, lident, lopen, lunlocks, lrows, edits, wanted, crossed, lcalls, lfetch, lseen, active>>
      BY DEF Arrived
<1>3. a.id \in Ids /\ a.was = None /\ a.row \in Rows
      BY <1>1 DEF Fit, Library!OfAgents, AnswerSet
<1>4. /\ detail' \in [Ids -> Maybe]
      /\ \A i \in Ids : detail'[i] = IF i # a.id THEN detail[i] ELSE IF a.op = "del" THEN None
                                     ELSE IF a.fields = {} THEN detail[i] ELSE a.row
  <2> DEFINE v == IF a.op = "del" THEN None ELSE IF a.fields = {} THEN detail[a.id] ELSE a.row
  <2>1. detail \in [Ids -> Maybe] /\ detail' = [detail EXCEPT ![a.id] = v]
        BY DEF LibInv, LibTypes
  <2>2. v \in Maybe
        BY <1>3, <2>1 DEF Maybe
  <2>3. \A i \in Ids : i = a.id => v = IF a.op = "del" THEN None ELSE IF a.fields = {} THEN detail[i] ELSE a.row
        OBVIOUS
  <2> HIDE DEF v
  <2>4. detail' \in [Ids -> Maybe] /\ \A i \in Ids : detail'[i] = IF i # a.id THEN detail[i] ELSE v
        BY <1>3, <2>1, <2>2
  <2> QED BY <2>3, <2>4
<1>5. /\ llist' \in Seq(Items) \cup {None}
      /\ llist \in Seq(Items) => llist' \in Seq(Items)
      BY <1>1, <1>3, PatchedShows DEF LibInv, LibTypes
<1>6. LibTypes'
  <2>1. \A x \in Els(lcalls') : Fit(x)'
        BY <1>2 DEF LibInv, LibTypes, Fit, Library!OfAgents
  <2> QED BY <1>1, <1>2, <1>4, <1>5, <2>1 DEF LibInv, LibTypes, Library!OfAgents
<1>7. ReadLists'
      BY <1>2 DEF ReadLists, Library!OfAgents
<1>8. ASSUME NEW CONSTANT i \in Ids \ crossed PROVE PerId(i)'
  <2> USE DEF LibInv
  <2>1. PerId(i) /\ Wants(i) /\ AgentLists(i) /\ i \in Ids /\ i # None
        BY <1>1, LibraryAssumption DEF PerId
  <2>2. /\ Library!Mutates(a, i) <=> a.id = i
        /\ Changes(a, i) <=> a.id = i
        BY <1>3, <2>1 DEF Library!Mutates, Changes
  <2>3. a.id = i => /\ Want(i) = Mine(i) /\ Mine(i) = (IF a.op = "del" THEN None ELSE a.row)
                    /\ \A x \in Els(lcalls) : ~Library!Mutates(x, i)
                    /\ \A b \in Els(lanswers') : ~Library!Mutates(b, i)
    <3> SUFFICES ASSUME a.id = i
                 PROVE  /\ Want(i) = Mine(i) /\ Mine(i) = (IF a.op = "del" THEN None ELSE a.row)
                        /\ \A x \in Els(lcalls) : ~Library!Mutates(x, i)
                        /\ \A b \in Els(lanswers') : ~Library!Mutates(b, i)
        OBVIOUS
    <3>1. /\ AnswerWants(a, i)
          /\ \A x \in Els(lcalls) : ~Library!Mutates(x, i)
          /\ \A b \in Els(lanswers') : ~Library!Mutates(b, i)
          BY <2>2, ArrivedKeeps
    <3> QED BY <3>1 DEF AnswerWants, Due
  <2>4. Alone(i)'
    <3>1. Once(AnswersOn(i), lanswers') /\ Once(CallsOn(i), lcalls)
          BY <2>1, ArrivedKeeps DEF PerId, Alone
    <3> QED BY <1>1, <1>2, <2>1, <3>1 DEF PerId, Alone, CallsOn, AnswersOn
  <2>5. Wants(i)'
    <3>1. Settled(i)' => Settled(i) \/ a.id = i
          BY <1>1, <1>2, <2>2 DEF Settled
    <3>2. /\ \A x \in Els(lcalls) : Library!Mutates(x, i) => CallWants(x, i)'
          /\ \A b \in Els(lanswers') : Library!Mutates(b, i) => AnswerWants(b, i)'
          BY ArrivedKeeps
    <3> QED BY <1>1, <1>2, <2>1, <2>3, <3>1, <3>2 DEF Wants
  <2>6. Details(i)'
    <3>1. /\ \A v : Known(v, i, Els(lanswers)) /\ ~Replaces(a, i) => Known(v, i, Els(lanswers))'
          /\ Known(detail[i], i, Els(lanswers))
          /\ \A r \in Reads(lanswers') : r[1].op = "detail" /\ r[1].id = i => Known(r[1].got, i, r[2])'
          BY ArrivedKeeps
    <3>2. Known(detail[i], i, Els(lanswers))'
      <4>1. CASE ~Replaces(a, i)
        <5>1. detail'[i] = detail[i]
              BY <1>4, <2>1, <4>1 DEF Replaces
        <5> QED BY <3>1, <4>1, <5>1
      <4>2. CASE Replaces(a, i) /\ a.op = "del"
        <5>1. detail'[i] = None
              BY <1>4, <2>1, <4>2 DEF Replaces
        <5> QED BY <5>1 DEF Known
      <4>3. CASE Replaces(a, i) /\ a.op # "del"
        <5>1. detail'[i] = a.row /\ Mine(i) = a.row
              BY <1>4, <2>1, <2>3, <4>3 DEF Replaces
        <5>2. lrows'[lident][i] = detail'[i]
              BY <1>2, <5>1 DEF Mine
        <5> QED BY <1>1, <5>2 DEF Known, InStore
      <4> QED BY <4>1, <4>2, <4>3
    <3> QED BY <3>1, <3>2 DEF Details
  <2>7. Chosen(i)'
    <3>1. active' # i
          BY <1>2, <2>1 DEF LibTypes, Library!OfAgents
    <3> QED BY <3>1 DEF Chosen
  <2>8. AgentLists(i)'
    <3> SUFFICES ASSUME panel = "agents"
                 PROVE  /\ lseen => Base(llist, i, Els(lanswers))'
                        /\ \A r \in Reads(lanswers') : r[1].op = "list" => Base(r[1].got, i, r[2])'
        BY <1>2 DEF AgentLists
    <3>1. \A r \in Reads(lanswers') : r[1].op = "list" => Base(r[1].got, i, r[2])'
          BY ArrivedKeeps
    <3>2. ASSUME lseen PROVE Base(llist, i, Els(lanswers))'
      <4> DEFINE l == llist
                 q == Library!Patched(llist, a)
      <4>1. l \in Seq(Items) /\ l # None /\ llist' = q
        <5>1. Items = [id : Ids, row : [Fields -> Nat]]
              BY DEF Items, Rows
        <5> QED BY <3>2, <5>1, LibraryAssumption DEF LibTypes
      <4>2. CASE a.id # i
        <5>1. PatchedOthers(l, q, i)
              BY <1>1, <1>3, <2>1, <4>1, <4>2, PatchedShows
        <5>2. Base(l, i, Els(lanswers'))
              BY <2>2, <3>2, <4>2, ArrivedKeeps
        <5> HIDE DEF l, q
        <5>3. Base(q, i, Els(lanswers'))
              BY <5>1, <5>2 DEF PatchedOthers, Base, ShowsAs
        <5>4. \A m, R : Base(m, i, R) => Base(m, i, R)'
              BY ArrivedKeeps
        <5> QED BY <4>1, <5>3, <5>4
      <4>3. CASE a.id = i
        <5>1. Base(l, i, Els(lanswers)) /\ a \in Els(lanswers) /\ Changes(a, i)
              BY <1>1, <2>1, <2>2, <3>2, <4>3 DEF AgentLists
        <5>2. ShowsAs(q, i, IF a.op = "del" THEN None ELSE a.row)
              BY <1>1, <1>3, <4>1, <4>3, <5>1, PatchedShows DEF Base
        <5>3. \A b \in Els(lanswers') : ~Changes(b, i)
              BY <2>3, <4>3 DEF Changes, Library!Mutates
        <5> HIDE DEF l, q
        <5>4. Base(q, i, Els(lanswers'))
              BY <2>3, <4>3, <5>2, <5>3 DEF Base
        <5>5. \A m, R : Base(m, i, R) => Base(m, i, R)'
              BY ArrivedKeeps
        <5> QED BY <4>1, <5>4, <5>5
      <4> QED BY <4>2, <4>3
    <3> QED BY <3>1, <3>2
  <2>9. Apart(i)'
        BY ArrivedKeeps
  <2> QED BY <2>4, <2>5, <2>6, <2>7, <2>8, <2>9 DEF PerId
<1> QED BY <1>2, <1>6, <1>7, <1>8 DEF LibInv

\* The list is read again.
LEMMA RereadArrives ==
    ASSUME LibInv, NEW CONSTANT a, Arrived(a), a.op \in {"put", "del"}, ~Library!OfAgents,
           Library!Reread,
           active' = (IF panel = "skills" THEN Library!ActiveAfter(a) ELSE active),
           UNCHANGED <<llist, lseen, detail>>
    PROVE  LibInv'
<1>1. /\ a \in AnswerSet /\ Fits(a) /\ Fit(a) /\ lident \in Seeds /\ lident # None /\ lopen
      /\ Els(lanswers) = {a} \cup Els(lanswers') /\ lanswers' \in Seq(AnswerSet)
      /\ Reads(lanswers') \subseteq Reads(lanswers)
      /\ \A b \in Els(lanswers') : Fits(b)'
      /\ \A j : Mine(j)' = Mine(j) /\ Want(j)' = Want(j)
      /\ \A l : Shows(l) => Shows(l)'
      BY ArrivedFacts
<1>2. UNCHANGED <<panel, lident, lopen, lunlocks, lrows, edits, wanted, crossed, llist, lseen, detail>>
      BY DEF Arrived
<1>3. a.id \in Ids
      BY <1>1 DEF Fit
<1> DEFINE z == [Library!NoCall EXCEPT !.op = "list"]
           K == {x \in Els(lcalls) : x.op # "list"}
           kept == Library!Kept(lcalls, K)
<1>4. z \in CallSet /\ Fit(z) /\ z.op = "list"
      BY ListCall
<1>5. lfetch' = "asked" /\ lcalls' = Append(kept, z) /\ lcalls \in Seq(CallSet)
  <2>1. lcalls \in Seq(CallSet)
        BY DEF LibInv, LibTypes
  <2>2. Library!Range(lcalls) = Els(lcalls)
        BY <2>1, ElsOf DEF Library!Range, Range
  <2> QED BY <2>1, <2>2 DEF Library!Reread
<1> HIDE DEF z
<1>6. kept \in Seq(CallSet) /\ Els(kept) = Els(lcalls) \cap K /\ \A J : Once(J, lcalls) => Once(J, kept)
      BY <1>5, KeptEls
<1> HIDE DEF kept
<1>7. /\ lcalls' \in Seq(CallSet)
      /\ Els(lcalls') = {x \in Els(lcalls) : x.op # "list"} \cup {z}
      BY <1>4, <1>5, <1>6, AppendEls
<1> HIDE DEF K
<1>8. LibTypes'
  <2>1. \A x \in Els(lcalls') : Fit(x)'
        BY <1>2, <1>4, <1>7 DEF LibInv, LibTypes, Fit, Library!OfAgents
  <2>2. active' \in Ids \cup {None} /\ (panel # "skills" => active' = None)
        BY <1>3 DEF LibInv, LibTypes, Library!ActiveAfter
  <2> QED BY <1>1, <1>2, <1>5, <1>7, <2>1, <2>2 DEF LibInv, LibTypes, Library!OfAgents
<1>9. ReadLists'
  <2>1. \E x \in Els(lcalls') : x.op = "list"
        BY <1>4, <1>7
  <2>2. \A r \in Reads(lanswers') : r[1].op = "list" => Shows(r[1].got)' \/ \E b \in r[2] : b.op \in {"put", "del"}
        BY <1>1 DEF LibInv, ReadLists
  <2> QED BY <2>1, <2>2 DEF ReadLists
<1>10. ASSUME NEW CONSTANT i \in Ids \ crossed PROVE PerId(i)'
  <2> USE DEF LibInv
  <2>1. PerId(i) /\ Wants(i) /\ i \in Ids /\ i # None
        BY <1>1, LibraryAssumption DEF PerId
  <2>2. \A x \in Els(lcalls') : Library!Mutates(x, i) => x \in Els(lcalls)
        BY <1>4, <1>7 DEF Library!Mutates
  <2>3. \A x \in Els(lcalls) : Library!Mutates(x, i) => x \in Els(lcalls')
        BY <1>7 DEF Library!Mutates
  <2>4. Library!Mutates(a, i) =>
          /\ AnswerWants(a, i)
          /\ \A x \in Els(lcalls) : ~Library!Mutates(x, i)
          /\ \A b \in Els(lanswers') : ~Library!Mutates(b, i)
        BY ArrivedKeeps
  <2>5. Alone(i)'
    <3> DEFINE J == CallsOn(i)
    <3>1. Once(AnswersOn(i), lanswers') /\ Once(J, lcalls)
          BY <2>1, ArrivedKeeps DEF PerId, Alone
    <3>2. z \notin J
          BY <1>4 DEF CallsOn, Library!Mutates
    <3>3. Els(lcalls') \cap J \subseteq Els(lcalls) \cap J
          BY <2>2 DEF CallsOn
    <3> HIDE DEF J
    <3>4. Once(J, lcalls')
          BY <1>4, <1>5, <1>6, <3>1, <3>2, OnceAppend
    <3>5. Els(lcalls') \cap J = {} \/ Els(lanswers') \cap AnswersOn(i) = {}
          BY <1>1, <2>1, <3>3 DEF PerId, Alone, J
    <3> QED BY <3>1, <3>4, <3>5 DEF Alone, CallsOn, AnswersOn, J
  <2>6. Wants(i)'
    <3>1. Settled(i)' => Settled(i) \/ Library!Mutates(a, i)
          BY <1>1, <2>3 DEF Settled
    <3>2. /\ \A x \in Els(lcalls) : Library!Mutates(x, i) => CallWants(x, i)'
          /\ \A b \in Els(lanswers') : Library!Mutates(b, i) => AnswerWants(b, i)'
          BY ArrivedKeeps
    <3>3. Library!Mutates(a, i) => Mine(i) = Want(i)
          BY <2>4 DEF AnswerWants
    <3> QED BY <1>1, <2>1, <2>2, <3>1, <3>2, <3>3 DEF Wants
  <2>7. Details(i)'
        BY <1>2 DEF Details, Library!OfAgents
  <2>8. AgentLists(i)'
        BY <1>2 DEF AgentLists, Library!OfAgents
  <2>9. Apart(i)'
        BY ArrivedKeeps
  <2>10. Chosen(i)'
    <3> SUFFICES ASSUME active' = i
                 PROVE  /\ \/ \E s \in Seeds : lrows[s][i] # None
                           \/ \E x \in Els(lcalls') : x.op = "put" /\ x.id = i
                           \/ \E b \in Els(lanswers') : Removal(b, i)
                        /\ \A x \in Els(lcalls') : Removal(x, i) => x.k = i
                        /\ \A b \in Els(lanswers') : Removal(b, i) => b.k = i
        BY <1>2 DEF Chosen
    <3>1. panel = "skills"
          BY <2>1 DEF LibTypes
    <3>2. active' = Library!ActiveAfter(a)
          BY <3>1
    <3>3. \A x \in Els(lcalls') : Removal(x, i) => x \in Els(lcalls)
          BY <1>4, <1>7 DEF Removal
    <3>4. CASE a.op = "put"
      <4>1. a.id = i /\ Library!Mutates(a, i)
            BY <3>2, <3>4 DEF Library!ActiveAfter, Library!Mutates
      <4>2. Mine(i) = a.row /\ a.row # None
            BY <1>1, <2>4, <3>4, <4>1, LibraryAssumption DEF AnswerWants, Due, AnswerSet, Rows
      <4>3. \E s \in Seeds : lrows[s][i] # None
            BY <1>1, <4>2 DEF Mine
      <4>4. /\ \A x \in Els(lcalls') : ~Removal(x, i)
            /\ \A b \in Els(lanswers') : ~Removal(b, i)
            BY <2>4, <3>3, <4>1 DEF Removal, Library!Mutates
      <4> QED BY <4>3, <4>4
    <3>5. CASE a.op = "del"
      <4>1. active = i /\ a.k # a.id
            BY <2>1, <3>2, <3>5 DEF Library!ActiveAfter
      <4>2. /\ \/ \E s \in Seeds : lrows[s][i] # None
               \/ \E x \in Els(lcalls) : x.op = "put" /\ x.id = i
               \/ \E b \in Els(lanswers) : Removal(b, i)
            /\ \A x \in Els(lcalls) : Removal(x, i) => x.k = i
            /\ \A b \in Els(lanswers) : Removal(b, i) => b.k = i
            BY <2>1, <4>1 DEF PerId, Chosen
      <4>3. ~Removal(a, i)
            BY <1>1, <4>1, <4>2 DEF Removal
      <4> QED BY <1>1, <1>7, <3>3, <4>2, <4>3
    <3> QED BY <3>4, <3>5
  <2> QED BY <2>5, <2>6, <2>7, <2>8, <2>9, <2>10 DEF PerId
<1> QED BY <1>2, <1>8, <1>9, <1>10 DEF LibInv

LEMMA DeliverKeepsLib == ASSUME LibInv, Library!Deliver PROVE LibInv'
<1>1. PICK a : a = Head(lanswers)
      OBVIOUS
<1>2. Arrived(a)
      BY <1>1 DEF Arrived, Library!Deliver, Library!ghost
<1> DEFINE m == [Library!NoCall EXCEPT !.op = "put", !.id = a.id, !.fields = a.fields, !.row = Library!Merged(a.got, a)]
<1>3. \/ /\ a.op = "list"
         /\ llist' = a.got /\ lseen' = TRUE /\ lfetch' = "none"
         /\ UNCHANGED <<lcalls, detail, active>>
      \/ /\ a.op = "detail"
         /\ detail' = [detail EXCEPT ![a.id] = a.got]
         /\ UNCHANGED <<lcalls, lfetch, llist, lseen, active>>
      \/ /\ a.op = "get"
         /\ lcalls' = Append(lcalls, m)
         /\ UNCHANGED <<lfetch, llist, lseen, detail, active>>
      \/ /\ a.op \in {"put", "del"} /\ Library!OfAgents
         /\ llist' = (IF panel = "default" \/ llist = None THEN llist ELSE Library!Patched(llist, a))
         /\ detail' = [detail EXCEPT ![a.id] = IF a.op = "del" THEN None
                                               ELSE IF a.fields = {} THEN detail[a.id] ELSE a.row]
         /\ UNCHANGED <<lcalls, lfetch, lseen, active>>
      \/ /\ a.op \in {"put", "del"} /\ ~Library!OfAgents
         /\ Library!Reread
         /\ active' = (IF panel = "skills" THEN Library!ActiveAfter(a) ELSE active)
         /\ UNCHANGED <<llist, lseen, detail>>
      BY <1>1 DEF Library!Deliver
<1>4. CASE a.op = "list"
      BY <1>2, <1>3, <1>4, LibListArrives
<1>5. CASE a.op = "detail"
      BY <1>2, <1>3, <1>5, DetailArrives
<1>6. CASE a.op = "get"
  <2>1. m = [op |-> "put", k |-> None, id |-> a.id, row |-> Library!Merged(a.got, a), fields |-> a.fields, was |-> None]
        BY MergedCall, Zenon
  <2> HIDE DEF m
  <2> QED BY <1>2, <1>3, <1>6, <2>1, GetArrives
<1> HIDE DEF m
<1>7. CASE a.op \in {"put", "del"} /\ Library!OfAgents
      BY <1>2, <1>3, <1>7, PatchArrives
<1>8. CASE a.op \in {"put", "del"} /\ ~Library!OfAgents
      BY <1>2, <1>3, <1>8, RereadArrives
<1> QED BY <1>3, <1>4, <1>5, <1>6, <1>7, <1>8

LEMMA LibStep == LibInv /\ [Library!Next]_lvars => LibInv'
<1> SUFFICES ASSUME LibInv, [Library!Next]_lvars PROVE LibInv'
    OBVIOUS
<1>1. CASE UNCHANGED lvars
  <2>1. UNCHANGED <<panel, lident, lopen, lunlocks, lrows, lcalls, lanswers, lfetch, llist, lseen, detail, active,
                    edits, wanted, crossed>>
        BY <1>1 DEF lvars
  <2>2. LibTypes'
        BY <2>1 DEF LibInv, LibTypes, Fit, Fits, Library!OfAgents
  <2> QED BY <2>1, <2>2, LibFrame
<1>2. ASSUME NEW s \in Seeds, Library!Unlock(s) PROVE LibInv'
      BY <1>2, UnlockKeepsLib
<1>3. CASE Library!OpenStore
      BY <1>3, OpenKeepsLib
<1>4. CASE Library!Lock
      BY <1>4, LockKeepsLib
<1>5. CASE Library!Fetch \/ Library!Waited
      BY <1>5, FetchKeepsLib
<1>6. CASE Library!GiveUp
      BY <1>6, GiveUpKeepsLib
<1>7. ASSUME NEW i \in Ids, Library!FetchAgent(i) PROVE LibInv'
      BY <1>7, FetchAgentKeepsLib
<1>8. ASSUME NEW i \in Ids, Library!Create(i) PROVE LibInv'
      BY <1>8, CreateKeepsLib
<1>9. ASSUME NEW i \in Ids, Library!Delete(i) PROVE LibInv'
      BY <1>9, DeleteKeepsLib
<1>10. ASSUME NEW i \in Ids, NEW f \in Fields, Library!UpdateAgent(i, f) PROVE LibInv'
      BY <1>10, UpdateAgentKeepsLib
<1>11. ASSUME NEW i \in Ids, NEW j \in Ids, Library!UpdateMemory(i, j) PROVE LibInv'
      BY <1>11, UpdateMemoryKeepsLib
<1>12. ASSUME NEW i \in Ids \cup {None}, Library!SetActive(i) PROVE LibInv'
      BY <1>12, SetActiveKeepsLib
<1>13. CASE Library!Serve
      BY <1>13, ServeKeepsLib
<1>14. CASE Library!Deliver
      BY <1>14, DeliverKeepsLib
<1> QED BY <1>1, <1>2, <1>3, <1>4, <1>5, <1>6, <1>7, <1>8, <1>9, <1>10, <1>11, <1>12, <1>13, <1>14 DEF Library!Next

\* LibraryCache: whatever the seeds, ids, fields and panels and however long the run, mutations that
\* neither crossed nor were cut off have left what they asked for, every cache agrees with the store once
\* nothing is outstanding, and an active skill is stored.
THEOREM LibraryAlwaysAgrees == MCSpec => []LibraryAgrees
<1>1. MCInit => LibInv
      BY LibInitial DEF MCInit
<1>2. LibInv /\ [MCNext]_allVars => LibInv'
  <2>1. MCNext => [Library!Next]_lvars
        BY DEF MCNext
  <2>2. UNCHANGED allVars => UNCHANGED lvars
        BY DEF allVars
  <2> QED BY <2>1, <2>2, LibStep
<1> QED BY <1>1, <1>2, LibAgrees, PTL DEF MCSpec

=============================================================================
