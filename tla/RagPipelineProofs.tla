--------------------------- MODULE RagPipelineProofs ---------------------------
(***************************************************************************)
(* Proofs about RagPipeline for every set of files, whatever their kinds   *)
(* and however many batches they have, and any number of prompts.          *)
(***************************************************************************)
EXTENDS RagPipeline, FiniteSetTheorems, TLAPS

-----------------------------------------------------------------------------
(* Types *)

Docs == Files \cup Old
FileSteps == {"none", "parsing", "embedding", "storing", "hydrating", "done", "error"}
Removals == {"no", "dropping", "hydrating", "gone", "failed"}
FileRecs == [st : FileSteps, kind : Kinds \cup {None}, batch : Nat, hyd : Nat, removal : Removals]
SendRecs == [st : {"idle", "hydrating", "embedding", "sent"}, hyd : Nat, used : SUBSET Docs, gone : SUBSET Files]
CallRecs == [op : {"store", "drop", "hydrate"}, f : Files \cup {None}, hyd : Nat]
AnswerRecs == [op : {"store", "drop", "hydrate"}, f : Files \cup {None}, hyd : Nat, ok : BOOLEAN, vecs : SUBSET Docs]
Whos == {Warm, Prompt} \cup {Ingest(f) : f \in Files}
DoneRecs == [who : Whos, ok : BOOLEAN]

TabRecs ==
    [open : BOOLEAN, idx : SUBSET Docs, stale : BOOLEAN, promise : Nat, hyds : Nat, forced : SUBSET Nat,
     file : [Files -> FileRecs], list : SUBSET Files, drops : SUBSET Seq(Files),
     loader : [Lazy -> {"none", "loaded", "failed"}], send : SendRecs, sends : Nat,
     toStore : Seq(CallRecs), toEmbed : Seq(Whos)]

Numbers(t) ==
    /\ t.promise <= t.hyds /\ t.sends <= MaxSends
    /\ \A f \in Files : t.file[f].batch <= Batches[f]

Typed ==
    /\ tab \in TabRecs /\ Numbers(tab)
    /\ store \in [rows : SUBSET Docs, answers : Seq(AnswerRecs)]
    /\ embed \in [st : {"starting", "up", "down"}, model : BOOLEAN, answers : Seq(DoneRecs)]

-----------------------------------------------------------------------------
(***************************************************************************)
(* The inductive invariant.  A message has a key: what it asks for.  No    *)
(* two messages between the tab and a worker have the same, and a file or  *)
(* a prompt is at a step exactly when the message of that step is under    *)
(* way.                                                                    *)
(***************************************************************************)
Els(s) == {s[i] : i \in 1..Len(s)}
Keyed(K, s) == {K[s[i]] : i \in 1..Len(s)}
KeyOnce(K, s) == \A i, j \in 1..Len(s) : K[s[i]] = K[s[j]] => i = j

CallKey == [c \in CallRecs |-> <<c.op, c.f, c.hyd>>]
AnswerKey == [a \in AnswerRecs |-> <<a.op, a.f, a.hyd>>]
WhoKey == [w \in Whos |-> w]
DoneKey == [a \in DoneRecs |-> a.who]

Keys(hyds) ==
    {<<"store", f, 0>> : f \in Files} \cup {<<"drop", f, 0>> : f \in Files}
    \cup {<<"hydrate", None, h>> : h \in 1..hyds}

Asked == Keyed(CallKey, tab.toStore)
Answered == Keyed(AnswerKey, store.answers)
Waiting == Keyed(WhoKey, tab.toEmbed)
Vectored == Keyed(DoneKey, embed.answers)

\* What is under way between the tab and the store, and between it and the embedder.
Calls == Asked \cup Answered
Work == Waiting \cup Vectored

StoreQueues ==
    /\ KeyOnce(CallKey, tab.toStore) /\ KeyOnce(AnswerKey, store.answers) /\ Asked \cap Answered = {}
    /\ Calls \subseteq Keys(tab.hyds)
    /\ ~tab.open => tab.toStore = <<>> /\ store.answers = <<>>

EmbedQueues ==
    /\ KeyOnce(WhoKey, tab.toEmbed) /\ KeyOnce(DoneKey, embed.answers) /\ Waiting \cap Vectored = {}
    /\ embed.st = "starting" => embed.answers = <<>>

\* The file x of the tab t, given the keys under way at the store and at the embedder.
FileSound(f, x, list, calls, whos) ==
    /\ x.st = "storing" <=> <<"store", f, 0>> \in calls
    /\ x.removal = "dropping" <=> <<"drop", f, 0>> \in calls
    /\ "hydrating" \in {x.st, x.removal} => <<"hydrate", None, x.hyd>> \in calls
    /\ x.st = "embedding" <=> Ingest(f) \in whos
    /\ x.removal # "no" => x.st \in {"done", "error"}
    /\ f \in list => x.removal = "no"

FilesSound == \A f \in Files : FileSound(f, tab.file[f], tab.list, Calls, Work)

\* A prompt that waits has its message under way; what was removed before it is not used.
SendSound ==
    /\ tab.send.st = "hydrating" => <<"hydrate", None, tab.send.hyd>> \in Calls
    /\ tab.send.st = "embedding" <=> Prompt \in Work
    /\ \A f \in tab.send.gone : tab.file[f].removal = "gone"
    /\ tab.send.gone \cap tab.send.used = {}

\* Which rows the store holds, by the step of the file or the answer under way.
RowsSound ==
    /\ \A f \in Files :
          /\ tab.file[f].st \in {"none", "parsing", "embedding", "error"} => f \notin store.rows
          /\ <<"store", f, 0>> \in Asked => f \notin store.rows
          /\ tab.file[f].st = "hydrating" => f \in store.rows
          /\ tab.file[f].st = "done" /\ tab.file[f].removal = "no" => f \in store.rows
    /\ \A a \in Els(store.answers) : a.op = "store" => (a.ok <=> a.f \in store.rows)

\* A row that was dropped is in no list that is read later.
GoneSound ==
    /\ \A i \in 1..Len(store.answers) :
          LET a == store.answers[i] IN
          a.op = "drop" /\ a.ok => a.f \notin store.rows /\ \A j \in i..Len(store.answers) : a.f \notin store.answers[j].vecs
    /\ \A f \in Files : tab.file[f].removal \in {"hydrating", "gone"} =>
          f \notin store.rows /\ \A a \in Els(store.answers) : f \notin a.vecs
    /\ \A f \in Files : tab.file[f].removal = "gone" => f \notin tab.idx

\* A list that was read is current unless a write was served after it, and a write that the
\* tab hears of makes it read again.
Wrote(a) == a.op # "hydrate" /\ a.ok
IndexSound ==
    /\ \A i \in 1..Len(store.answers) :
          LET a == store.answers[i] IN
          a.op = "hydrate" /\ a.ok /\ (\A j \in (i + 1)..Len(store.answers) : ~Wrote(store.answers[j]))
          => a.vecs = store.rows
    /\ /\ tab.open /\ ~tab.stale
       /\ \A c \in Els(tab.toStore) : c.op # "hydrate"
       /\ \A a \in Els(store.answers) : a.op # "hydrate" /\ ~Wrote(a)
       => tab.idx = store.rows

\* A file waits in one list; only the first of a list has begun, and none has ended.
Once(d) == \A i, j \in 1..Len(d) : d[i] = d[j] => i = j
DropsSound(t) ==
    /\ \A d \in t.drops : Once(d)
    /\ \A d, e \in t.drops : \A f \in Els(d) \cap Els(e) : d = e
    /\ \A d \in t.drops : \A i \in 2..Len(d) : t.file[d[i]].st = "none"
    /\ \A f \in Files : t.file[f].st \in {"done", "error"} => \A d \in t.drops : f \notin Els(d)

RagInv ==
    /\ Typed /\ StoreQueues /\ EmbedQueues /\ FilesSound /\ SendSound
    /\ RowsSound /\ GoneSound /\ IndexSound /\ DropsSound(tab)
-----------------------------------------------------------------------------
(* Sequences *)

LEMMA EmptyKeyed == ASSUME NEW K PROVE Els(<<>>) = {} /\ Keyed(K, <<>>) = {} /\ KeyOnce(K, <<>>)
BY DEF Els, Keyed, KeyOnce

LEMMA AppendKeyed ==
    ASSUME NEW S, NEW K, NEW s \in Seq(S), NEW e \in S, KeyOnce(K, s), K[e] \notin Keyed(K, s)
    PROVE  LET q == Append(s, e) IN
           /\ q \in Seq(S) /\ KeyOnce(K, q) /\ Keyed(K, q) = Keyed(K, s) \cup {K[e]}
           /\ Els(q) = Els(s) \cup {e} /\ Len(s) \in Nat /\ Len(q) = Len(s) + 1 /\ q[Len(s) + 1] = e
           /\ \A i \in 1..Len(s) : q[i] = s[i]
<1> DEFINE q == Append(s, e)
<1>1. /\ Len(s) \in Nat /\ q \in Seq(S) /\ Len(q) = Len(s) + 1 /\ q[Len(s) + 1] = e
      /\ \A i \in 1..Len(s) : q[i] = s[i]
      OBVIOUS
<1> HIDE DEF q
<1>2. /\ \A i \in 1..Len(q) : i \in 1..Len(s) \/ i = Len(s) + 1
      /\ \A i \in 1..Len(s) : i \in 1..Len(q)
      /\ Len(s) + 1 \in 1..Len(q)
      BY <1>1
<1>3. KeyOnce(K, q)
      BY <1>1, <1>2 DEF KeyOnce, Keyed
<1>4. Keyed(K, q) = Keyed(K, s) \cup {K[e]}
      BY <1>1, <1>2 DEF Keyed
<1>5. Els(q) = Els(s) \cup {e}
      BY <1>1, <1>2 DEF Els
<1> QED BY <1>1, <1>3, <1>4, <1>5 DEF q

\* Head and Tail, for the provers to leave alone.
First(s) == Head(s)
Rest(s) == Tail(s)

LEMMA RestKeyed ==
    ASSUME NEW S, NEW K, NEW s \in Seq(S), s # <<>>, KeyOnce(K, s)
    PROVE  /\ Rest(s) \in Seq(S) /\ KeyOnce(K, Rest(s))
           /\ First(s) \in S /\ K[First(s)] \in Keyed(K, s)
           /\ First(s) \in Els(s) /\ Els(Rest(s)) \subseteq Els(s) /\ Els(s) \subseteq Els(Rest(s)) \cup {First(s)}
           /\ \A a \in Els(Rest(s)) : K[a] # K[First(s)]
<1> DEFINE q == Tail(s)
           h == Head(s)
<1>1. /\ Len(s) \in Nat /\ Len(s) >= 1 /\ q \in Seq(S) /\ Len(q) = Len(s) - 1 /\ h = s[1] /\ s[1] \in S
      OBVIOUS
<1>2. \A i \in 1..(Len(s) - 1) : q[i] = s[i + 1]
      OBVIOUS
<1> HIDE DEF q, h
<1>3. \A i \in 1..Len(q) : q[i] = s[i + 1] /\ i + 1 \in 1..Len(s) /\ i + 1 # 1
      BY <1>1, <1>2
<1>4. \A i \in 1..Len(s) : i = 1 \/ (i - 1 \in 1..Len(q) /\ (i - 1) + 1 = i)
      BY <1>1
<1>5. \A i \in 1..Len(s) : i # 1 => s[i] = q[i - 1]
      BY <1>3, <1>4
<1>6. 1 \in 1..Len(s)
      BY <1>1
<1>7. KeyOnce(K, q)
      BY <1>1, <1>3 DEF KeyOnce
<1>8. \A i \in 1..Len(q) : K[q[i]] # K[h]
      BY <1>1, <1>3, <1>6 DEF KeyOnce
<1>10. Els(q) \subseteq Els(s) /\ Els(s) \subseteq Els(q) \cup {h}
  <2>1. Els(q) \subseteq Els(s)
        BY <1>3 DEF Els
  <2>2. Els(s) \subseteq Els(q) \cup {h}
        BY <1>1, <1>4, <1>5 DEF Els
  <2> QED BY <2>1, <2>2
<1>11. h \in Els(s) /\ K[h] \in Keyed(K, s)
      BY <1>1, <1>6 DEF Els, Keyed
<1>12. \A a \in Els(q) : K[a] # K[h]
      BY <1>8 DEF Els
<1> QED BY <1>1, <1>7, <1>10, <1>11, <1>12 DEF q, h, First, Rest

LEMMA RestKeys ==
    ASSUME NEW S, NEW K, NEW s \in Seq(S), s # <<>>, KeyOnce(K, s)
    PROVE  \A k : k \in Keyed(K, Rest(s)) <=> (k \in Keyed(K, s) /\ k # K[First(s)])
<1>1. /\ Keyed(K, s) = {K[a] : a \in Els(s)} /\ Keyed(K, Rest(s)) = {K[a] : a \in Els(Rest(s))}
      BY DEF Keyed, Els
<1>2. /\ Els(Rest(s)) \subseteq Els(s) /\ Els(s) \subseteq Els(Rest(s)) \cup {First(s)}
      /\ \A a \in Els(Rest(s)) : K[a] # K[First(s)]
      BY RestKeyed
<1> QED BY <1>1, <1>2

LEMMA RestAt ==
    ASSUME NEW S, NEW s \in Seq(S), s # <<>>
    PROVE  /\ Rest(s) \in Seq(S) /\ Len(s) \in Nat /\ Len(s) >= 1 /\ Len(Rest(s)) = Len(s) - 1
           /\ First(s) = s[1] /\ First(s) \in S
           /\ \A i \in 1..(Len(s) - 1) : Rest(s)[i] = s[i + 1]
BY DEF First, Rest

LEMMA ElsTyped ==
    ASSUME NEW S, NEW K, NEW s \in Seq(S)
    PROVE  /\ DOMAIN s = 1..Len(s) /\ Len(s) \in Nat /\ Range(s) = Els(s) /\ Els(s) \subseteq S
           /\ Keyed(K, s) = {K[a] : a \in Els(s)} /\ \A i \in 1..Len(s) : s[i] \in Els(s)
<1>1. DOMAIN s = 1..Len(s) /\ Len(s) \in Nat /\ \A i \in 1..Len(s) : s[i] \in S
      OBVIOUS
<1>2. Range(s) = Els(s) /\ Els(s) \subseteq S /\ \A i \in 1..Len(s) : s[i] \in Els(s)
      BY <1>1 DEF Range, Els
<1>3. Keyed(K, s) = {K[a] : a \in Els(s)}
      BY DEF Keyed, Els
<1> QED BY <1>1, <1>2, <1>3

-----------------------------------------------------------------------------
(* Keys *)

LEMMA KeyOf ==
    /\ \A c \in CallRecs : CallKey[c] = <<c.op, c.f, c.hyd>>
    /\ \A a \in AnswerRecs : AnswerKey[a] = <<a.op, a.f, a.hyd>>
    /\ \A w \in Whos : WhoKey[w] = w
    /\ \A a \in DoneRecs : DoneKey[a] = a.who
BY DEF CallKey, AnswerKey, WhoKey, DoneKey

LEMMA CallTyped ==
    ASSUME NEW op \in {"store", "drop", "hydrate"}, NEW f \in Files \cup {None}, NEW h \in Nat
    PROVE  /\ Call(op, f, h) \in CallRecs /\ CallKey[Call(op, f, h)] = <<op, f, h>>
           /\ Call(op, f, h).op = op /\ Call(op, f, h).f = f /\ Call(op, f, h).hyd = h
<1>1. Call(op, f, h) \in CallRecs /\ Call(op, f, h).op = op /\ Call(op, f, h).f = f /\ Call(op, f, h).hyd = h
      BY DEF Call, CallRecs
<1> QED BY <1>1, KeyOf

LEMMA NextHydrate ==
    ASSUME NEW h \in Nat
    PROVE  LET c == Call("hydrate", None, h + 1) IN
           c \in CallRecs /\ CallKey[c] = <<"hydrate", None, h + 1>> /\ c.op = "hydrate"
<1> DEFINE n == h + 1
<1>1. n \in Nat
      OBVIOUS
<1> HIDE DEF n
<1>2. LET c == Call("hydrate", None, n) IN c \in CallRecs /\ CallKey[c] = <<"hydrate", None, n>> /\ c.op = "hydrate"
      BY <1>1, CallTyped
<1> QED BY <1>2 DEF n

\* A key under way says what the message is.
LEMMA KeyShape ==
    ASSUME NEW op, NEW f, NEW h, NEW n \in Nat, <<op, f, h>> \in Keys(n)
    PROVE  \/ op = "store" /\ f \in Files /\ h = 0
           \/ op = "drop" /\ f \in Files /\ h = 0
           \/ op = "hydrate" /\ f = None /\ h \in 1..n
BY DEF Keys

LEMMA WhoShape ==
    /\ Warm \in Whos /\ Prompt \in Whos /\ Warm # Prompt /\ Warm.k = "warm" /\ Prompt.k = "prompt"
    /\ \A f \in Files : Ingest(f) \in Whos /\ Ingest(f).k = "ingest" /\ Ingest(f).f = f
    /\ \A f \in Files : Ingest(f) # Warm /\ Ingest(f) # Prompt
    /\ \A f, g \in Files : Ingest(f) = Ingest(g) => f = g
<1>1. Warm \in Whos /\ Prompt \in Whos /\ \A f \in Files : Ingest(f) \in Whos
      BY DEF Whos
<1>2. Warm.k = "warm" /\ Prompt.k = "prompt" /\ \A f \in Files : Ingest(f).k = "ingest" /\ Ingest(f).f = f
      BY DEF Warm, Prompt, Ingest
<1>3. /\ Warm # Prompt
      /\ \A f \in Files : Ingest(f) # Warm /\ Ingest(f) # Prompt
      /\ \A f, g \in Files : Ingest(f) = Ingest(g) => f = g
      BY <1>2
<1> QED BY <1>1, <1>2, <1>3

LEMMA WhoCases ==
    ASSUME NEW w \in Whos
    PROVE  /\ w.k = "warm" => w = Warm
           /\ w.k = "prompt" => w = Prompt
           /\ w.k = "ingest" => w.f \in Files /\ w = Ingest(w.f)
           /\ w.k \in {"warm", "prompt", "ingest"}
<1>1. w = Warm \/ w = Prompt \/ \E f \in Files : w = Ingest(f)
      BY DEF Whos
<1>2. CASE w = Warm
      BY <1>2, WhoShape
<1>3. CASE w = Prompt
      BY <1>3, WhoShape
<1>4. ASSUME NEW f \in Files, w = Ingest(f)
      PROVE  w.k = "ingest" /\ w.f \in Files /\ w = Ingest(w.f)
      BY <1>4, WhoShape
<1> QED BY <1>1, <1>2, <1>3, <1>4
-----------------------------------------------------------------------------
(* What the operators on the tab change *)

SameIndex(t, u) == u.open = t.open /\ u.idx = t.idx /\ u.stale = t.stale
SamePromise(t, u) == u.promise = t.promise /\ u.hyds = t.hyds /\ u.forced = t.forced
SameFiles(t, u) == u.file = t.file /\ u.list = t.list /\ u.drops = t.drops
SameSend(t, u) == u.send = t.send /\ u.sends = t.sends
SameQueues(t, u) == u.toStore = t.toStore /\ u.toEmbed = t.toEmbed

\* A hydrate that is asked for has the next number.
LEMMA Hydrates ==
    ASSUME NEW t \in TabRecs, NEW force \in BOOLEAN, t.open, force \/ t.promise = 0
    PROVE  LET u == HydrateRagIndex(t, force)
               c == Call("hydrate", None, t.hyds + 1) IN
           /\ u \in TabRecs /\ SameIndex(t, u) /\ SameFiles(t, u) /\ SameSend(t, u)
           /\ u.hyds = t.hyds + 1 /\ u.promise = t.hyds + 1
           /\ u.toStore = Append(t.toStore, c) /\ u.toEmbed = t.toEmbed
<1> DEFINE c == Call("hydrate", None, t.hyds + 1)
           n == t.hyds + 1
           q == Append(t.toStore, c)
           g == IF force THEN t.forced \cup {n} ELSE t.forced
           u == [t EXCEPT !.toStore = q, !.hyds = n, !.promise = n, !.forced = g]
<1>1. t.hyds \in Nat /\ t.toStore \in Seq(CallRecs) /\ t.forced \in SUBSET Nat
      BY DEF TabRecs
<1>2. n \in Nat /\ c \in CallRecs
  <2>1. n \in Nat
        BY <1>1
  <2> HIDE DEF n
  <2>2. Call("hydrate", None, n) \in CallRecs
        BY <2>1, CallTyped
  <2> QED BY <2>1, <2>2 DEF n
<1>3. HydrateRagIndex(t, force) = u
      BY DEF HydrateRagIndex, ToStore, TabRecs
<1>4. q \in Seq(CallRecs) /\ g \in SUBSET Nat
      BY <1>1, <1>2
<1> HIDE DEF q, g, c
<1>5. /\ u \in TabRecs /\ SameIndex(t, u) /\ SameFiles(t, u) /\ SameSend(t, u)
      /\ u.hyds = n /\ u.promise = n /\ u.toStore = q /\ u.toEmbed = t.toEmbed
      BY <1>2, <1>4 DEF TabRecs, SameIndex, SameFiles, SameSend
<1> QED BY <1>3, <1>5 DEF q, c

\* Otherwise nothing changes, but for an index that no store fills.
LEMMA HydratesNot ==
    ASSUME NEW t \in TabRecs, NEW force \in BOOLEAN, ~(t.open /\ (force \/ t.promise = 0))
    PROVE  LET u == HydrateRagIndex(t, force) IN
           /\ u \in TabRecs /\ SamePromise(t, u) /\ SameFiles(t, u) /\ SameSend(t, u) /\ SameQueues(t, u)
           /\ u.open = t.open /\ u.stale = t.stale /\ u.idx \subseteq t.idx /\ (t.open => u.idx = t.idx)
BY DEF HydrateRagIndex, TabRecs, SamePromise, SameFiles, SameSend, SameQueues

LEMMA HydrateSettles ==
    ASSUME NEW t \in TabRecs, NEW a \in AnswerRecs
    PROVE  LET u == HydrateSettled(t, a, a.vecs, a.ok) IN
           /\ u \in TabRecs /\ u.open = t.open /\ u.idx = (IF a.ok THEN a.vecs ELSE {}) /\ u.stale = ~a.ok
           /\ u.hyds = t.hyds /\ u.promise \in {0, t.promise}
           /\ SameFiles(t, u) /\ SameSend(t, u) /\ SameQueues(t, u)
<1> DEFINE i == IF a.ok THEN a.vecs ELSE {}
           p == IF a.hyd \in t.forced THEN 0 ELSE t.promise
           u == [t EXCEPT !.idx = i, !.stale = ~a.ok, !.promise = p]
<1>1. a.ok \in BOOLEAN /\ a.vecs \in SUBSET Docs /\ t.promise \in Nat
      BY DEF AnswerRecs, TabRecs
<1>2. i \in SUBSET Docs /\ p \in Nat /\ p \in {0, t.promise} /\ (~a.ok) \in BOOLEAN
      BY <1>1
<1>3. HydrateSettled(t, a, a.vecs, a.ok) = u
      BY DEF HydrateSettled, TabRecs
<1> HIDE DEF i, p
<1>4. /\ u \in TabRecs /\ u.open = t.open /\ u.idx = i /\ u.stale = ~a.ok /\ u.hyds = t.hyds /\ u.promise = p
      /\ SameFiles(t, u) /\ SameSend(t, u) /\ SameQueues(t, u)
      BY <1>1, <1>2 DEF TabRecs, SameFiles, SameSend, SameQueues
<1> QED BY <1>2, <1>3, <1>4 DEF i

Advance(drops, S) == {IF d # <<>> /\ Head(d) \in S THEN Tail(d) ELSE d : d \in drops}

LEMMA Settles ==
    ASSUME NEW t \in TabRecs, NEW S \in SUBSET Files, NEW st \in FileSteps
    PROVE  LET u == Settle(t, S, st) IN
           /\ u \in TabRecs /\ SameIndex(t, u) /\ SamePromise(t, u) /\ SameSend(t, u) /\ SameQueues(t, u)
           /\ u.list = t.list /\ u.drops = Advance(t.drops, S)
           /\ \A f \in Files : /\ u.file[f].st = IF f \in S THEN st ELSE t.file[f].st
                               /\ u.file[f].removal = t.file[f].removal
                               /\ u.file[f].hyd = t.file[f].hyd /\ u.file[f].batch = t.file[f].batch
<1> DEFINE fs == [f \in Files |-> IF f \in S THEN [t.file[f] EXCEPT !.st = st] ELSE t.file[f]]
           ds == Advance(t.drops, S)
           u == [t EXCEPT !.file = fs, !.drops = ds]
<1>1. t.file \in [Files -> FileRecs] /\ t.drops \in SUBSET Seq(Files)
      BY DEF TabRecs
<1>2. \A d \in Seq(Files) : d # <<>> => Tail(d) \in Seq(Files)
      OBVIOUS
<1>3. ds \in SUBSET Seq(Files)
      BY <1>1, <1>2 DEF Advance
<1>4. \A f \in Files : LET r == [t.file[f] EXCEPT !.st = st] IN
          /\ r \in FileRecs /\ r.st = st /\ r.removal = t.file[f].removal
          /\ r.hyd = t.file[f].hyd /\ r.batch = t.file[f].batch
      BY <1>1 DEF FileRecs
<1>5. fs \in [Files -> FileRecs]
      BY <1>1, <1>4
<1>6. \A f \in Files : /\ fs[f].st = IF f \in S THEN st ELSE t.file[f].st
                       /\ fs[f].removal = t.file[f].removal
                       /\ fs[f].hyd = t.file[f].hyd /\ fs[f].batch = t.file[f].batch
      BY <1>4
<1>7. Settle(t, S, st) = u
      BY DEF Settle, Advance, TabRecs
<1> HIDE DEF fs, ds
<1>8. /\ u \in TabRecs /\ SameIndex(t, u) /\ SamePromise(t, u) /\ SameSend(t, u) /\ SameQueues(t, u)
      /\ u.list = t.list /\ u.drops = ds /\ u.file = fs
      BY <1>3, <1>5 DEF TabRecs, SameIndex, SamePromise, SameSend, SameQueues
<1> QED BY <1>6, <1>7, <1>8 DEF ds

\* One file moves.
Moved(t, f, x) == [t EXCEPT !.file[f] = x]

LEMMA Moves ==
    ASSUME NEW t \in TabRecs, NEW f \in Files, NEW x \in FileRecs
    PROVE  LET u == Moved(t, f, x) IN
           /\ u \in TabRecs /\ SameIndex(t, u) /\ SamePromise(t, u) /\ SameSend(t, u) /\ SameQueues(t, u)
           /\ u.list = t.list /\ u.drops = t.drops /\ u.file[f] = x
           /\ \A g \in Files \ {f} : u.file[g] = t.file[g]
<1> DEFINE fs == [t.file EXCEPT ![f] = x]
           u == [t EXCEPT !.file = fs]
<1>1. t.file \in [Files -> FileRecs]
      BY DEF TabRecs
<1>2. fs \in [Files -> FileRecs] /\ fs[f] = x /\ \A g \in Files \ {f} : fs[g] = t.file[g]
      BY <1>1
<1>3. Moved(t, f, x) = u
      BY DEF Moved
<1> HIDE DEF fs
<1>4. /\ u \in TabRecs /\ SameIndex(t, u) /\ SamePromise(t, u) /\ SameSend(t, u) /\ SameQueues(t, u)
      /\ u.list = t.list /\ u.drops = t.drops /\ u.file = fs
      BY <1>2 DEF TabRecs, SameIndex, SamePromise, SameSend, SameQueues
<1> QED BY <1>2, <1>3, <1>4

LEMMA PostsStore ==
    ASSUME NEW t \in TabRecs, NEW c \in CallRecs
    PROVE  LET u == ToStore(t, c) IN
           /\ u \in TabRecs /\ SameIndex(t, u) /\ SamePromise(t, u) /\ SameFiles(t, u) /\ SameSend(t, u)
           /\ u.toStore = Append(t.toStore, c) /\ u.toEmbed = t.toEmbed
<1> DEFINE q == Append(t.toStore, c)
<1>1. q \in Seq(CallRecs)
      BY DEF TabRecs
<1>2. ToStore(t, c) = [t EXCEPT !.toStore = q]
      BY DEF ToStore
<1> HIDE DEF q
<1>3. LET u == [t EXCEPT !.toStore = q] IN
      /\ u \in TabRecs /\ SameIndex(t, u) /\ SamePromise(t, u) /\ SameFiles(t, u) /\ SameSend(t, u)
      /\ u.toStore = q /\ u.toEmbed = t.toEmbed
      BY <1>1 DEF TabRecs, SameIndex, SamePromise, SameFiles, SameSend
<1> QED BY <1>2, <1>3 DEF q

LEMMA PostsEmbed ==
    ASSUME NEW t \in TabRecs, NEW w \in Whos
    PROVE  LET u == ToEmbed(t, w) IN
           /\ u \in TabRecs /\ SameIndex(t, u) /\ SamePromise(t, u) /\ SameFiles(t, u) /\ SameSend(t, u)
           /\ u.toEmbed = Append(t.toEmbed, w) /\ u.toStore = t.toStore
<1> DEFINE q == Append(t.toEmbed, w)
<1>1. q \in Seq(Whos)
      BY DEF TabRecs
<1>2. ToEmbed(t, w) = [t EXCEPT !.toEmbed = q]
      BY DEF ToEmbed
<1> HIDE DEF q
<1>3. LET u == [t EXCEPT !.toEmbed = q] IN
      /\ u \in TabRecs /\ SameIndex(t, u) /\ SamePromise(t, u) /\ SameFiles(t, u) /\ SameSend(t, u)
      /\ u.toEmbed = q /\ u.toStore = t.toStore
      BY <1>1 DEF TabRecs, SameIndex, SamePromise, SameFiles, SameSend
<1> QED BY <1>2, <1>3 DEF q
-----------------------------------------------------------------------------
(* The queues, step by step *)

LEMMA StoreIdle ==
    ASSUME StoreQueues, tab'.toStore = tab.toStore, tab'.hyds = tab.hyds, tab'.open = tab.open, store' = store
    PROVE  StoreQueues' /\ Asked' = Asked /\ Answered' = Answered /\ Calls' = Calls
<1>1. Asked' = Asked /\ Answered' = Answered
      BY DEF Asked, Answered
<1>2. Calls' = Calls
      BY <1>1 DEF Calls
<1> QED BY <1>1, <1>2 DEF StoreQueues

LEMMA StorePosted ==
    ASSUME StoreQueues, tab.toStore \in Seq(CallRecs), tab.open, NEW c \in CallRecs, tab.hyds \in Nat,
           tab'.toStore = Append(tab.toStore, c), tab'.hyds \in {tab.hyds, tab.hyds + 1},
           tab'.open = tab.open, store' = store,
           CallKey[c] \in Keys(tab'.hyds), CallKey[c] \notin Calls
    PROVE  StoreQueues' /\ Asked' = Asked \cup {CallKey[c]} /\ Answered' = Answered /\ Calls' = Calls \cup {CallKey[c]}
           /\ Els(tab'.toStore) = Els(tab.toStore) \cup {c}
<1>1. KeyOnce(CallKey, tab.toStore) /\ CallKey[c] \notin Keyed(CallKey, tab.toStore)
      BY DEF StoreQueues, Calls, Asked
<1>2. /\ KeyOnce(CallKey, tab'.toStore)
      /\ Keyed(CallKey, tab'.toStore) = Keyed(CallKey, tab.toStore) \cup {CallKey[c]}
      /\ Els(tab'.toStore) = Els(tab.toStore) \cup {c}
      BY <1>1, AppendKeyed
<1>3. Asked' = Asked \cup {CallKey[c]} /\ Answered' = Answered
      BY <1>2 DEF Asked, Answered
<1>4. Calls' = Calls \cup {CallKey[c]}
      BY <1>3 DEF Calls
<1>5. Keys(tab.hyds) \subseteq Keys(tab'.hyds)
      BY DEF Keys
<1>6. Asked' \cap Answered' = {}
      BY <1>3 DEF StoreQueues, Calls
<1>7. Calls' \subseteq Keys(tab'.hyds)
      BY <1>4, <1>5 DEF StoreQueues
<1>8. KeyOnce(AnswerKey, store'.answers)
      BY DEF StoreQueues
<1>9. tab'.open
      OBVIOUS
<1> QED BY <1>2, <1>3, <1>4, <1>6, <1>7, <1>8, <1>9 DEF StoreQueues

LEMMA EmbedIdle ==
    ASSUME EmbedQueues, tab'.toEmbed = tab.toEmbed, embed'.answers = embed.answers,
           embed'.st = "starting" => embed.st = "starting"
    PROVE  EmbedQueues' /\ Waiting' = Waiting /\ Vectored' = Vectored /\ Work' = Work
<1>1. Waiting' = Waiting /\ Vectored' = Vectored
      BY DEF Waiting, Vectored
<1>2. Work' = Work
      BY <1>1 DEF Work
<1> QED BY <1>1, <1>2 DEF EmbedQueues

LEMMA EmbedPosted ==
    ASSUME EmbedQueues, tab.toEmbed \in Seq(Whos), NEW w \in Whos, w \notin Work,
           tab'.toEmbed = Append(tab.toEmbed, w), embed' = embed
    PROVE  EmbedQueues' /\ Work' = Work \cup {w}
<1>1. KeyOnce(WhoKey, tab.toEmbed) /\ WhoKey[w] = w /\ WhoKey[w] \notin Keyed(WhoKey, tab.toEmbed)
      BY KeyOf DEF EmbedQueues, Work, Waiting
<1>2. /\ KeyOnce(WhoKey, tab'.toEmbed)
      /\ Keyed(WhoKey, tab'.toEmbed) = Keyed(WhoKey, tab.toEmbed) \cup {w}
      BY <1>1, AppendKeyed
<1>3. Waiting' = Waiting \cup {w} /\ Vectored' = Vectored
      BY <1>2 DEF Waiting, Vectored
<1>4. Work' = Work \cup {w}
      BY <1>3 DEF Work
<1>5. Waiting' \cap Vectored' = {}
      BY <1>3 DEF EmbedQueues, Work
<1>6. KeyOnce(DoneKey, embed'.answers) /\ (embed'.st = "starting" => embed'.answers = <<>>)
      BY DEF EmbedQueues
<1> QED BY <1>2, <1>4, <1>5, <1>6 DEF EmbedQueues

\* The tab hears of the first answer, and may ask for more.
LEMMA EmbedHeard ==
    ASSUME EmbedQueues, tab.toEmbed \in Seq(Whos), embed.answers \in Seq(DoneRecs), embed.answers # <<>>,
           embed'.answers = Rest(embed.answers), embed'.st = embed.st,
           \/ tab'.toEmbed = tab.toEmbed
           \/ tab'.toEmbed = Append(tab.toEmbed, First(embed.answers).who)
    PROVE  LET w == First(embed.answers).who IN
           /\ w \in Whos /\ w \in Work /\ EmbedQueues'
           /\ tab'.toEmbed = tab.toEmbed => Work' = Work \ {w}
           /\ tab'.toEmbed = Append(tab.toEmbed, w) => Work' = Work
<1> DEFINE a == First(embed.answers)
           w == a.who
           q == Rest(embed.answers)
<1>1. /\ KeyOnce(DoneKey, q) /\ Keyed(DoneKey, q) = Keyed(DoneKey, embed.answers) \ {DoneKey[a]}
      /\ a \in DoneRecs /\ DoneKey[a] \in Keyed(DoneKey, embed.answers)
  <2>1. KeyOnce(DoneKey, embed.answers)
        BY DEF EmbedQueues
  <2>2. /\ KeyOnce(DoneKey, q) /\ a \in DoneRecs /\ DoneKey[a] \in Keyed(DoneKey, embed.answers)
        BY <2>1, RestKeyed
  <2>3. \A k : k \in Keyed(DoneKey, q) <=> (k \in Keyed(DoneKey, embed.answers) /\ k # DoneKey[a])
        BY <2>1, RestKeys
  <2> QED BY <2>2, <2>3
<1>2. DoneKey[a] = w /\ w \in Whos
      BY <1>1, KeyOf DEF DoneRecs
<1> HIDE DEF a, q, w
<1>3. Vectored' = Vectored \ {w} /\ w \in Vectored /\ KeyOnce(DoneKey, embed'.answers)
      BY <1>1, <1>2 DEF Vectored, q
<1>4. w \notin Waiting /\ w \in Work
      BY <1>3 DEF EmbedQueues, Work
<1>5. embed'.st # "starting"
  <2>1. embed.st # "starting"
        BY DEF EmbedQueues
  <2> QED BY <2>1
<1>6. CASE tab'.toEmbed = tab.toEmbed
  <2>1. Waiting' = Waiting /\ KeyOnce(WhoKey, tab'.toEmbed)
        BY <1>6 DEF Waiting, EmbedQueues
  <2>2. Work' = Work \ {w}
        BY <1>3, <1>4, <2>1 DEF Work
  <2>3. Waiting' \cap Vectored' = {}
        BY <1>3, <2>1 DEF EmbedQueues
  <2>4. EmbedQueues'
        BY <1>3, <1>5, <2>1, <2>3 DEF EmbedQueues
  <2>5. tab'.toEmbed # Append(tab.toEmbed, w)
    <3>1. Len(Append(tab.toEmbed, w)) = Len(tab.toEmbed) + 1 /\ Len(tab.toEmbed) \in Nat
          OBVIOUS
    <3> QED BY <1>6, <3>1
  <2> QED BY <1>2, <1>4, <2>2, <2>4, <2>5 DEF a, w
<1>7. CASE tab'.toEmbed = Append(tab.toEmbed, w)
  <2>1. WhoKey[w] = w /\ WhoKey[w] \notin Keyed(WhoKey, tab.toEmbed) /\ KeyOnce(WhoKey, tab.toEmbed)
        BY <1>2, <1>4, KeyOf DEF Waiting, EmbedQueues
  <2>2. /\ KeyOnce(WhoKey, tab'.toEmbed)
        /\ Keyed(WhoKey, tab'.toEmbed) = Keyed(WhoKey, tab.toEmbed) \cup {w}
        BY <1>2, <1>7, <2>1, AppendKeyed
  <2>3. Waiting' = Waiting \cup {w}
        BY <2>2 DEF Waiting
  <2>4. Work' = Work
        BY <1>3, <2>3 DEF Work
  <2>5. Waiting' \cap Vectored' = {}
        BY <1>3, <2>3 DEF EmbedQueues
  <2>6. EmbedQueues'
        BY <1>3, <1>5, <2>2, <2>5 DEF EmbedQueues
  <2>7. tab'.toEmbed # tab.toEmbed
    <3>1. Len(Append(tab.toEmbed, w)) = Len(tab.toEmbed) + 1 /\ Len(tab.toEmbed) \in Nat
          BY <1>2
    <3> QED BY <1>7, <3>1
  <2> QED BY <1>2, <1>4, <2>4, <2>6, <2>7 DEF a, w
<1> QED BY <1>6, <1>7 DEF a, w
LEMMA StoreServed ==
    ASSUME StoreQueues, tab.toStore \in Seq(CallRecs), store.answers \in Seq(AnswerRecs), tab.toStore # <<>>,
           NEW b \in AnswerRecs, AnswerKey[b] = CallKey[First(tab.toStore)],
           tab'.toStore = Rest(tab.toStore), store'.answers = Append(store.answers, b),
           tab'.hyds = tab.hyds, tab'.open = tab.open
    PROVE  /\ StoreQueues' /\ Calls' = Calls
           /\ \A k : k \in Asked' <=> (k \in Asked /\ k # AnswerKey[b])
           /\ AnswerKey[b] \in Asked /\ AnswerKey[b] \notin Answered
<1> DEFINE c == First(tab.toStore)
           k0 == CallKey[c]
<1>1. KeyOnce(CallKey, tab.toStore) /\ KeyOnce(AnswerKey, store.answers)
      BY DEF StoreQueues
<1>2. KeyOnce(CallKey, Rest(tab.toStore)) /\ k0 \in Keyed(CallKey, tab.toStore)
      BY <1>1, RestKeyed
<1>3. \A k : k \in Keyed(CallKey, Rest(tab.toStore)) <=> (k \in Keyed(CallKey, tab.toStore) /\ k # k0)
      BY <1>1, RestKeys
<1> HIDE DEF c, k0
<1>4. k0 \in Asked /\ \A k : k \in Asked' <=> (k \in Asked /\ k # k0)
      BY <1>2, <1>3 DEF Asked
<1>5. k0 \notin Answered /\ AnswerKey[b] = k0
      BY <1>4 DEF StoreQueues, k0, c
<1>6. /\ KeyOnce(AnswerKey, store'.answers)
      /\ Keyed(AnswerKey, store'.answers) = Keyed(AnswerKey, store.answers) \cup {k0}
      BY <1>1, <1>5, AppendKeyed DEF Answered
<1>7. Answered' = Answered \cup {k0}
      BY <1>6 DEF Answered
<1>8. Calls' = Calls
      BY <1>4, <1>7 DEF Calls
<1>9. Asked' \cap Answered' = {}
      BY <1>4, <1>7 DEF StoreQueues
<1>10. tab'.open
  <2>1. tab.open
        BY DEF StoreQueues
  <2> QED BY <2>1
<1>11. Calls' \subseteq Keys(tab'.hyds) /\ KeyOnce(CallKey, tab'.toStore)
      BY <1>2, <1>8 DEF StoreQueues
<1> QED BY <1>4, <1>5, <1>6, <1>8, <1>9, <1>10, <1>11 DEF StoreQueues

\* The tab hears of the first answer, and may ask for a hydrate.
LEMMA StoreHeard ==
    ASSUME StoreQueues, store.answers \in Seq(AnswerRecs), store.answers # <<>>,
           store'.answers = Rest(store.answers), tab'.hyds = tab.hyds, tab'.open = tab.open,
           tab'.toStore = tab.toStore
    PROVE  LET k0 == AnswerKey[First(store.answers)] IN
           /\ StoreQueues' /\ tab.open /\ k0 \in Calls /\ k0 \notin Asked /\ Asked' = Asked
           /\ \A k : k \in Calls' <=> (k \in Calls /\ k # k0)
<1> DEFINE k0 == AnswerKey[First(store.answers)]
<1>1. KeyOnce(AnswerKey, store.answers) /\ tab.open /\ tab'.open
  <2>1. KeyOnce(AnswerKey, store.answers) /\ tab.open
        BY DEF StoreQueues
  <2> QED BY <2>1
<1>2. KeyOnce(AnswerKey, Rest(store.answers)) /\ k0 \in Keyed(AnswerKey, store.answers)
      BY <1>1, RestKeyed
<1>3. \A k : k \in Keyed(AnswerKey, Rest(store.answers)) <=> (k \in Keyed(AnswerKey, store.answers) /\ k # k0)
      BY <1>1, RestKeys
<1> HIDE DEF k0
<1>4. k0 \in Answered /\ \A k : k \in Answered' <=> (k \in Answered /\ k # k0)
      BY <1>2, <1>3 DEF Answered
<1>5. k0 \notin Asked /\ k0 \in Calls
      BY <1>4 DEF StoreQueues, Calls
<1>6. Asked' = Asked
      BY DEF Asked
<1>7. \A k : k \in Calls' <=> (k \in Calls /\ k # k0)
      BY <1>4, <1>5, <1>6 DEF Calls
<1>8. Asked' \cap Answered' = {} /\ Calls' \subseteq Keys(tab'.hyds) /\ KeyOnce(CallKey, tab'.toStore)
      BY <1>4, <1>6, <1>7 DEF StoreQueues
<1>9. StoreQueues'
      BY <1>1, <1>2, <1>8 DEF StoreQueues
<1> QED BY <1>1, <1>5, <1>6, <1>7, <1>9 DEF k0

LEMMA StoreHeardAsks ==
    ASSUME StoreQueues, store.answers \in Seq(AnswerRecs), store.answers # <<>>,
           store'.answers = Rest(store.answers), tab'.open = tab.open,
           tab.hyds \in Nat, tab'.hyds = tab.hyds + 1, tab.toStore \in Seq(CallRecs),
           tab'.toStore = Append(tab.toStore, Call("hydrate", None, tab.hyds + 1))
    PROVE  LET k0 == AnswerKey[First(store.answers)]
               k1 == <<"hydrate", None, tab.hyds + 1>> IN
           /\ StoreQueues' /\ tab.open /\ k0 \in Calls /\ k0 # k1 /\ Asked' = Asked \cup {k1}
           /\ \A k : k \in Calls' <=> k = k1 \/ (k \in Calls /\ k # k0)
           /\ Call("hydrate", None, tab.hyds + 1) \in Els(tab'.toStore)
<1> DEFINE k0 == AnswerKey[First(store.answers)]
           k1 == <<"hydrate", None, tab.hyds + 1>>
           c == Call("hydrate", None, tab.hyds + 1)
<1>1. KeyOnce(AnswerKey, store.answers) /\ tab.open /\ tab'.open /\ KeyOnce(CallKey, tab.toStore)
  <2>1. KeyOnce(AnswerKey, store.answers) /\ tab.open /\ KeyOnce(CallKey, tab.toStore)
        BY DEF StoreQueues
  <2> QED BY <2>1
<1>2. KeyOnce(AnswerKey, Rest(store.answers)) /\ k0 \in Keyed(AnswerKey, store.answers)
      BY <1>1, RestKeyed
<1>3. \A k : k \in Keyed(AnswerKey, Rest(store.answers)) <=> (k \in Keyed(AnswerKey, store.answers) /\ k # k0)
      BY <1>1, RestKeys
<1>4. c \in CallRecs /\ CallKey[c] = k1 /\ k1 \in Keys(tab'.hyds) /\ k1 \notin Keys(tab.hyds) /\ Keys(tab.hyds) \subseteq Keys(tab'.hyds)
  <2>1. c \in CallRecs /\ CallKey[c] = k1
        BY NextHydrate
  <2>2. k1 \in Keys(tab'.hyds)
        BY DEF Keys
  <2>3. k1 \notin Keys(tab.hyds)
    <3>1. ASSUME k1 \in Keys(tab.hyds) PROVE FALSE
          BY <3>1 DEF Keys
    <3> QED BY <3>1
  <2>4. Keys(tab.hyds) \subseteq Keys(tab'.hyds)
        BY DEF Keys
  <2> QED BY <2>1, <2>2, <2>3, <2>4
<1> HIDE DEF k0, k1, c
<1>5. k0 \in Answered /\ \A k : k \in Answered' <=> (k \in Answered /\ k # k0)
      BY <1>2, <1>3 DEF Answered
<1>6. k0 \notin Asked /\ k0 \in Calls /\ k1 \notin Calls /\ k0 # k1 /\ k1 \notin Asked
      BY <1>4, <1>5 DEF StoreQueues, Calls
<1>7. tab'.toStore = Append(tab.toStore, c)
      BY DEF c
<1>8. /\ KeyOnce(CallKey, tab'.toStore)
      /\ Keyed(CallKey, tab'.toStore) = Keyed(CallKey, tab.toStore) \cup {k1}
      /\ Els(tab'.toStore) = Els(tab.toStore) \cup {c}
  <2>1. CallKey[c] \notin Keyed(CallKey, tab.toStore)
        BY <1>4, <1>6 DEF Asked
  <2>2. /\ KeyOnce(CallKey, Append(tab.toStore, c))
        /\ Keyed(CallKey, Append(tab.toStore, c)) = Keyed(CallKey, tab.toStore) \cup {CallKey[c]}
        /\ Els(Append(tab.toStore, c)) = Els(tab.toStore) \cup {c}
        BY <1>1, <1>4, <2>1, AppendKeyed
  <2> QED BY <1>4, <1>7, <2>2
<1>9. Asked' = Asked \cup {k1}
      BY <1>8 DEF Asked
<1>10. \A k : k \in Calls' <=> k = k1 \/ (k \in Calls /\ k # k0)
      BY <1>5, <1>6, <1>9 DEF Calls
<1>11. Asked' \cap Answered' = {} /\ Calls' \subseteq Keys(tab'.hyds)
      BY <1>4, <1>5, <1>6, <1>9, <1>10 DEF StoreQueues, Calls
<1>12. StoreQueues'
      BY <1>1, <1>2, <1>8, <1>11 DEF StoreQueues
<1>13. c \in Els(tab'.toStore)
      BY <1>8
<1> QED BY <1>1, <1>6, <1>9, <1>10, <1>12, <1>13 DEF k0, k1, c
-----------------------------------------------------------------------------
(* What a step leaves in place *)

Early == {"none", "parsing", "embedding", "error"}

\* A move of a file that the store has no part in.
RowMove(x, y) ==
    /\ y.st \in Early => x.st \in Early
    /\ y.st = "hydrating" => x.st = "hydrating"
    /\ y.st = "done" /\ y.removal = "no" => x.st = "done" /\ x.removal = "no"
    /\ y.removal \in {"hydrating", "gone"} => x.removal = y.removal

LEMMA RowsKept ==
    ASSUME RowsSound, GoneSound, IndexSound, store' = store, tab'.open = tab.open, tab'.idx \subseteq tab.idx,
           tab.open => tab'.idx = tab.idx /\ tab'.stale = tab.stale,
           Els(tab.toStore) \subseteq Els(tab'.toStore),
           \A f \in Files : RowMove(tab.file[f], tab'.file[f]),
           \A f \in Files : <<"store", f, 0>> \in Asked' => <<"store", f, 0>> \in Asked \/ tab.file[f].st \in Early
    PROVE  RowsSound' /\ GoneSound' /\ IndexSound'
<1>1. RowsSound'
      BY DEF RowsSound, RowMove, Early
<1>2. GoneSound'
      BY DEF GoneSound, RowMove
<1>3. IndexSound'
      BY DEF IndexSound
<1> QED BY <1>1, <1>2, <1>3

LEMMA SendKept ==
    ASSUME SendSound, tab.send.gone \subseteq Files, tab'.send = tab.send, Prompt \in Work' <=> Prompt \in Work,
           tab.send.st = "hydrating" /\ <<"hydrate", None, tab.send.hyd>> \in Calls
              => <<"hydrate", None, tab.send.hyd>> \in Calls',
           \A f \in Files : tab.file[f].removal = "gone" => tab'.file[f].removal = "gone"
    PROVE  SendSound'
BY DEF SendSound

LEMMA NumbersKept ==
    ASSUME NEW t, NEW u, Numbers(t), u.promise = t.promise, u.hyds = t.hyds, u.sends = t.sends,
           \A f \in Files : u.file[f].batch = t.file[f].batch
    PROVE  Numbers(u)
BY DEF Numbers

-----------------------------------------------------------------------------
(* The lists of files that wait *)

LEMMA RestOnce ==
    ASSUME NEW d \in Seq(Files), d # <<>>, Once(d)
    PROVE  /\ Rest(d) \in Seq(Files) /\ Once(Rest(d)) /\ First(d) \in Els(d)
           /\ \A f : f \in Els(Rest(d)) <=> (f \in Els(d) /\ f # First(d))
           /\ \A i \in 2..Len(Rest(d)) : i + 1 \in 2..Len(d) /\ Rest(d)[i] = d[i + 1]
<1>1. /\ Rest(d) \in Seq(Files) /\ Len(d) \in Nat /\ Len(d) >= 1 /\ Len(Rest(d)) = Len(d) - 1
      /\ First(d) = d[1] /\ \A i \in 1..(Len(d) - 1) : Rest(d)[i] = d[i + 1]
      BY RestAt
<1>2. \A i \in 1..Len(Rest(d)) : i + 1 \in 1..Len(d) /\ Rest(d)[i] = d[i + 1] /\ i + 1 # 1 /\ i \in Nat
      BY <1>1
<1>3. 1 \in 1..Len(d)
      BY <1>1
<1>4. Once(Rest(d))
  <2> SUFFICES ASSUME NEW i \in 1..Len(Rest(d)), NEW j \in 1..Len(Rest(d)), Rest(d)[i] = Rest(d)[j] PROVE i = j
      BY DEF Once
  <2>1. i + 1 = j + 1
        BY <1>2 DEF Once
  <2> QED BY <1>2, <2>1
<1>5. ASSUME NEW f \in Els(Rest(d)) PROVE f \in Els(d) /\ f # First(d)
  <2>1. PICK i \in 1..Len(Rest(d)) : f = Rest(d)[i]
        BY DEF Els
  <2>2. f = d[i + 1] /\ i + 1 \in 1..Len(d) /\ i + 1 # 1
        BY <1>2, <2>1
  <2> QED BY <1>1, <1>3, <2>2 DEF Els, Once
<1>6. ASSUME NEW f \in Els(d), f # First(d) PROVE f \in Els(Rest(d))
  <2>1. PICK i \in 1..Len(d) : f = d[i]
        BY DEF Els
  <2>2. i # 1
        BY <1>1, <1>6, <2>1
  <2>3. i - 1 \in 1..Len(Rest(d)) /\ (i - 1) + 1 = i
        BY <1>1, <2>2
  <2>4. f = Rest(d)[i - 1]
        BY <1>2, <2>1, <2>3
  <2> QED BY <2>3, <2>4 DEF Els
<1>7. \A i \in 2..Len(Rest(d)) : i + 1 \in 2..Len(d) /\ Rest(d)[i] = d[i + 1]
      BY <1>1
<1>8. First(d) \in Els(d)
      BY <1>1, <1>3 DEF Els
<1> QED BY <1>1, <1>4, <1>5, <1>6, <1>7, <1>8

Begins(t, f) == \E d \in t.drops : d # <<>> /\ First(d) = f

\* A file that has begun is the first of its list.
LEMMA BegunFirst ==
    ASSUME NEW t \in TabRecs, DropsSound(t), NEW f \in Files, t.file[f].st # "none" \/ Begins(t, f),
           NEW d \in t.drops, f \in Els(d)
    PROVE  d # <<>> /\ First(d) = f /\ \A i \in 2..Len(d) : d[i] # f
<1>1. d \in Seq(Files)
      BY DEF TabRecs
<1>2. d # <<>>
      BY EmptyKeyed
<1>3. Len(d) \in Nat /\ Len(d) >= 1 /\ First(d) = d[1]
      BY <1>1, <1>2, RestAt
<1>4. Once(d)
      BY DEF DropsSound
<1>5. First(d) = f
  <2>1. CASE t.file[f].st # "none"
    <3>1. PICK i \in 1..Len(d) : f = d[i]
          BY DEF Els
    <3>2. i \notin 2..Len(d)
          BY <2>1, <3>1 DEF DropsSound
    <3> QED BY <1>3, <3>1, <3>2
  <2>2. CASE Begins(t, f)
    <3>1. PICK e \in t.drops : e # <<>> /\ First(e) = f
          BY <2>2 DEF Begins
    <3>2. e \in Seq(Files) /\ Once(e)
          BY DEF TabRecs, DropsSound
    <3>3. f \in Els(e)
          BY <3>1, <3>2, RestOnce
    <3>4. e = d
          BY <3>3 DEF DropsSound
    <3> QED BY <3>1, <3>4
  <2> QED BY <2>1, <2>2
<1>6. ASSUME NEW i \in 2..Len(d), d[i] = f PROVE FALSE
  <2>1. i \in 1..Len(d) /\ 1 \in 1..Len(d) /\ i # 1
        BY <1>3
  <2> QED BY <1>3, <1>4, <1>5, <1>6, <2>1 DEF Once
<1> QED BY <1>2, <1>5, <1>6

LEMMA DropsKept ==
    ASSUME NEW t \in TabRecs, DropsSound(t), NEW u, u.drops = t.drops,
           \A f \in Files : /\ u.file[f].st \in {"done", "error"} => t.file[f].st \in {"done", "error"}
                            /\ u.file[f].st # "none" => t.file[f].st # "none" \/ Begins(t, f)
    PROVE  DropsSound(u)
<1>1. ASSUME NEW d \in t.drops, NEW i \in 2..Len(d) PROVE u.file[d[i]].st = "none"
  <2>1. d \in Seq(Files)
        BY DEF TabRecs
  <2>2. i \in 1..Len(d)
        BY <2>1
  <2>3. d[i] \in Files /\ d[i] \in Els(d)
        BY <2>1, <2>2 DEF Els
  <2> QED BY <2>3, BegunFirst
<1> QED BY <1>1 DEF DropsSound

LEMMA DropsSettled ==
    ASSUME NEW t \in TabRecs, DropsSound(t), NEW S \in SUBSET Files, NEW st \in {"done", "error"},
           \A f \in S : t.file[f].st # "none" \/ Begins(t, f),
           NEW u, u.drops = Advance(t.drops, S),
           \A f \in Files : u.file[f].st = IF f \in S THEN st ELSE t.file[f].st
    PROVE  DropsSound(u)
<1> DEFINE adv(d) == IF d # <<>> /\ First(d) \in S THEN Rest(d) ELSE d
<1>1. u.drops = {adv(d) : d \in t.drops}
      BY DEF Advance, First, Rest
<1>2. ASSUME NEW d \in t.drops
      PROVE  /\ adv(d) \in Seq(Files) /\ Once(adv(d)) /\ Els(adv(d)) \subseteq Els(d)
             /\ \A i \in 2..Len(adv(d)) : \E j \in 2..Len(d) : adv(d)[i] = d[j]
             /\ \A f \in S : f \notin Els(adv(d))
  <2>1. d \in Seq(Files) /\ Once(d)
        BY DEF TabRecs, DropsSound
  <2>2. \A f \in S : f \in Els(d) => d # <<>> /\ First(d) = f
        BY BegunFirst
  <2>3. CASE d # <<>> /\ First(d) \in S
    <3>1. adv(d) = Rest(d)
          BY <2>3
    <3> HIDE DEF adv
    <3>2. /\ Rest(d) \in Seq(Files) /\ Once(Rest(d))
          /\ \A f : f \in Els(Rest(d)) <=> (f \in Els(d) /\ f # First(d))
          /\ \A i \in 2..Len(Rest(d)) : i + 1 \in 2..Len(d) /\ Rest(d)[i] = d[i + 1]
          BY <2>1, <2>3, RestOnce
    <3> QED BY <2>2, <3>1, <3>2
  <2>4. CASE ~(d # <<>> /\ First(d) \in S)
    <3>1. adv(d) = d
          BY <2>4
    <3> HIDE DEF adv
    <3> QED BY <2>1, <2>2, <2>4, <3>1
  <2> QED BY <2>3, <2>4
<1> HIDE DEF adv
<1>3. \A d \in u.drops : Once(d)
      BY <1>1, <1>2
<1>4. ASSUME NEW d \in t.drops, NEW e \in t.drops, NEW f \in Els(adv(d)) \cap Els(adv(e)) PROVE adv(d) = adv(e)
  <2>1. d = e
        BY <1>2 DEF DropsSound
  <2> QED BY <2>1
<1>5. \A d, e \in u.drops : \A f \in Els(d) \cap Els(e) : d = e
      BY <1>1, <1>4
<1>6. ASSUME NEW d \in t.drops, NEW i \in 2..Len(adv(d)) PROVE u.file[adv(d)[i]].st = "none"
  <2>1. PICK j \in 2..Len(d) : adv(d)[i] = d[j]
        BY <1>2
  <2>2. adv(d) \in Seq(Files) /\ i \in 1..Len(adv(d))
        BY <1>2
  <2>3. adv(d)[i] \in Files /\ adv(d)[i] \in Els(adv(d))
        BY <2>2 DEF Els
  <2>4. adv(d)[i] \notin S
        BY <1>2, <2>3
  <2>5. t.file[adv(d)[i]].st = "none"
        BY <2>1 DEF DropsSound
  <2> QED BY <2>3, <2>4, <2>5
<1>7. ASSUME NEW f \in Files, u.file[f].st \in {"done", "error"}, NEW d \in t.drops PROVE f \notin Els(adv(d))
  <2>1. CASE f \in S
        BY <1>2, <2>1
  <2>2. CASE f \notin S
        BY <1>2, <1>7, <2>2 DEF DropsSound
  <2> QED BY <2>1, <2>2
<1> QED BY <1>1, <1>3, <1>5, <1>6, <1>7 DEF DropsSound
-----------------------------------------------------------------------------
(* Each action keeps the invariant *)

LEMMA Shapes ==
    ASSUME Typed
    PROVE  /\ tab \in TabRecs /\ Numbers(tab) /\ tab.toStore \in Seq(CallRecs) /\ tab.toEmbed \in Seq(Whos)
           /\ store.answers \in Seq(AnswerRecs) /\ store.rows \subseteq Docs
           /\ embed.answers \in Seq(DoneRecs) /\ tab.hyds \in Nat /\ tab.promise \in Nat
           /\ tab.send \in SendRecs /\ tab.send.gone \subseteq Files /\ tab.idx \subseteq Docs
           /\ \A f \in Files : tab.file[f] \in FileRecs
BY DEF Typed, TabRecs, SendRecs

\* Files move before they reach the store.
LEMMA EarlyMoves ==
    ASSUME RagInv, store' = store, SameIndex(tab, tab'), tab'.hyds = tab.hyds, tab'.toStore = tab.toStore,
           \A f \in Files :
              LET x == tab.file[f]
                  y == tab'.file[f] IN
              /\ y.removal = x.removal /\ y.hyd = x.hyd
              /\ \/ y.st = x.st /\ (f \in tab'.list => f \in tab.list) /\ (Ingest(f) \in Work' <=> Ingest(f) \in Work)
                 \/ /\ x.st \in {"none", "parsing", "embedding"} /\ y.st \in {"parsing", "embedding", "error"}
                    /\ Ingest(f) \in Work' <=> y.st = "embedding"
    PROVE  StoreQueues' /\ Calls' = Calls /\ FilesSound' /\ RowsSound' /\ GoneSound' /\ IndexSound'
<1> USE DEF RagInv
<1>1. StoreQueues' /\ Calls' = Calls /\ Asked' = Asked
      BY StoreIdle DEF SameIndex
<1>2. FilesSound'
  <2> SUFFICES ASSUME NEW f \in Files PROVE FileSound(f, tab'.file[f], tab'.list, Calls', Work')
      BY DEF FilesSound
  <2>1. FileSound(f, tab.file[f], tab.list, Calls, Work)
        BY DEF FilesSound
  <2> QED BY <1>1, <2>1 DEF FileSound
<1>3. \A f \in Files : RowMove(tab.file[f], tab'.file[f])
  <2> SUFFICES ASSUME NEW f \in Files PROVE RowMove(tab.file[f], tab'.file[f])
      OBVIOUS
  <2>1. FileSound(f, tab.file[f], tab.list, Calls, Work)
        BY DEF FilesSound
  <2> QED BY <2>1 DEF FileSound, RowMove, Early
<1>4. RowsSound' /\ GoneSound' /\ IndexSound'
      BY <1>1, <1>3, RowsKept DEF SameIndex
<1> QED BY <1>1, <1>2, <1>4

\* Nothing moves but the panel's lists.
LEMMA PanelMoves ==
    ASSUME RagInv, store' = store, SameIndex(tab, tab'), SamePromise(tab, tab'), SameSend(tab, tab'),
           SameQueues(tab, tab'), tab'.file = tab.file, tab'.list \subseteq tab.list,
           embed'.answers = embed.answers, embed'.st = "starting" => embed.st = "starting",
           Typed', DropsSound(tab')
    PROVE  RagInv'
<1>1. EmbedQueues' /\ Work' = Work
      BY EmbedIdle DEF RagInv, SameQueues
<1>2. StoreQueues' /\ Calls' = Calls /\ FilesSound' /\ RowsSound' /\ GoneSound' /\ IndexSound'
      BY <1>1, EarlyMoves DEF SamePromise, SameQueues
<1>3. SendSound'
      BY <1>1, <1>2, SendKept, Shapes DEF RagInv, SameSend
<1> QED BY <1>1, <1>2, <1>3 DEF RagInv

LEMMA ListsTyped ==
    ASSUME NEW d \in Lists
    PROVE  d \in Seq(Files) /\ Once(d)
<1>1. Cardinality(Files) \in Nat
      BY FS_CardinalityType, FilesAssumption
<1>2. PICK m \in 0..Cardinality(Files) : d \in [1..m -> Files]
      BY DEF Lists, BoundedSeq, SeqOf
<1>3. m \in Nat
      BY <1>1
<1>4. d \in Seq(Files) /\ Len(d) = m /\ DOMAIN d = 1..m
      BY <1>2, <1>3
<1>5. IsInjective(d)
      BY DEF Lists
<1> QED BY <1>4, <1>5 DEF IsInjective, Once

LEMMA AttachKeeps ==
    ASSUME RagInv, NEW d \in Lists, Attach(d)
    PROVE  RagInv'
<1>1. d \in Seq(Files) /\ Once(d) /\ Range(d) = Els(d)
      BY ListsTyped, ElsTyped
<1>2. tab \in TabRecs /\ Numbers(tab)
      BY Shapes DEF RagInv
<1>3. tab' = [tab EXCEPT !.drops = tab.drops \cup {d}] /\ store' = store /\ embed' = embed
      BY DEF Attach
<1>4. /\ tab' \in TabRecs /\ SameIndex(tab, tab') /\ SamePromise(tab, tab') /\ SameSend(tab, tab') /\ SameQueues(tab, tab')
      /\ tab'.file = tab.file /\ tab'.list = tab.list /\ tab'.drops = tab.drops \cup {d}
      BY <1>1, <1>2, <1>3 DEF TabRecs, SameIndex, SamePromise, SameSend, SameQueues
<1>5. Typed'
      BY <1>2, <1>3, <1>4 DEF RagInv, Typed, Numbers, SamePromise, SameSend
<1>6. \A f \in Els(d) : tab.file[f].st = "none" /\ \A e \in tab.drops : f \notin Els(e)
  <2>1. \A e \in tab.drops : Range(e) = Els(e)
    <3>1. \A e \in tab.drops : e \in Seq(Files)
          BY <1>2 DEF TabRecs
    <3> QED BY <3>1, ElsTyped
  <2> QED BY <1>1, <2>1 DEF Attach
<1>7. DropsSound(tab')
  <2>1. \A e \in tab'.drops : Once(e)
        BY <1>1, <1>4 DEF RagInv, DropsSound
  <2>2. \A e, g \in tab'.drops : \A f \in Els(e) \cap Els(g) : e = g
        BY <1>4, <1>6 DEF RagInv, DropsSound
  <2>3. \A i \in 2..Len(d) : d[i] \in Els(d)
        BY <1>1 DEF Els
  <2>4. \A e \in tab'.drops : \A i \in 2..Len(e) : tab'.file[e[i]].st = "none"
        BY <1>4, <1>6, <2>3 DEF RagInv, DropsSound
  <2>5. \A f \in Files : tab'.file[f].st \in {"done", "error"} => \A e \in tab'.drops : f \notin Els(e)
        BY <1>4, <1>6 DEF RagInv, DropsSound
  <2> QED BY <2>1, <2>2, <2>4, <2>5 DEF DropsSound
<1> QED BY <1>3, <1>4, <1>5, <1>7, PanelMoves

LEMMA PanelKeeps ==
    ASSUME RagInv, Clear \/ Hide \/ EmbedStart
    PROVE  RagInv'
<1>1. tab \in TabRecs /\ Numbers(tab)
      BY Shapes DEF RagInv
<1>2. /\ tab' = [tab EXCEPT !.list = {}] \/ tab' = tab
      /\ store' = store /\ embed'.answers = embed.answers /\ embed' \in [st : {"starting", "up", "down"}, model : BOOLEAN, answers : Seq(DoneRecs)]
      /\ embed'.st = "starting" => embed.st = "starting"
      BY DEF Clear, Hide, EmbedStart, RagInv, Typed
<1>3. /\ tab' \in TabRecs /\ SameIndex(tab, tab') /\ SamePromise(tab, tab') /\ SameSend(tab, tab') /\ SameQueues(tab, tab')
      /\ tab'.file = tab.file /\ tab'.list \subseteq tab.list /\ tab'.drops = tab.drops
      BY <1>1, <1>2 DEF TabRecs, SameIndex, SamePromise, SameSend, SameQueues
<1>4. Typed'
      BY <1>1, <1>2, <1>3 DEF RagInv, Typed, Numbers, SamePromise, SameSend
<1>5. DropsSound(tab')
      BY <1>3 DEF RagInv, DropsSound
<1> QED BY <1>2, <1>3, <1>4, <1>5, PanelMoves
\* A file ends with an error, and the next of its list may begin.
LEMMA FailedMoves ==
    ASSUME NEW t \in TabRecs, NEW f \in Files
    PROVE  LET u == Failed(t, f) IN
           /\ u \in TabRecs /\ SameIndex(t, u) /\ SamePromise(t, u) /\ SameSend(t, u) /\ SameQueues(t, u)
           /\ u.list = t.list /\ u.drops = Advance(t.drops, {f}) /\ u.file[f].st = "error"
           /\ \A g \in Files \ {f} : u.file[g].st = t.file[g].st
           /\ \A g \in Files : /\ u.file[g].removal = t.file[g].removal /\ u.file[g].hyd = t.file[g].hyd
                               /\ u.file[g].batch = t.file[g].batch
<1> DEFINE u == Settle(t, {f}, "error")
<1>1. "error" \in FileSteps /\ {f} \in SUBSET Files
      BY DEF FileSteps
<1>2. /\ u \in TabRecs /\ SameIndex(t, u) /\ SamePromise(t, u) /\ SameSend(t, u) /\ SameQueues(t, u)
      /\ u.list = t.list /\ u.drops = Advance(t.drops, {f})
      /\ \A g \in Files : /\ u.file[g].st = IF g \in {f} THEN "error" ELSE t.file[g].st
                          /\ u.file[g].removal = t.file[g].removal
                          /\ u.file[g].hyd = t.file[g].hyd /\ u.file[g].batch = t.file[g].batch
      BY <1>1, Settles
<1>3. Failed(t, f) = u
      BY DEF Failed
<1> HIDE DEF u
<1> QED BY <1>2, <1>3

LEMMA DropsFailed ==
    ASSUME NEW t \in TabRecs, DropsSound(t), NEW f \in Files, t.file[f].st # "none" \/ Begins(t, f),
           NEW u, u.drops = Advance(t.drops, {f}), u.file[f].st = "error",
           \A g \in Files \ {f} : u.file[g].st = t.file[g].st
    PROVE  DropsSound(u)
<1> DEFINE S == {f}
           st == "error"
<1>1. /\ S \in SUBSET Files /\ st \in {"done", "error"} /\ u.drops = Advance(t.drops, S)
      /\ \A g \in S : t.file[g].st # "none" \/ Begins(t, g)
      /\ \A g \in Files : u.file[g].st = IF g \in S THEN st ELSE t.file[g].st
      OBVIOUS
<1> HIDE DEF S, st
<1> QED BY <1>1, DropsSettled

\* The tab without the file's step, in the words of the lemmas about one file.
LEMMA TabParts ==
    ASSUME NEW t \in TabRecs, NEW f \in Files
    PROVE  /\ t.file \in [Files -> FileRecs] /\ t.file[f] \in FileRecs
           /\ t.file[f].st \in FileSteps /\ t.file[f].removal \in Removals /\ t.file[f].hyd \in Nat /\ t.file[f].batch \in Nat
           /\ t.file[f].kind \in Kinds \cup {None}
<1>1. t.file \in [Files -> FileRecs]
      BY DEF TabRecs
<1>2. t.file[f] \in FileRecs
      BY <1>1
<1> QED BY <1>1, <1>2 DEF FileRecs

LEMMA IngestOneKeeps ==
    ASSUME RagInv, NEW f \in Files, IngestOne(f)
    PROVE  RagInv'
<1> DEFINE t == [tab EXCEPT !.list = @ \cup {f}]
<1>1. tab \in TabRecs /\ Numbers(tab)
      BY Shapes DEF RagInv
<1>2. /\ t \in TabRecs /\ SameIndex(tab, t) /\ SamePromise(tab, t) /\ SameSend(tab, t) /\ SameQueues(tab, t)
      /\ t.file = tab.file /\ t.drops = tab.drops /\ t.list = tab.list \cup {f}
      BY <1>1 DEF TabRecs, SameIndex, SamePromise, SameSend, SameQueues
<1>3. PICK k \in Kinds : tab' = IF k = "unsupported" THEN Failed(t, f)
                               ELSE [t EXCEPT !.file[f].st = "parsing", !.file[f].kind = k]
      BY DEF IngestOne
<1>4. store' = store /\ embed' = embed /\ tab.file[f].st = "none" /\ Begins(tab, f)
      BY DEF IngestOne, Begins, First
<1> DEFINE x == [t.file[f] EXCEPT !.st = "parsing", !.kind = k]
<1>5. x \in FileRecs /\ x.st = "parsing" /\ x.removal = tab.file[f].removal /\ x.hyd = tab.file[f].hyd /\ x.batch = tab.file[f].batch
  <2>1. t.file[f] \in FileRecs /\ t.file = tab.file
        BY <1>2, TabParts
  <2> HIDE DEF t
  <2> QED BY <2>1 DEF FileRecs, FileSteps
<1>6. [t EXCEPT !.file[f].st = "parsing", !.file[f].kind = k] = Moved(t, f, x)
  <2>1. t \in TabRecs /\ t.file \in [Files -> FileRecs] /\ t.file[f] \in FileRecs
        BY <1>2, TabParts
  <2> HIDE DEF t
  <2> QED BY <2>1 DEF TabRecs, FileRecs, Moved
<1> HIDE DEF t, x
<1>7. /\ tab' \in TabRecs /\ SameIndex(tab, tab') /\ SamePromise(tab, tab') /\ SameSend(tab, tab') /\ SameQueues(tab, tab')
      /\ tab'.list = tab.list \cup {f} /\ tab'.file[f].st \in {"parsing", "error"}
      /\ \A g \in Files \ {f} : tab'.file[g].st = tab.file[g].st
      /\ \A g \in Files : /\ tab'.file[g].removal = tab.file[g].removal /\ tab'.file[g].hyd = tab.file[g].hyd
                          /\ tab'.file[g].batch = tab.file[g].batch
      /\ DropsSound(tab')
  <2>1. CASE k = "unsupported"
    <3>1. /\ tab' \in TabRecs /\ SameIndex(t, tab') /\ SamePromise(t, tab') /\ SameSend(t, tab') /\ SameQueues(t, tab')
          /\ tab'.list = t.list /\ tab'.drops = Advance(t.drops, {f}) /\ tab'.file[f].st = "error"
          /\ \A g \in Files \ {f} : tab'.file[g].st = t.file[g].st
          /\ \A g \in Files : /\ tab'.file[g].removal = t.file[g].removal /\ tab'.file[g].hyd = t.file[g].hyd
                              /\ tab'.file[g].batch = t.file[g].batch
          BY <1>2, <1>3, <2>1, FailedMoves
    <3>2. DropsSound(tab')
          BY <1>1, <1>2, <1>4, <3>1, DropsFailed DEF RagInv
    <3> QED BY <1>2, <3>1, <3>2 DEF SameIndex, SamePromise, SameSend, SameQueues
  <2>2. CASE k # "unsupported"
    <3>0. tab' = Moved(t, f, x)
          BY <1>3, <1>6, <2>2
    <3>1. /\ tab' \in TabRecs /\ SameIndex(t, tab') /\ SamePromise(t, tab') /\ SameSend(t, tab') /\ SameQueues(t, tab')
          /\ tab'.list = t.list /\ tab'.drops = t.drops /\ tab'.file[f] = x
          /\ \A g \in Files \ {f} : tab'.file[g] = t.file[g]
          BY <1>2, <1>5, <3>0, Moves
    <3>2. \A g \in Files : /\ tab'.file[g].st \in {"done", "error"} => tab.file[g].st \in {"done", "error"}
                           /\ tab'.file[g].st # "none" => tab.file[g].st # "none" \/ Begins(tab, g)
          BY <1>2, <1>4, <1>5, <3>1
    <3>3. DropsSound(tab')
          BY <1>1, <1>2, <3>1, <3>2, DropsKept DEF RagInv
    <3> QED BY <1>2, <1>5, <3>1, <3>3 DEF SameIndex, SamePromise, SameSend, SameQueues
  <2> QED BY <2>1, <2>2
<1>8. Typed'
  <2>1. Numbers(tab')
        BY <1>1, <1>7, NumbersKept DEF SamePromise, SameSend
  <2> QED BY <1>4, <1>7, <2>1 DEF RagInv, Typed
<1>9. EmbedQueues' /\ Work' = Work
      BY <1>4, <1>7, EmbedIdle DEF RagInv, SameQueues
<1>10. Ingest(f) \notin Work
      BY <1>4 DEF RagInv, FilesSound, FileSound
<1>11. StoreQueues' /\ Calls' = Calls /\ FilesSound' /\ RowsSound' /\ GoneSound' /\ IndexSound'
  <2>1. \A g \in Files :
          LET y == tab.file[g]
              z == tab'.file[g] IN
          /\ z.removal = y.removal /\ z.hyd = y.hyd
          /\ \/ z.st = y.st /\ (g \in tab'.list => g \in tab.list) /\ (Ingest(g) \in Work' <=> Ingest(g) \in Work)
             \/ /\ y.st \in {"none", "parsing", "embedding"} /\ z.st \in {"parsing", "embedding", "error"}
                /\ Ingest(g) \in Work' <=> z.st = "embedding"
        BY <1>4, <1>7, <1>9, <1>10
  <2> QED BY <1>4, <1>7, <2>1, EarlyMoves DEF SamePromise, SameQueues
<1>12. SendSound'
      BY <1>7, <1>9, <1>11, SendKept, Shapes DEF RagInv, SameSend
<1> QED BY <1>7, <1>8, <1>9, <1>11, <1>12 DEF RagInv
\* A file goes to the embedder.
Embeds(t, f, b) == ToEmbed([t EXCEPT !.file[f].st = "embedding", !.file[f].batch = b], Ingest(f))

LEMMA EmbedMoves ==
    ASSUME NEW t \in TabRecs, NEW f \in Files, NEW b \in Nat
    PROVE  LET u == Embeds(t, f, b) IN
           /\ u \in TabRecs /\ SameIndex(t, u) /\ SamePromise(t, u) /\ SameSend(t, u)
           /\ u.toStore = t.toStore /\ u.toEmbed = Append(t.toEmbed, Ingest(f)) /\ u.list = t.list /\ u.drops = t.drops
           /\ u.file[f].st = "embedding" /\ u.file[f].batch = b
           /\ u.file[f].removal = t.file[f].removal /\ u.file[f].hyd = t.file[f].hyd
           /\ \A g \in Files \ {f} : u.file[g] = t.file[g]
<1> DEFINE x == [t.file[f] EXCEPT !.st = "embedding", !.batch = b]
           m == Moved(t, f, x)
           u == ToEmbed(m, Ingest(f))
<1>1. t.file \in [Files -> FileRecs] /\ t.file[f] \in FileRecs
      BY TabParts
<1>2. /\ x \in FileRecs /\ x.st = "embedding" /\ x.batch = b
      /\ x.removal = t.file[f].removal /\ x.hyd = t.file[f].hyd
      BY <1>1 DEF FileRecs, FileSteps
<1>3. [t EXCEPT !.file[f].st = "embedding", !.file[f].batch = b] = m
      BY <1>1 DEF TabRecs, FileRecs, Moved
<1> HIDE DEF x
<1>4. /\ m \in TabRecs /\ SameIndex(t, m) /\ SamePromise(t, m) /\ SameSend(t, m) /\ SameQueues(t, m)
      /\ m.list = t.list /\ m.drops = t.drops /\ m.file[f] = x
      /\ \A g \in Files \ {f} : m.file[g] = t.file[g]
      BY <1>2, Moves
<1> HIDE DEF m
<1>5. Ingest(f) \in Whos
      BY WhoShape
<1>6. /\ u \in TabRecs /\ SameIndex(m, u) /\ SamePromise(m, u) /\ SameFiles(m, u) /\ SameSend(m, u)
      /\ u.toEmbed = Append(m.toEmbed, Ingest(f)) /\ u.toStore = m.toStore
      BY <1>4, <1>5, PostsEmbed
<1> HIDE DEF u
<1>7. /\ u \in TabRecs /\ SameIndex(t, u) /\ SamePromise(t, u) /\ SameSend(t, u)
      /\ u.toStore = t.toStore /\ u.toEmbed = Append(t.toEmbed, Ingest(f)) /\ u.list = t.list /\ u.drops = t.drops
      /\ u.file[f].st = "embedding" /\ u.file[f].batch = b
      /\ u.file[f].removal = t.file[f].removal /\ u.file[f].hyd = t.file[f].hyd
      /\ \A g \in Files \ {f} : u.file[g] = t.file[g]
      BY <1>2, <1>4, <1>6 DEF SameIndex, SamePromise, SameSend, SameQueues, SameFiles
<1> QED BY <1>3, <1>7 DEF u, Embeds

LEMMA ParseKeeps ==
    ASSUME RagInv, NEW f \in Files, Parse(f)
    PROVE  RagInv'
<1> DEFINE k == tab.file[f].kind
           L(loads) == [j \in DOMAIN tab.loader |-> IF j = k /\ tab.loader[j] = "none"
                                                    THEN (IF loads THEN "loaded" ELSE "failed") ELSE tab.loader[j]]
           T(loads) == [tab EXCEPT !.loader = L(loads)]
<1>1. tab \in TabRecs /\ Numbers(tab) /\ tab.toEmbed \in Seq(Whos)
      BY Shapes DEF RagInv
<1>2. PICK loads \in BOOLEAN : tab' = Embeds(T(loads), f, 1) \/ tab' = Failed(T(loads), f)
      BY <1>1 DEF Parse, TabRecs, Embeds
<1>3. L(loads) \in [Lazy -> {"none", "loaded", "failed"}]
  <2>1. tab.loader \in [Lazy -> {"none", "loaded", "failed"}]
        BY <1>1 DEF TabRecs
  <2> QED BY <2>1
<1> DEFINE t == T(loads)
<1> HIDE DEF L
<1>4. /\ t \in TabRecs /\ SameIndex(tab, t) /\ SamePromise(tab, t) /\ SameSend(tab, t) /\ SameQueues(tab, t)
      /\ t.file = tab.file /\ t.drops = tab.drops /\ t.list = tab.list
      BY <1>1, <1>3 DEF TabRecs, SameIndex, SamePromise, SameSend, SameQueues
<1>5. store' = store /\ embed' = embed /\ tab.file[f].st = "parsing"
      BY DEF Parse
<1>6. Ingest(f) \notin Work /\ Ingest(f) \in Whos
      BY <1>5, WhoShape DEF RagInv, FilesSound, FileSound
<1>7. Batches[f] \in Nat /\ 1 <= Batches[f]
      BY BatchesAssumption
<1> HIDE DEF T, t
<1>8. /\ tab' \in TabRecs /\ SameIndex(tab, tab') /\ SamePromise(tab, tab') /\ SameSend(tab, tab')
      /\ tab'.toStore = tab.toStore /\ tab'.list = tab.list
      /\ \A g \in Files \ {f} : tab'.file[g].st = tab.file[g].st
      /\ \A g \in Files : /\ tab'.file[g].removal = tab.file[g].removal /\ tab'.file[g].hyd = tab.file[g].hyd
                          /\ tab'.file[g].batch <= Batches[g]
      /\ DropsSound(tab')
      /\ \/ tab'.file[f].st = "error" /\ tab'.toEmbed = tab.toEmbed
         \/ tab'.file[f].st = "embedding" /\ tab'.toEmbed = Append(tab.toEmbed, Ingest(f))
  <2>1. CASE tab' = Failed(t, f)
    <3>1. /\ tab' \in TabRecs /\ SameIndex(t, tab') /\ SamePromise(t, tab') /\ SameSend(t, tab') /\ SameQueues(t, tab')
          /\ tab'.list = t.list /\ tab'.drops = Advance(t.drops, {f}) /\ tab'.file[f].st = "error"
          /\ \A g \in Files \ {f} : tab'.file[g].st = t.file[g].st
          /\ \A g \in Files : /\ tab'.file[g].removal = t.file[g].removal /\ tab'.file[g].hyd = t.file[g].hyd
                              /\ tab'.file[g].batch = t.file[g].batch
          BY <1>4, <2>1, FailedMoves
    <3>2. DropsSound(tab')
      <4>1. /\ DropsSound(tab) /\ tab'.drops = Advance(tab.drops, {f}) /\ tab.file[f].st # "none"
            /\ \A g \in Files \ {f} : tab'.file[g].st = tab.file[g].st
            BY <1>4, <1>5, <3>1 DEF RagInv
      <4> QED BY <1>1, <3>1, <4>1, DropsFailed
    <3> QED BY <1>1, <1>4, <3>1, <3>2 DEF SameIndex, SamePromise, SameSend, SameQueues, Numbers
  <2>2. CASE tab' = Embeds(t, f, 1)
    <3>1. /\ tab' \in TabRecs /\ SameIndex(t, tab') /\ SamePromise(t, tab') /\ SameSend(t, tab')
          /\ tab'.toStore = t.toStore /\ tab'.toEmbed = Append(t.toEmbed, Ingest(f)) /\ tab'.list = t.list /\ tab'.drops = t.drops
          /\ tab'.file[f].st = "embedding" /\ tab'.file[f].batch = 1
          /\ tab'.file[f].removal = t.file[f].removal /\ tab'.file[f].hyd = t.file[f].hyd
          /\ \A g \in Files \ {f} : tab'.file[g] = t.file[g]
      <4> DEFINE b == 1
      <4>1. b \in Nat /\ tab' = Embeds(t, f, b)
            BY <2>2
      <4> HIDE DEF b
      <4>2. /\ tab' \in TabRecs /\ SameIndex(t, tab') /\ SamePromise(t, tab') /\ SameSend(t, tab')
            /\ tab'.toStore = t.toStore /\ tab'.toEmbed = Append(t.toEmbed, Ingest(f)) /\ tab'.list = t.list /\ tab'.drops = t.drops
            /\ tab'.file[f].st = "embedding" /\ tab'.file[f].batch = b
            /\ tab'.file[f].removal = t.file[f].removal /\ tab'.file[f].hyd = t.file[f].hyd
            /\ \A g \in Files \ {f} : tab'.file[g] = t.file[g]
            BY <1>4, <4>1, EmbedMoves
      <4> QED BY <4>2 DEF b
    <3>2. \A g \in Files : /\ tab'.file[g].st \in {"done", "error"} => tab.file[g].st \in {"done", "error"}
                           /\ tab'.file[g].st # "none" => tab.file[g].st # "none" \/ Begins(tab, g)
          BY <1>4, <1>5, <3>1
    <3>3. DropsSound(tab')
          BY <1>1, <1>4, <3>1, <3>2, DropsKept DEF RagInv
    <3> QED BY <1>1, <1>4, <1>7, <3>1, <3>3 DEF SameIndex, SamePromise, SameSend, SameQueues, Numbers
  <2> QED BY <1>2, <2>1, <2>2 DEF t
<1>9. Typed'
  <2>1. Numbers(tab')
        BY <1>1, <1>8 DEF Numbers, SamePromise, SameSend
  <2> QED BY <1>5, <1>8, <2>1 DEF RagInv, Typed
<1>10. /\ EmbedQueues' /\ (Prompt \in Work' <=> Prompt \in Work)
       /\ \A g \in Files \ {f} : Ingest(g) \in Work' <=> Ingest(g) \in Work
       /\ Ingest(f) \in Work' <=> tab'.file[f].st = "embedding"
  <2>1. CASE tab'.file[f].st = "error" /\ tab'.toEmbed = tab.toEmbed
    <3>1. EmbedQueues' /\ Work' = Work
          BY <1>5, <2>1, EmbedIdle DEF RagInv
    <3> QED BY <1>6, <2>1, <3>1
  <2>2. CASE tab'.file[f].st = "embedding" /\ tab'.toEmbed = Append(tab.toEmbed, Ingest(f))
    <3>1. EmbedQueues' /\ Work' = Work \cup {Ingest(f)}
          BY <1>1, <1>5, <1>6, <2>2, EmbedPosted DEF RagInv
    <3> QED BY <2>2, <3>1, WhoShape
  <2> QED BY <1>8, <2>1, <2>2
<1>11. StoreQueues' /\ Calls' = Calls /\ FilesSound' /\ RowsSound' /\ GoneSound' /\ IndexSound'
  <2>1. \A g \in Files :
          LET y == tab.file[g]
              z == tab'.file[g] IN
          /\ z.removal = y.removal /\ z.hyd = y.hyd
          /\ \/ z.st = y.st /\ (g \in tab'.list => g \in tab.list) /\ (Ingest(g) \in Work' <=> Ingest(g) \in Work)
             \/ /\ y.st \in {"none", "parsing", "embedding"} /\ z.st \in {"parsing", "embedding", "error"}
                /\ Ingest(g) \in Work' <=> z.st = "embedding"
        BY <1>5, <1>8, <1>10
  <2> QED BY <1>5, <1>8, <2>1, EarlyMoves DEF SamePromise
<1>12. SendSound'
      BY <1>8, <1>10, <1>11, SendKept, Shapes DEF RagInv, SameSend
<1> QED BY <1>8, <1>9, <1>10, <1>11, <1>12 DEF RagInv
\* A removal moves, and then a call may be posted.
Removes(t, f, r) == [t EXCEPT !.file[f].removal = r]

LEMMA RemovalMoves ==
    ASSUME NEW t \in TabRecs, NEW f \in Files, NEW r \in Removals
    PROVE  LET u == Removes(t, f, r) IN
           /\ u \in TabRecs /\ SameIndex(t, u) /\ SamePromise(t, u) /\ SameSend(t, u) /\ SameQueues(t, u)
           /\ u.list = t.list /\ u.drops = t.drops /\ u.file[f].removal = r
           /\ \A g \in Files : /\ u.file[g].st = t.file[g].st /\ u.file[g].hyd = t.file[g].hyd
                               /\ u.file[g].batch = t.file[g].batch
           /\ \A g \in Files \ {f} : u.file[g].removal = t.file[g].removal
<1> DEFINE x == [t.file[f] EXCEPT !.removal = r]
           u == Moved(t, f, x)
<1>1. t.file \in [Files -> FileRecs] /\ t.file[f] \in FileRecs
      BY TabParts
<1>2. /\ x \in FileRecs /\ x.removal = r
      /\ x.st = t.file[f].st /\ x.hyd = t.file[f].hyd /\ x.batch = t.file[f].batch
      BY <1>1 DEF FileRecs
<1>3. Removes(t, f, r) = u
      BY <1>1 DEF TabRecs, FileRecs, Moved, Removes
<1> HIDE DEF x
<1>4. /\ u \in TabRecs /\ SameIndex(t, u) /\ SamePromise(t, u) /\ SameSend(t, u) /\ SameQueues(t, u)
      /\ u.list = t.list /\ u.drops = t.drops /\ u.file[f] = x
      /\ \A g \in Files \ {f} : u.file[g] = t.file[g]
      BY <1>2, Moves
<1> HIDE DEF u
<1> QED BY <1>2, <1>3, <1>4

LEMMA RemoveFileKeeps ==
    ASSUME RagInv, NEW f \in Files, RemoveFile(f)
    PROVE  RagInv'
<1> DEFINE t == [tab EXCEPT !.list = @ \ {f}]
           c == Call("drop", f, 0)
<1>1. tab \in TabRecs /\ Numbers(tab) /\ tab.toStore \in Seq(CallRecs) /\ tab.hyds \in Nat
      BY Shapes DEF RagInv
<1>2. /\ t \in TabRecs /\ SameIndex(tab, t) /\ SamePromise(tab, t) /\ SameSend(tab, t) /\ SameQueues(tab, t)
      /\ t.file = tab.file /\ t.drops = tab.drops /\ t.list = tab.list \ {f}
      BY <1>1 DEF TabRecs, SameIndex, SamePromise, SameSend, SameQueues
<1>3. /\ tab' = IF t.open THEN ToStore(Removes(t, f, "dropping"), c) ELSE Removes(t, f, "failed")
      /\ store' = store /\ embed' = embed /\ f \in tab.list /\ tab.file[f].st \in {"done", "error"}
      BY DEF RemoveFile, Removes
<1>4. /\ tab.file[f].removal = "no" /\ <<"drop", f, 0>> \notin Calls
      BY <1>3 DEF RagInv, FilesSound, FileSound
<1>5. c \in CallRecs /\ CallKey[c] = <<"drop", f, 0>> /\ c.op = "drop"
      BY CallTyped
<1>6. <<"drop", f, 0>> \in Keys(tab.hyds)
      BY DEF Keys
<1> HIDE DEF t, c
<1>7. /\ tab' \in TabRecs /\ SameIndex(tab, tab') /\ SamePromise(tab, tab') /\ SameSend(tab, tab')
      /\ tab'.toEmbed = tab.toEmbed /\ tab'.list = tab.list \ {f} /\ tab'.drops = tab.drops
      /\ \A g \in Files \ {f} : tab'.file[g].removal = tab.file[g].removal
      /\ \A g \in Files : /\ tab'.file[g].st = tab.file[g].st /\ tab'.file[g].hyd = tab.file[g].hyd
                          /\ tab'.file[g].batch = tab.file[g].batch
      /\ \/ tab.open /\ tab'.file[f].removal = "dropping" /\ tab'.toStore = Append(tab.toStore, c)
         \/ tab'.file[f].removal = "failed" /\ tab'.toStore = tab.toStore
  <2>1. CASE t.open
    <3> DEFINE u == Removes(t, f, "dropping")
    <3>1. "dropping" \in Removals
          BY DEF Removals
    <3>2. /\ u \in TabRecs /\ SameIndex(t, u) /\ SamePromise(t, u) /\ SameSend(t, u) /\ SameQueues(t, u)
          /\ u.list = t.list /\ u.drops = t.drops /\ u.file[f].removal = "dropping"
          /\ \A g \in Files : /\ u.file[g].st = t.file[g].st /\ u.file[g].hyd = t.file[g].hyd
                              /\ u.file[g].batch = t.file[g].batch
          /\ \A g \in Files \ {f} : u.file[g].removal = t.file[g].removal
          BY <1>2, <3>1, RemovalMoves
    <3> HIDE DEF u
    <3>3. tab' = ToStore(u, c)
          BY <1>3, <2>1 DEF u
    <3>4. /\ tab' \in TabRecs /\ SameIndex(u, tab') /\ SamePromise(u, tab') /\ SameFiles(u, tab') /\ SameSend(u, tab')
          /\ tab'.toStore = Append(u.toStore, c) /\ tab'.toEmbed = u.toEmbed
          BY <1>5, <3>2, <3>3, PostsStore
    <3> QED BY <1>2, <2>1, <3>2, <3>4 DEF SameIndex, SamePromise, SameSend, SameQueues, SameFiles
  <2>2. CASE ~t.open
    <3>1. "failed" \in Removals /\ tab' = Removes(t, f, "failed")
          BY <1>3, <2>2 DEF Removals
    <3>2. /\ tab' \in TabRecs /\ SameIndex(t, tab') /\ SamePromise(t, tab') /\ SameSend(t, tab') /\ SameQueues(t, tab')
          /\ tab'.list = t.list /\ tab'.drops = t.drops /\ tab'.file[f].removal = "failed"
          /\ \A g \in Files : /\ tab'.file[g].st = t.file[g].st /\ tab'.file[g].hyd = t.file[g].hyd
                              /\ tab'.file[g].batch = t.file[g].batch
          /\ \A g \in Files \ {f} : tab'.file[g].removal = t.file[g].removal
          BY <1>2, <3>1, RemovalMoves
    <3> QED BY <1>2, <3>2 DEF SameIndex, SamePromise, SameSend, SameQueues
  <2> QED BY <2>1, <2>2
<1>8. Typed'
  <2>1. Numbers(tab')
        BY <1>1, <1>7, NumbersKept DEF SamePromise, SameSend
  <2> QED BY <1>3, <1>7, <2>1 DEF RagInv, Typed
<1>9. EmbedQueues' /\ Work' = Work
      BY <1>3, <1>7, EmbedIdle DEF RagInv
<1>10. /\ StoreQueues' /\ Els(tab.toStore) \subseteq Els(tab'.toStore)
       /\ \A k : k # <<"drop", f, 0>> => (k \in Calls' <=> k \in Calls) /\ (k \in Asked' <=> k \in Asked)
       /\ <<"drop", f, 0>> \in Calls' <=> tab'.file[f].removal = "dropping"
  <2>1. CASE tab.open /\ tab'.file[f].removal = "dropping" /\ tab'.toStore = Append(tab.toStore, c)
    <3>1. CallKey[c] \in Keys(tab'.hyds) /\ tab'.hyds = tab.hyds /\ tab'.open = tab.open
          BY <1>5, <1>6, <1>7 DEF SamePromise, SameIndex
    <3>2. /\ StoreQueues' /\ Asked' = Asked \cup {CallKey[c]} /\ Calls' = Calls \cup {CallKey[c]}
          /\ Els(tab'.toStore) = Els(tab.toStore) \cup {c}
          BY <1>1, <1>3, <1>4, <1>5, <2>1, <3>1, StorePosted DEF RagInv
    <3> QED BY <1>5, <2>1, <3>2
  <2>2. CASE tab'.file[f].removal = "failed" /\ tab'.toStore = tab.toStore
    <3>1. StoreQueues' /\ Asked' = Asked /\ Calls' = Calls
          BY <1>3, <1>7, <2>2, StoreIdle DEF RagInv, SamePromise, SameIndex
    <3> QED BY <1>4, <2>2, <3>1
  <2> QED BY <1>7, <2>1, <2>2
<1>11. \A g \in Files : <<"store", g, 0>> # <<"drop", f, 0>> /\ (<<"drop", g, 0>> = <<"drop", f, 0>> => g = f)
      OBVIOUS
<1>12. \A n : <<"hydrate", None, n>> # <<"drop", f, 0>>
      OBVIOUS
<1>13. FilesSound'
  <2> SUFFICES ASSUME NEW g \in Files PROVE FileSound(g, tab'.file[g], tab'.list, Calls', Work')
      BY DEF FilesSound
  <2>1. FileSound(g, tab.file[g], tab.list, Calls, Work)
        BY DEF RagInv, FilesSound
  <2>2. CASE g = f
        BY <1>3, <1>4, <1>7, <1>9, <1>10, <1>11, <1>12, <2>1, <2>2 DEF FileSound
  <2>3. CASE g # f
        BY <1>7, <1>9, <1>10, <1>11, <1>12, <2>1, <2>3 DEF FileSound
  <2> QED BY <2>2, <2>3
<1>14. RowsSound' /\ GoneSound' /\ IndexSound'
  <2>1. \A g \in Files : RowMove(tab.file[g], tab'.file[g])
        BY <1>4, <1>7 DEF RowMove
  <2> QED BY <1>3, <1>7, <1>10, <1>11, <2>1, RowsKept DEF RagInv, SameIndex
<1>15. SendSound'
      BY <1>4, <1>7, <1>9, <1>10, <1>12, SendKept, Shapes DEF RagInv, SameSend
<1>16. DropsSound(tab')
      BY <1>1, <1>7, DropsKept DEF RagInv
<1> QED BY <1>8, <1>9, <1>10, <1>13, <1>14, <1>15, <1>16 DEF RagInv
\* A prompt that is waiting for the index goes on.
LEMMA ReadyMoves ==
    ASSUME NEW t \in TabRecs, t.send.st = "hydrating"
    PROVE  LET u == Ready(t) IN
           /\ u \in TabRecs /\ SameIndex(t, u) /\ SamePromise(t, u) /\ SameFiles(t, u) /\ u.sends = t.sends
           /\ u.toStore = t.toStore /\ u.send.gone = t.send.gone /\ u.send.used \in {{}, t.send.used}
           /\ \/ u.send.st = "sent" /\ u.toEmbed = t.toEmbed
              \/ u.send.st = "embedding" /\ u.toEmbed = Append(t.toEmbed, Prompt)
<1>1. t.send \in SendRecs
      BY DEF TabRecs
<1> DEFINE s1 == [t.send EXCEPT !.st = "sent", !.used = {}]
           u1 == [t EXCEPT !.send = s1]
           s2 == [t.send EXCEPT !.st = "embedding"]
           u2 == [t EXCEPT !.send = s2]
<1>2. s1 \in SendRecs /\ s1.st = "sent" /\ s1.used = {} /\ s1.gone = t.send.gone
      BY <1>1 DEF SendRecs
<1>3. s2 \in SendRecs /\ s2.st = "embedding" /\ s2.used = t.send.used /\ s2.gone = t.send.gone
      BY <1>1 DEF SendRecs
<1>4. Ready(t) = u1 \/ Ready(t) = ToEmbed(u2, Prompt)
      BY <1>1 DEF Ready, Sent, TabRecs, SendRecs
<1> HIDE DEF s1, s2
<1>5. /\ u1 \in TabRecs /\ SameIndex(t, u1) /\ SamePromise(t, u1) /\ SameFiles(t, u1) /\ u1.sends = t.sends
      /\ SameQueues(t, u1) /\ u1.send = s1
      BY <1>2 DEF TabRecs, SameIndex, SamePromise, SameFiles, SameQueues
<1>6. /\ u2 \in TabRecs /\ SameIndex(t, u2) /\ SamePromise(t, u2) /\ SameFiles(t, u2) /\ u2.sends = t.sends
      /\ SameQueues(t, u2) /\ u2.send = s2
      BY <1>3 DEF TabRecs, SameIndex, SamePromise, SameFiles, SameQueues
<1> DEFINE u3 == ToEmbed(u2, Prompt)
<1> HIDE DEF u1, u2
<1>7. /\ u3 \in TabRecs /\ SameIndex(u2, u3) /\ SamePromise(u2, u3) /\ SameFiles(u2, u3) /\ SameSend(u2, u3)
      /\ u3.toEmbed = Append(u2.toEmbed, Prompt) /\ u3.toStore = u2.toStore
      BY <1>6, WhoShape, PostsEmbed
<1> HIDE DEF u3
<1>8. /\ u3 \in TabRecs /\ SameIndex(t, u3) /\ SamePromise(t, u3) /\ SameFiles(t, u3) /\ u3.sends = t.sends
      /\ u3.toStore = t.toStore /\ u3.send = s2 /\ u3.toEmbed = Append(t.toEmbed, Prompt)
      BY <1>6, <1>7 DEF SameIndex, SamePromise, SameFiles, SameQueues, SameSend
<1>9. CASE Ready(t) = u1
      BY <1>2, <1>5, <1>9 DEF SameQueues
<1>10. CASE Ready(t) = u3
      BY <1>3, <1>8, <1>10
<1> QED BY <1>4, <1>9, <1>10 DEF u3

\* A hydrate that is unsettled is under way, and the other way round.
LEMMA UnderWay ==
    ASSUME NEW q \in Seq(CallRecs), NEW r \in Seq(AnswerRecs), NEW n \in Nat, NEW h,
           Keyed(CallKey, q) \cup Keyed(AnswerKey, r) \subseteq Keys(n)
    PROVE  (\E c \in Range(q) \cup Range(r) : c.op = "hydrate" /\ c.hyd = h)
              <=> <<"hydrate", None, h>> \in Keyed(CallKey, q) \cup Keyed(AnswerKey, r)
<1> DEFINE Some == \E c \in Range(q) \cup Range(r) : c.op = "hydrate" /\ c.hyd = h
           All == Keyed(CallKey, q) \cup Keyed(AnswerKey, r)
<1>2. /\ Range(q) = Els(q) /\ Els(q) \subseteq CallRecs
      /\ Keyed(CallKey, q) = {CallKey[c] : c \in Els(q)}
  <2>1. Range(q) = Els(q) /\ Els(q) \subseteq CallRecs
        BY ElsTyped
  <2>2. Keyed(CallKey, q) = {CallKey[c] : c \in Els(q)}
        BY DEF Keyed, Els
  <2> QED BY <2>1, <2>2
<1>3. /\ Range(r) = Els(r) /\ Els(r) \subseteq AnswerRecs
      /\ Keyed(AnswerKey, r) = {AnswerKey[c] : c \in Els(r)}
  <2>1. Range(r) = Els(r) /\ Els(r) \subseteq AnswerRecs
        BY ElsTyped
  <2>2. Keyed(AnswerKey, r) = {AnswerKey[c] : c \in Els(r)}
        BY DEF Keyed, Els
  <2> QED BY <2>1, <2>2
<1>4. ASSUME Some PROVE <<"hydrate", None, h>> \in All
  <2>1. PICK c \in Els(q) \cup Els(r) : c.op = "hydrate" /\ c.hyd = h
        BY <1>2, <1>3, <1>4
  <2>2. <<"hydrate", c.f, h>> \in All
        BY <1>2, <1>3, <2>1, KeyOf
  <2>3. <<"hydrate", c.f, h>> \in Keys(n)
        BY <2>2
  <2>4. c.f = None
        BY <2>3, KeyShape
  <2> QED BY <2>2, <2>4
<1>5. ASSUME <<"hydrate", None, h>> \in All PROVE Some
  <2>1. CASE <<"hydrate", None, h>> \in Keyed(CallKey, q)
    <3>1. PICK c \in Els(q) : CallKey[c] = <<"hydrate", None, h>>
          BY <1>2, <2>1
    <3>2. c.op = "hydrate" /\ c.hyd = h
          BY <1>2, <3>1, KeyOf
    <3> QED BY <1>2, <3>2
  <2>2. CASE <<"hydrate", None, h>> \in Keyed(AnswerKey, r)
    <3>1. PICK c \in Els(r) : AnswerKey[c] = <<"hydrate", None, h>>
          BY <1>3, <2>2
    <3>2. c.op = "hydrate" /\ c.hyd = h
          BY <1>3, <3>1, KeyOf
    <3> QED BY <1>3, <3>2
  <2> QED BY <1>5, <2>1, <2>2
<1> QED BY <1>4, <1>5

LEMMA AugmentKeeps ==
    ASSUME RagInv, Augment
    PROVE  RagInv'
<1> DEFINE t == HydrateRagIndex(tab, FALSE)
           gone == {f \in Files : t.file[f].removal = "gone"}
           s == [st |-> "hydrating", hyd |-> t.promise, used |-> {}, gone |-> gone]
           u == [t EXCEPT !.sends = @ + 1, !.send = s]
           c == Call("hydrate", None, tab.hyds + 1)
<1>1. /\ tab \in TabRecs /\ Numbers(tab) /\ tab.hyds \in Nat /\ tab.promise \in Nat
      /\ tab.toStore \in Seq(CallRecs) /\ tab.toEmbed \in Seq(Whos)
      BY Shapes DEF RagInv
<1>2. /\ store' = store /\ embed' = embed /\ tab.send.st \in {"idle", "sent"} /\ tab.sends < MaxSends
      /\ tab' = IF t.open /\ Unsettled(t, t.promise) THEN u ELSE Ready(u)
      BY DEF Augment
<1>3. c \in CallRecs /\ CallKey[c] = <<"hydrate", None, tab.hyds + 1>> /\ c.op = "hydrate"
      BY <1>1, NextHydrate
<1> HIDE DEF t, c
<1>4. /\ t \in TabRecs /\ SameFiles(tab, t) /\ SameSend(tab, t) /\ t.toEmbed = tab.toEmbed
      /\ t.open = tab.open /\ t.idx \subseteq tab.idx /\ (tab.open => t.idx = tab.idx /\ t.stale = tab.stale)
      /\ t.promise <= t.hyds
      /\ \/ t.toStore = tab.toStore /\ t.hyds = tab.hyds
         \/ tab.open /\ t.toStore = Append(tab.toStore, c) /\ t.hyds = tab.hyds + 1
  <2>1. CASE tab.open /\ tab.promise = 0
    <3>1. /\ t \in TabRecs /\ SameIndex(tab, t) /\ SameFiles(tab, t) /\ SameSend(tab, t)
          /\ t.hyds = tab.hyds + 1 /\ t.promise = tab.hyds + 1
          /\ t.toStore = Append(tab.toStore, c) /\ t.toEmbed = tab.toEmbed
          BY <1>1, <2>1, Hydrates DEF t, c
    <3> QED BY <1>1, <2>1, <3>1 DEF SameIndex
  <2>2. CASE ~(tab.open /\ tab.promise = 0)
    <3>1. /\ t \in TabRecs /\ SamePromise(tab, t) /\ SameFiles(tab, t) /\ SameSend(tab, t) /\ SameQueues(tab, t)
          /\ t.open = tab.open /\ t.stale = tab.stale /\ t.idx \subseteq tab.idx /\ (tab.open => t.idx = tab.idx)
          BY <1>1, <2>2, HydratesNot DEF t
    <3> QED BY <1>1, <3>1 DEF SameQueues, SamePromise, Numbers
  <2> QED BY <2>1, <2>2
<1>5. s \in SendRecs /\ s.st = "hydrating" /\ s.hyd = t.promise /\ s.used = {} /\ s.gone = gone
  <2>1. t.promise \in Nat /\ gone \in SUBSET Files
        BY <1>4 DEF TabRecs
  <2> HIDE DEF gone
  <2> QED BY <2>1 DEF SendRecs
<1> HIDE DEF s
<1>6. /\ u \in TabRecs /\ SameIndex(t, u) /\ SamePromise(t, u) /\ SameFiles(t, u) /\ SameQueues(t, u)
      /\ u.sends = t.sends + 1 /\ u.send = s
  <2> DEFINE n == t.sends + 1
  <2>1. n \in Nat /\ u = [t EXCEPT !.sends = n, !.send = s]
        BY <1>4 DEF TabRecs
  <2> HIDE DEF n, u
  <2>2. /\ u \in TabRecs /\ SameIndex(t, u) /\ SamePromise(t, u) /\ SameFiles(t, u) /\ SameQueues(t, u)
        /\ u.sends = n /\ u.send = s
        BY <1>4, <1>5, <2>1 DEF TabRecs, SameIndex, SamePromise, SameFiles, SameQueues
  <2> QED BY <2>2 DEF n
<1> HIDE DEF u
<1>7. /\ tab' \in TabRecs /\ SameIndex(t, tab') /\ SamePromise(t, tab') /\ SameFiles(t, tab')
      /\ tab'.sends = t.sends + 1 /\ tab'.toStore = t.toStore /\ tab'.send.gone = gone /\ tab'.send.used = {}
      /\ \/ /\ tab'.send.st = "hydrating" /\ tab'.toEmbed = t.toEmbed
            /\ Unsettled(t, tab'.send.hyd)
         \/ tab'.send.st = "sent" /\ tab'.toEmbed = t.toEmbed
         \/ tab'.send.st = "embedding" /\ tab'.toEmbed = Append(t.toEmbed, Prompt)
  <2>1. CASE tab' = u /\ Unsettled(t, t.promise)
        BY <1>5, <1>6, <2>1 DEF SameQueues
  <2>2. CASE tab' = Ready(u)
    <3>1. /\ tab' \in TabRecs /\ SameIndex(u, tab') /\ SamePromise(u, tab') /\ SameFiles(u, tab') /\ tab'.sends = u.sends
          /\ tab'.toStore = u.toStore /\ tab'.send.gone = u.send.gone /\ tab'.send.used \in {{}, u.send.used}
          /\ \/ tab'.send.st = "sent" /\ tab'.toEmbed = u.toEmbed
             \/ tab'.send.st = "embedding" /\ tab'.toEmbed = Append(u.toEmbed, Prompt)
          BY <1>5, <1>6, <2>2, ReadyMoves
    <3> HIDE DEF gone
    <3> QED BY <1>5, <1>6, <3>1 DEF SameIndex, SamePromise, SameFiles, SameQueues
  <2> QED BY <1>2, <2>1, <2>2
<1>8. Typed'
  <2>1. tab'.promise <= tab'.hyds /\ tab'.sends <= MaxSends
    <3>1. tab.sends \in Nat /\ tab'.sends = tab.sends + 1
          BY <1>1, <1>4, <1>7 DEF TabRecs, SameSend
    <3>2. tab'.sends <= MaxSends
          BY <1>2, <3>1, BoundsAssumption
    <3> QED BY <1>4, <1>7, <3>2 DEF SamePromise
  <2>2. Numbers(tab')
        BY <1>1, <1>4, <1>7, <2>1 DEF Numbers, SameFiles
  <2> QED BY <1>2, <1>7, <2>2 DEF RagInv, Typed
<1>9. /\ EmbedQueues' /\ (Prompt \in Work' <=> tab'.send.st = "embedding")
      /\ \A f \in Files : Ingest(f) \in Work' <=> Ingest(f) \in Work
  <2>1. Prompt \notin Work
        BY <1>2 DEF RagInv, SendSound
  <2>2. CASE tab'.send.st \in {"hydrating", "sent"} /\ tab'.toEmbed = t.toEmbed
    <3>1. EmbedQueues' /\ Work' = Work
          BY <1>2, <1>4, <2>2, EmbedIdle DEF RagInv
    <3> QED BY <2>1, <2>2, <3>1
  <2>3. CASE tab'.send.st = "embedding" /\ tab'.toEmbed = Append(t.toEmbed, Prompt)
    <3>1. tab'.toEmbed = Append(tab.toEmbed, Prompt)
          BY <1>4, <2>3
    <3>2. EmbedQueues' /\ Work' = Work \cup {Prompt}
          BY <1>1, <1>2, <2>1, <3>1, WhoShape, EmbedPosted DEF RagInv
    <3> QED BY <2>3, <3>2, WhoShape
  <2> QED BY <1>7, <2>2, <2>3
<1>10. /\ StoreQueues' /\ Els(tab.toStore) \subseteq Els(tab'.toStore)
       /\ Calls \subseteq Calls'
       /\ \A k : k # <<"hydrate", None, tab.hyds + 1>> => (k \in Calls' <=> k \in Calls) /\ (k \in Asked' <=> k \in Asked)
  <2>1. CASE t.toStore = tab.toStore /\ t.hyds = tab.hyds
    <3>1. StoreQueues' /\ Asked' = Asked /\ Calls' = Calls
          BY <1>2, <1>4, <1>7, <2>1, StoreIdle DEF RagInv, SamePromise, SameIndex
    <3>2. tab'.toStore = tab.toStore
          BY <1>7, <2>1
    <3> QED BY <3>1, <3>2
  <2>2. CASE tab.open /\ t.toStore = Append(tab.toStore, c) /\ t.hyds = tab.hyds + 1
    <3>1. CallKey[c] \in Keys(tab.hyds + 1) /\ CallKey[c] \notin Keys(tab.hyds)
      <4>1. <<"hydrate", None, tab.hyds + 1>> \in Keys(tab.hyds + 1)
            BY <1>1 DEF Keys
      <4>2. <<"hydrate", None, tab.hyds + 1>> \notin Keys(tab.hyds)
        <5>1. ASSUME <<"hydrate", None, tab.hyds + 1>> \in Keys(tab.hyds) PROVE FALSE
              BY <1>1, <5>1 DEF Keys
        <5> QED BY <5>1
      <4> QED BY <1>3, <4>1, <4>2
    <3>2. /\ tab'.toStore = Append(tab.toStore, c) /\ tab'.hyds = tab.hyds + 1 /\ tab'.open = tab.open
          /\ CallKey[c] \in Keys(tab'.hyds) /\ CallKey[c] \notin Calls
          BY <1>4, <1>7, <2>2, <3>1 DEF SamePromise, SameIndex, RagInv, StoreQueues
    <3>3. /\ StoreQueues' /\ Asked' = Asked \cup {CallKey[c]} /\ Calls' = Calls \cup {CallKey[c]}
          /\ Els(tab'.toStore) = Els(tab.toStore) \cup {c}
          BY <1>1, <1>2, <1>3, <2>2, <3>2, StorePosted DEF RagInv
    <3> QED BY <1>3, <3>3
  <2> QED BY <1>4, <2>1, <2>2
<1>11. /\ tab'.file = tab.file /\ tab'.list = tab.list /\ tab'.drops = tab.drops
      BY <1>4, <1>7 DEF SameFiles
<1>12. \A f \in Files : /\ <<"store", f, 0>> # <<"hydrate", None, tab.hyds + 1>>
                        /\ <<"drop", f, 0>> # <<"hydrate", None, tab.hyds + 1>>
      OBVIOUS
<1>13. FilesSound'
  <2> SUFFICES ASSUME NEW g \in Files PROVE FileSound(g, tab'.file[g], tab'.list, Calls', Work')
      BY DEF FilesSound
  <2>1. FileSound(g, tab.file[g], tab.list, Calls, Work)
        BY DEF RagInv, FilesSound
  <2> QED BY <1>9, <1>10, <1>11, <1>12, <2>1 DEF FileSound
<1>14. RowsSound' /\ GoneSound' /\ IndexSound'
  <2>1. \A f \in Files : RowMove(tab.file[f], tab'.file[f])
        BY <1>11 DEF RowMove
  <2>2. /\ tab'.open = tab.open /\ tab'.idx \subseteq tab.idx
        /\ tab.open => tab'.idx = tab.idx /\ tab'.stale = tab.stale
        BY <1>4, <1>7 DEF SameIndex
  <2> QED BY <1>2, <1>10, <1>12, <2>1, <2>2, RowsKept DEF RagInv
<1>15. SendSound'
  <2>1. ASSUME tab'.send.st = "hydrating" PROVE <<"hydrate", None, tab'.send.hyd>> \in Calls'
    <3>1. Unsettled(t, tab'.send.hyd)
          BY <1>7, <2>1
    <3>2. \E c1 \in Range(tab'.toStore) \cup Range(store'.answers) : c1.op = "hydrate" /\ c1.hyd = tab'.send.hyd
          BY <1>2, <1>7, <3>1 DEF Unsettled
    <3>3. /\ tab'.toStore \in Seq(CallRecs) /\ store'.answers \in Seq(AnswerRecs) /\ tab'.hyds \in Nat
          BY <1>8 DEF Typed, TabRecs
    <3>4. Keyed(CallKey, tab'.toStore) \cup Keyed(AnswerKey, store'.answers) \subseteq Keys(tab'.hyds)
          BY <1>10 DEF StoreQueues, Calls, Asked, Answered
    <3>5. <<"hydrate", None, tab'.send.hyd>> \in Keyed(CallKey, tab'.toStore) \cup Keyed(AnswerKey, store'.answers)
          BY <3>2, <3>3, <3>4, UnderWay
    <3> QED BY <3>5 DEF Calls, Asked, Answered
  <2>2. \A f \in tab'.send.gone : tab'.file[f].removal = "gone"
        BY <1>4, <1>7, <1>11 DEF SameFiles
  <2>3. tab'.send.gone \cap tab'.send.used = {}
        BY <1>7
  <2> QED BY <1>9, <2>1, <2>2, <2>3 DEF SendSound
<1>16. DropsSound(tab')
      BY <1>11 DEF RagInv, DropsSound
<1> QED BY <1>8, <1>9, <1>10, <1>13, <1>14, <1>15, <1>16 DEF RagInv
LEMMA EmbedServeKeeps ==
    ASSUME RagInv, EmbedServe
    PROVE  RagInv'
<1>1. /\ tab \in TabRecs /\ Numbers(tab) /\ tab.toEmbed \in Seq(Whos) /\ embed.answers \in Seq(DoneRecs)
      BY Shapes DEF RagInv
<1>2. PICK loads \in BOOLEAN, runs \in BOOLEAN :
          LET h == Handle(embed.model, loads, runs)
          IN  embed' = [embed EXCEPT !.model = h.model,
                                     !.answers = Append(@, [who |-> Head(tab.toEmbed), ok |-> h.ok])]
      BY DEF EmbedServe
<1>3. store' = store /\ embed.st = "up" /\ tab.toEmbed # <<>> /\ tab' = [tab EXCEPT !.toEmbed = Rest(tab.toEmbed)]
      BY DEF EmbedServe, Rest
<1> DEFINE h == Handle(embed.model, loads, runs)
           w == First(tab.toEmbed)
           b == [who |-> w, ok |-> h.ok]
<1>4. h.model \in BOOLEAN /\ h.ok \in BOOLEAN
      BY DEF RagInv, Typed, Handle
<1>5. KeyOnce(WhoKey, tab.toEmbed) /\ KeyOnce(DoneKey, embed.answers) /\ Waiting \cap Vectored = {}
      BY DEF RagInv, EmbedQueues
<1>6. /\ Rest(tab.toEmbed) \in Seq(Whos) /\ KeyOnce(WhoKey, Rest(tab.toEmbed))
      /\ w \in Whos /\ WhoKey[w] \in Keyed(WhoKey, tab.toEmbed)
      BY <1>1, <1>3, <1>5, RestKeyed
<1>7. \A k : k \in Keyed(WhoKey, Rest(tab.toEmbed)) <=> (k \in Keyed(WhoKey, tab.toEmbed) /\ k # WhoKey[w])
      BY <1>1, <1>3, <1>5, RestKeys
<1>8. embed' = [embed EXCEPT !.model = h.model, !.answers = Append(embed.answers, b)]
      BY <1>2 DEF First
<1> HIDE DEF h, w
<1>9. b \in DoneRecs /\ b.who = w
      BY <1>4, <1>6 DEF DoneRecs
<1>10. DoneKey[b] = w /\ WhoKey[w] = w
      BY <1>6, <1>9, KeyOf
<1> HIDE DEF b
<1>11. /\ tab' \in TabRecs /\ SameIndex(tab, tab') /\ SamePromise(tab, tab') /\ SameSend(tab, tab') /\ SameFiles(tab, tab')
       /\ tab'.toStore = tab.toStore /\ tab'.toEmbed = Rest(tab.toEmbed)
  <2> DEFINE q == Rest(tab.toEmbed)
  <2>1. q \in Seq(Whos) /\ tab' = [tab EXCEPT !.toEmbed = q]
        BY <1>3, <1>6
  <2> HIDE DEF q
  <2>2. /\ tab' \in TabRecs /\ SameIndex(tab, tab') /\ SamePromise(tab, tab') /\ SameSend(tab, tab') /\ SameFiles(tab, tab')
        /\ tab'.toStore = tab.toStore /\ tab'.toEmbed = q
        BY <1>1, <2>1 DEF TabRecs, SameIndex, SamePromise, SameSend, SameFiles
  <2> QED BY <2>2 DEF q
<1>12. w \in Waiting /\ w \notin Vectored /\ \A k : k \in Waiting' <=> (k \in Waiting /\ k # w)
  <2>1. w \in Waiting
        BY <1>6, <1>10 DEF Waiting
  <2>2. \A k : k \in Waiting' <=> (k \in Waiting /\ k # w)
        BY <1>7, <1>10, <1>11 DEF Waiting
  <2> QED BY <1>5, <2>1, <2>2
<1>13. /\ embed'.answers \in Seq(DoneRecs) /\ KeyOnce(DoneKey, embed'.answers)
       /\ Keyed(DoneKey, embed'.answers) = Keyed(DoneKey, embed.answers) \cup {w}
       /\ embed'.st = "up" /\ embed' \in [st : {"starting", "up", "down"}, model : BOOLEAN, answers : Seq(DoneRecs)]
  <2> DEFINE q == Append(embed.answers, b)
  <2>1. DoneKey[b] \notin Keyed(DoneKey, embed.answers)
        BY <1>10, <1>12 DEF Vectored
  <2>2. q \in Seq(DoneRecs) /\ KeyOnce(DoneKey, q) /\ Keyed(DoneKey, q) = Keyed(DoneKey, embed.answers) \cup {DoneKey[b]}
        BY <1>1, <1>5, <1>9, <2>1, AppendKeyed
  <2> HIDE DEF q
  <2>3. embed' = [embed EXCEPT !.model = h.model, !.answers = q]
        BY <1>8 DEF q
  <2>4. /\ embed'.answers = q /\ embed'.st = "up"
        /\ embed' \in [st : {"starting", "up", "down"}, model : BOOLEAN, answers : Seq(DoneRecs)]
        BY <1>3, <1>4, <2>2, <2>3 DEF RagInv, Typed
  <2> QED BY <1>10, <2>2, <2>4
<1>14. Vectored' = Vectored \cup {w}
      BY <1>13 DEF Vectored
<1>15. Work' = Work
      BY <1>12, <1>14 DEF Work
<1>16. EmbedQueues'
  <2>1. Waiting' \cap Vectored' = {}
        BY <1>5, <1>12, <1>14
  <2>2. KeyOnce(WhoKey, tab'.toEmbed)
        BY <1>6, <1>11
  <2> QED BY <1>13, <2>1, <2>2 DEF EmbedQueues
<1>17. Typed'
      BY <1>1, <1>3, <1>11, <1>13, NumbersKept DEF RagInv, Typed, SamePromise, SameSend, SameFiles
<1>18. StoreQueues' /\ Calls' = Calls /\ FilesSound' /\ RowsSound' /\ GoneSound' /\ IndexSound'
      BY <1>3, <1>11, <1>15, EarlyMoves DEF SamePromise, SameFiles
<1>19. SendSound'
      BY <1>11, <1>15, <1>18, SendKept, Shapes DEF RagInv, SameSend, SameFiles
<1>20. DropsSound(tab')
      BY <1>11 DEF RagInv, DropsSound, SameFiles
<1> QED BY <1>16, <1>17, <1>18, <1>19, <1>20 DEF RagInv

LEMMA EmbedWorkerErrorKeeps ==
    ASSUME RagInv, EmbedWorkerError
    PROVE  RagInv'
<1> DEFINE S == {f \in Files : Ingest(f) \in Range(tab.toEmbed)}
           t == Settle(tab, S, "error")
           v == IF Prompt \in Range(tab.toEmbed) THEN Sent(t, {}) ELSE t
<1>1. /\ tab \in TabRecs /\ Numbers(tab) /\ tab.toEmbed \in Seq(Whos) /\ embed.answers \in Seq(DoneRecs)
      BY Shapes DEF RagInv
<1>2. /\ store' = store /\ embed' = [embed EXCEPT !.st = "down"] /\ embed.st = "starting"
      /\ tab' = [v EXCEPT !.toEmbed = <<>>]
      BY DEF EmbedWorkerError
<1>3. embed.answers = <<>>
      BY <1>2 DEF RagInv, EmbedQueues
<1>4. Range(tab.toEmbed) = Work
  <2>1. Range(tab.toEmbed) = Els(tab.toEmbed) /\ Els(tab.toEmbed) \subseteq Whos
        BY <1>1, ElsTyped
  <2>2. Waiting = {WhoKey[w] : w \in Els(tab.toEmbed)}
        BY DEF Waiting, Keyed, Els
  <2>3. Waiting = Els(tab.toEmbed)
        BY <2>1, <2>2, KeyOf
  <2>4. Vectored = {}
        BY <1>3, EmptyKeyed DEF Vectored
  <2> QED BY <2>1, <2>3, <2>4 DEF Work
<1>5. S \in SUBSET Files /\ \A f \in Files : f \in S <=> tab.file[f].st = "embedding"
      BY <1>4 DEF RagInv, FilesSound, FileSound
<1>6. Prompt \in Range(tab.toEmbed) <=> tab.send.st = "embedding"
      BY <1>4 DEF RagInv, SendSound
<1> HIDE DEF S
<1>7. /\ t \in TabRecs /\ SameIndex(tab, t) /\ SamePromise(tab, t) /\ SameSend(tab, t) /\ SameQueues(tab, t)
      /\ t.list = tab.list /\ t.drops = Advance(tab.drops, S)
      /\ \A f \in Files : /\ t.file[f].st = IF f \in S THEN "error" ELSE tab.file[f].st
                          /\ t.file[f].removal = tab.file[f].removal
                          /\ t.file[f].hyd = tab.file[f].hyd /\ t.file[f].batch = tab.file[f].batch
  <2>1. "error" \in FileSteps
        BY DEF FileSteps
  <2> QED BY <1>1, <1>5, <2>1, Settles
<1> HIDE DEF t
<1>8. /\ v \in TabRecs /\ SameIndex(t, v) /\ SamePromise(t, v) /\ SameFiles(t, v) /\ v.sends = t.sends /\ v.toStore = t.toStore
      /\ v.send.gone = tab.send.gone /\ v.send.hyd = tab.send.hyd
      /\ v.send.st = IF tab.send.st = "embedding" THEN "sent" ELSE tab.send.st
      /\ v.send.used = IF tab.send.st = "embedding" THEN {} ELSE tab.send.used
  <2>1. CASE tab.send.st = "embedding"
    <3> DEFINE s == [t.send EXCEPT !.st = "sent", !.used = {}]
    <3>1. t.send = tab.send /\ t.send \in SendRecs
          BY <1>1, <1>7 DEF SameSend, TabRecs
    <3>2. v = [t EXCEPT !.send = s]
          BY <1>6, <1>7, <2>1, <3>1 DEF Sent, TabRecs, SendRecs
    <3>3. s \in SendRecs /\ s.st = "sent" /\ s.used = {} /\ s.gone = tab.send.gone /\ s.hyd = tab.send.hyd
          BY <3>1 DEF SendRecs
    <3> HIDE DEF s, v
    <3>4. /\ v \in TabRecs /\ SameIndex(t, v) /\ SamePromise(t, v) /\ SameFiles(t, v) /\ v.sends = t.sends /\ v.toStore = t.toStore
          /\ v.send = s
          BY <1>7, <3>2, <3>3 DEF TabRecs, SameIndex, SamePromise, SameFiles
    <3> QED BY <2>1, <3>3, <3>4
  <2>2. CASE tab.send.st # "embedding"
    <3>1. v = t
          BY <1>6, <2>2
    <3> HIDE DEF v
    <3> QED BY <1>7, <2>2, <3>1 DEF SameSend, SameIndex, SamePromise, SameFiles
  <2> QED BY <2>1, <2>2
<1> HIDE DEF v
<1>9. /\ tab' \in TabRecs /\ SameIndex(v, tab') /\ SamePromise(v, tab') /\ SameFiles(v, tab') /\ SameSend(v, tab')
      /\ tab'.toStore = v.toStore /\ tab'.toEmbed = <<>>
  <2> DEFINE q == <<>>
  <2>1. q \in Seq(Whos) /\ tab' = [v EXCEPT !.toEmbed = q]
        BY <1>2
  <2> HIDE DEF q
  <2>2. /\ tab' \in TabRecs /\ SameIndex(v, tab') /\ SamePromise(v, tab') /\ SameFiles(v, tab') /\ SameSend(v, tab')
        /\ tab'.toStore = v.toStore /\ tab'.toEmbed = q
        BY <1>8, <2>1 DEF TabRecs, SameIndex, SamePromise, SameFiles, SameSend
  <2> QED BY <2>2 DEF q
<1>10. /\ SameIndex(tab, tab') /\ SamePromise(tab, tab') /\ tab'.sends = tab.sends /\ tab'.toStore = tab.toStore
       /\ tab'.list = tab.list /\ tab'.drops = Advance(tab.drops, S)
       /\ \A f \in Files : /\ tab'.file[f].st = IF f \in S THEN "error" ELSE tab.file[f].st
                           /\ tab'.file[f].removal = tab.file[f].removal
                           /\ tab'.file[f].hyd = tab.file[f].hyd /\ tab'.file[f].batch = tab.file[f].batch
       /\ tab'.send = v.send
      BY <1>7, <1>8, <1>9 DEF SameIndex, SamePromise, SameFiles, SameSend, SameQueues
<1>11. /\ embed' \in [st : {"starting", "up", "down"}, model : BOOLEAN, answers : Seq(DoneRecs)]
       /\ embed'.st = "down" /\ embed'.answers = <<>>
      BY <1>2, <1>3 DEF RagInv, Typed
<1>12. Typed'
      BY <1>1, <1>2, <1>9, <1>10, <1>11, NumbersKept DEF RagInv, Typed, SamePromise
<1>13. EmbedQueues' /\ Work' = {}
  <2>1. Waiting' = {} /\ Vectored' = {} /\ KeyOnce(WhoKey, tab'.toEmbed) /\ KeyOnce(DoneKey, embed'.answers)
        BY <1>9, <1>11, EmptyKeyed DEF Waiting, Vectored
  <2> QED BY <1>11, <2>1 DEF EmbedQueues, Work
<1>14. StoreQueues' /\ Calls' = Calls /\ FilesSound' /\ RowsSound' /\ GoneSound' /\ IndexSound'
  <2>1. \A g \in Files :
          LET y == tab.file[g]
              z == tab'.file[g] IN
          /\ z.removal = y.removal /\ z.hyd = y.hyd
          /\ \/ z.st = y.st /\ (g \in tab'.list => g \in tab.list) /\ (Ingest(g) \in Work' <=> Ingest(g) \in Work)
             \/ /\ y.st \in {"none", "parsing", "embedding"} /\ z.st \in {"parsing", "embedding", "error"}
                /\ Ingest(g) \in Work' <=> z.st = "embedding"
    <3>1. \A g \in Files : Ingest(g) \in Work => g \in S
          BY <1>4 DEF S
    <3> QED BY <1>5, <1>10, <1>13, <3>1
  <2> QED BY <1>2, <1>10, <2>1, EarlyMoves DEF SamePromise
<1>15. SendSound'
  <2>1. tab.send.gone \subseteq Files
        BY Shapes DEF RagInv
  <2> QED BY <1>8, <1>10, <1>13, <1>14, <2>1 DEF RagInv, SendSound
<1>16. DropsSound(tab')
  <2> DEFINE st == "error"
  <2>1. /\ \A f \in S : tab.file[f].st # "none" \/ Begins(tab, f)
        /\ \A f \in Files : tab'.file[f].st = IF f \in S THEN st ELSE tab.file[f].st
        /\ st \in {"done", "error"}
        BY <1>5, <1>10
  <2> HIDE DEF st
  <2> QED BY <1>1, <1>5, <1>10, <2>1, DropsSettled DEF RagInv
<1> QED BY <1>12, <1>13, <1>14, <1>15, <1>16 DEF RagInv
\* The embedder's answer is heard by whoever asked.
LEMMA EmbedHears ==
    ASSUME RagInv, EmbedDeliver
    PROVE  /\ tab' \in EmbedSettled(tab, First(embed.answers).who, First(embed.answers).ok)
           /\ First(embed.answers).ok \in BOOLEAN /\ store' = store /\ embed.answers # <<>>
           /\ embed'.answers = Rest(embed.answers) /\ embed'.st = embed.st
           /\ embed' \in [st : {"starting", "up", "down"}, model : BOOLEAN, answers : Seq(DoneRecs)]
<1>1. embed.answers \in Seq(DoneRecs) /\ embed \in [st : {"starting", "up", "down"}, model : BOOLEAN, answers : Seq(DoneRecs)]
      BY DEF RagInv, Typed
<1>2. /\ embed.answers # <<>> /\ store' = store /\ embed' = [embed EXCEPT !.answers = Rest(embed.answers)]
      /\ tab' \in EmbedSettled(tab, First(embed.answers).who, First(embed.answers).ok)
      BY DEF EmbedDeliver, First, Rest
<1>3. Rest(embed.answers) \in Seq(DoneRecs) /\ First(embed.answers) \in DoneRecs
      BY <1>1, <1>2, RestAt
<1>4. First(embed.answers).ok \in BOOLEAN
      BY <1>3 DEF DoneRecs
<1> DEFINE q == Rest(embed.answers)
<1>5. q \in Seq(DoneRecs) /\ embed' = [embed EXCEPT !.answers = q]
      BY <1>2, <1>3
<1> HIDE DEF q
<1>6. /\ embed'.answers = q /\ embed'.st = embed.st
      /\ embed' \in [st : {"starting", "up", "down"}, model : BOOLEAN, answers : Seq(DoneRecs)]
      BY <1>1, <1>5
<1> QED BY <1>2, <1>4, <1>6 DEF q

\* A file's answer, before it reaches the store: the next batch, or the end.
LEMMA IngestHeard ==
    ASSUME RagInv, EmbedDeliver, NEW f \in Files, First(embed.answers).who = Ingest(f),
           \/ tab' = Failed(tab, f)
           \/ tab' = Embeds(tab, f, tab.file[f].batch + 1) /\ tab.file[f].batch < Batches[f]
    PROVE  RagInv'
<1>1. /\ tab \in TabRecs /\ Numbers(tab) /\ tab.toEmbed \in Seq(Whos) /\ embed.answers \in Seq(DoneRecs)
      /\ \A g \in Files : tab.file[g] \in FileRecs
      BY Shapes DEF RagInv
<1>2. /\ store' = store /\ embed.answers # <<>> /\ embed'.answers = Rest(embed.answers) /\ embed'.st = embed.st
      /\ embed' \in [st : {"starting", "up", "down"}, model : BOOLEAN, answers : Seq(DoneRecs)]
      BY EmbedHears
<1>3. tab.file[f].batch \in Nat /\ Batches[f] \in Nat
      BY <1>1, TabParts, BatchesAssumption
<1>4. /\ tab' \in TabRecs /\ SameIndex(tab, tab') /\ SamePromise(tab, tab') /\ SameSend(tab, tab')
      /\ tab'.toStore = tab.toStore /\ tab'.list = tab.list
      /\ \A g \in Files \ {f} : tab'.file[g].st = tab.file[g].st
      /\ \A g \in Files : /\ tab'.file[g].removal = tab.file[g].removal /\ tab'.file[g].hyd = tab.file[g].hyd
                          /\ tab'.file[g].batch <= Batches[g]
      /\ \/ tab'.file[f].st = "error" /\ tab'.toEmbed = tab.toEmbed /\ tab'.drops = Advance(tab.drops, {f})
         \/ tab'.file[f].st = "embedding" /\ tab'.toEmbed = Append(tab.toEmbed, Ingest(f)) /\ tab'.drops = tab.drops
  <2>1. CASE tab' = Failed(tab, f)
    <3>1. /\ tab' \in TabRecs /\ SameIndex(tab, tab') /\ SamePromise(tab, tab') /\ SameSend(tab, tab') /\ SameQueues(tab, tab')
          /\ tab'.list = tab.list /\ tab'.drops = Advance(tab.drops, {f}) /\ tab'.file[f].st = "error"
          /\ \A g \in Files \ {f} : tab'.file[g].st = tab.file[g].st
          /\ \A g \in Files : /\ tab'.file[g].removal = tab.file[g].removal /\ tab'.file[g].hyd = tab.file[g].hyd
                              /\ tab'.file[g].batch = tab.file[g].batch
          BY <1>1, <2>1, FailedMoves
    <3> QED BY <1>1, <3>1 DEF Numbers, SameQueues
  <2>2. CASE tab' = Embeds(tab, f, tab.file[f].batch + 1) /\ tab.file[f].batch < Batches[f]
    <3> DEFINE b == tab.file[f].batch + 1
    <3>1. b \in Nat /\ b <= Batches[f] /\ tab' = Embeds(tab, f, b)
          BY <1>3, <2>2
    <3> HIDE DEF b
    <3>2. /\ tab' \in TabRecs /\ SameIndex(tab, tab') /\ SamePromise(tab, tab') /\ SameSend(tab, tab')
          /\ tab'.toStore = tab.toStore /\ tab'.toEmbed = Append(tab.toEmbed, Ingest(f)) /\ tab'.list = tab.list /\ tab'.drops = tab.drops
          /\ tab'.file[f].st = "embedding" /\ tab'.file[f].batch = b
          /\ tab'.file[f].removal = tab.file[f].removal /\ tab'.file[f].hyd = tab.file[f].hyd
          /\ \A g \in Files \ {f} : tab'.file[g] = tab.file[g]
          BY <1>1, <3>1, EmbedMoves
    <3> QED BY <1>1, <3>1, <3>2 DEF Numbers
  <2> QED BY <2>1, <2>2
<1>5. Ingest(f) \in Work /\ EmbedQueues'
      /\ (tab'.toEmbed = tab.toEmbed => Work' = Work \ {Ingest(f)})
      /\ (tab'.toEmbed = Append(tab.toEmbed, Ingest(f)) => Work' = Work)
  <2>1. EmbedQueues /\ (tab'.toEmbed = tab.toEmbed \/ tab'.toEmbed = Append(tab.toEmbed, First(embed.answers).who))
        BY <1>4 DEF RagInv
  <2>2. LET w == First(embed.answers).who IN
        /\ w \in Work /\ EmbedQueues'
        /\ tab'.toEmbed = tab.toEmbed => Work' = Work \ {w}
        /\ tab'.toEmbed = Append(tab.toEmbed, w) => Work' = Work
        BY <1>1, <1>2, <2>1, EmbedHeard
  <2> QED BY <2>2
<1>6. tab.file[f].st = "embedding"
      BY <1>5 DEF RagInv, FilesSound, FileSound
<1>7. DropsSound(tab')
  <2>1. CASE tab'.file[f].st = "error" /\ tab'.drops = Advance(tab.drops, {f})
    <3>1. DropsSound(tab) /\ tab.file[f].st # "none"
          BY <1>6 DEF RagInv
    <3> QED BY <1>1, <1>4, <2>1, <3>1, DropsFailed
  <2>2. CASE tab'.file[f].st = "embedding" /\ tab'.drops = tab.drops
    <3>1. \A g \in Files : tab'.file[g].st = tab.file[g].st
          BY <1>4, <1>6, <2>2
    <3> QED BY <1>1, <2>2, <3>1, DropsKept DEF RagInv
  <2> QED BY <1>4, <2>1, <2>2
<1>8. Typed'
  <2>1. Numbers(tab')
        BY <1>1, <1>4 DEF Numbers, SamePromise, SameSend
  <2> QED BY <1>2, <1>4, <2>1 DEF RagInv, Typed
<1>9. /\ (Prompt \in Work' <=> Prompt \in Work)
      /\ \A g \in Files \ {f} : Ingest(g) \in Work' <=> Ingest(g) \in Work
      /\ Ingest(f) \in Work' <=> tab'.file[f].st = "embedding"
  <2>1. CASE tab'.file[f].st = "error" /\ tab'.toEmbed = tab.toEmbed
        BY <1>5, <2>1, WhoShape
  <2>2. CASE tab'.file[f].st = "embedding" /\ tab'.toEmbed = Append(tab.toEmbed, Ingest(f))
        BY <1>5, <2>2
  <2> QED BY <1>4, <2>1, <2>2
<1>10. StoreQueues' /\ Calls' = Calls /\ FilesSound' /\ RowsSound' /\ GoneSound' /\ IndexSound'
  <2>1. \A g \in Files :
          LET y == tab.file[g]
              z == tab'.file[g] IN
          /\ z.removal = y.removal /\ z.hyd = y.hyd
          /\ \/ z.st = y.st /\ (g \in tab'.list => g \in tab.list) /\ (Ingest(g) \in Work' <=> Ingest(g) \in Work)
             \/ /\ y.st \in {"none", "parsing", "embedding"} /\ z.st \in {"parsing", "embedding", "error"}
                /\ Ingest(g) \in Work' <=> z.st = "embedding"
        BY <1>4, <1>6, <1>9
  <2> QED BY <1>2, <1>4, <2>1, EarlyMoves DEF SamePromise
<1>11. SendSound'
      BY <1>4, <1>9, <1>10, SendKept, Shapes DEF RagInv, SameSend
<1> QED BY <1>5, <1>7, <1>8, <1>10, <1>11 DEF RagInv

\* The last vectors of a file are there, and it goes to the store.
Stores(t, f) == ToStore([t EXCEPT !.file[f].st = "storing"], Call("store", f, 0))

LEMMA StoreMoves ==
    ASSUME NEW t \in TabRecs, NEW f \in Files
    PROVE  LET u == Stores(t, f) IN
           /\ u \in TabRecs /\ SameIndex(t, u) /\ SamePromise(t, u) /\ SameSend(t, u)
           /\ u.toStore = Append(t.toStore, Call("store", f, 0)) /\ u.toEmbed = t.toEmbed /\ u.list = t.list /\ u.drops = t.drops
           /\ u.file[f].st = "storing" /\ u.file[f].batch = t.file[f].batch
           /\ u.file[f].removal = t.file[f].removal /\ u.file[f].hyd = t.file[f].hyd
           /\ \A g \in Files \ {f} : u.file[g] = t.file[g]
<1> DEFINE x == [t.file[f] EXCEPT !.st = "storing"]
           m == Moved(t, f, x)
           c == Call("store", f, 0)
           u == ToStore(m, c)
<1>1. t.file \in [Files -> FileRecs] /\ t.file[f] \in FileRecs
      BY TabParts
<1>2. /\ x \in FileRecs /\ x.st = "storing" /\ x.batch = t.file[f].batch
      /\ x.removal = t.file[f].removal /\ x.hyd = t.file[f].hyd
      BY <1>1 DEF FileRecs, FileSteps
<1>3. [t EXCEPT !.file[f].st = "storing"] = m
      BY <1>1 DEF TabRecs, FileRecs, Moved
<1>4. c \in CallRecs
      BY CallTyped
<1> HIDE DEF x, c
<1>5. /\ m \in TabRecs /\ SameIndex(t, m) /\ SamePromise(t, m) /\ SameSend(t, m) /\ SameQueues(t, m)
      /\ m.list = t.list /\ m.drops = t.drops /\ m.file[f] = x
      /\ \A g \in Files \ {f} : m.file[g] = t.file[g]
      BY <1>2, Moves
<1> HIDE DEF m
<1>6. /\ u \in TabRecs /\ SameIndex(m, u) /\ SamePromise(m, u) /\ SameFiles(m, u) /\ SameSend(m, u)
      /\ u.toStore = Append(m.toStore, c) /\ u.toEmbed = m.toEmbed
      BY <1>4, <1>5, PostsStore
<1> HIDE DEF u
<1>7. /\ u \in TabRecs /\ SameIndex(t, u) /\ SamePromise(t, u) /\ SameSend(t, u)
      /\ u.toStore = Append(t.toStore, c) /\ u.toEmbed = t.toEmbed /\ u.list = t.list /\ u.drops = t.drops
      /\ u.file[f].st = "storing" /\ u.file[f].batch = t.file[f].batch
      /\ u.file[f].removal = t.file[f].removal /\ u.file[f].hyd = t.file[f].hyd
      /\ \A g \in Files \ {f} : u.file[g] = t.file[g]
      BY <1>2, <1>5, <1>6 DEF SameIndex, SamePromise, SameSend, SameQueues, SameFiles
<1> QED BY <1>3, <1>7 DEF u, c, Stores
LEMMA IngestStores ==
    ASSUME RagInv, EmbedDeliver, NEW f \in Files, First(embed.answers).who = Ingest(f), tab.open, tab' = Stores(tab, f)
    PROVE  RagInv'
<1> DEFINE c == Call("store", f, 0)
<1>1. /\ tab \in TabRecs /\ Numbers(tab) /\ tab.toEmbed \in Seq(Whos) /\ embed.answers \in Seq(DoneRecs)
      /\ tab.toStore \in Seq(CallRecs) /\ tab.hyds \in Nat
      BY Shapes DEF RagInv
<1>2. /\ store' = store /\ embed.answers # <<>> /\ embed'.answers = Rest(embed.answers) /\ embed'.st = embed.st
      /\ embed' \in [st : {"starting", "up", "down"}, model : BOOLEAN, answers : Seq(DoneRecs)]
      BY EmbedHears
<1>3. /\ tab' \in TabRecs /\ SameIndex(tab, tab') /\ SamePromise(tab, tab') /\ SameSend(tab, tab')
      /\ tab'.toStore = Append(tab.toStore, c) /\ tab'.toEmbed = tab.toEmbed /\ tab'.list = tab.list /\ tab'.drops = tab.drops
      /\ tab'.file[f].st = "storing" /\ tab'.file[f].batch = tab.file[f].batch
      /\ tab'.file[f].removal = tab.file[f].removal /\ tab'.file[f].hyd = tab.file[f].hyd
      /\ \A g \in Files \ {f} : tab'.file[g] = tab.file[g]
      BY <1>1, StoreMoves
<1>4. c \in CallRecs /\ CallKey[c] = <<"store", f, 0>>
      BY CallTyped
<1> HIDE DEF c
<1>5. Ingest(f) \in Work /\ EmbedQueues' /\ Work' = Work \ {Ingest(f)}
  <2>1. EmbedQueues
        BY DEF RagInv
  <2>2. LET w == First(embed.answers).who IN
        /\ w \in Work /\ EmbedQueues'
        /\ tab'.toEmbed = tab.toEmbed => Work' = Work \ {w}
        BY <1>1, <1>2, <1>3, <2>1, EmbedHeard
  <2> QED BY <1>3, <2>2
<1>6. /\ tab.file[f].st = "embedding" /\ <<"store", f, 0>> \notin Calls /\ tab.file[f].removal = "no"
      /\ <<"drop", f, 0>> \notin Calls
      BY <1>5 DEF RagInv, FilesSound, FileSound
<1>7. /\ StoreQueues' /\ Asked' = Asked \cup {<<"store", f, 0>>} /\ Calls' = Calls \cup {<<"store", f, 0>>}
      /\ Els(tab'.toStore) = Els(tab.toStore) \cup {c}
  <2>1. <<"store", f, 0>> \in Keys(tab.hyds)
        BY DEF Keys
  <2>2. /\ CallKey[c] \in Keys(tab'.hyds) /\ tab'.hyds = tab.hyds /\ tab'.open = tab.open /\ CallKey[c] \notin Calls /\ StoreQueues
        BY <1>3, <1>4, <1>6, <2>1 DEF SamePromise, SameIndex, RagInv
  <2>3. /\ StoreQueues' /\ Asked' = Asked \cup {CallKey[c]} /\ Calls' = Calls \cup {CallKey[c]}
        /\ Els(tab'.toStore) = Els(tab.toStore) \cup {c}
        BY <1>1, <1>2, <1>3, <1>4, <2>2, StorePosted
  <2> QED BY <1>4, <2>3
<1>8. Typed'
  <2>1. Numbers(tab')
        BY <1>1, <1>3, NumbersKept DEF SamePromise, SameSend
  <2> QED BY <1>2, <1>3, <2>1 DEF RagInv, Typed
<1>9. FilesSound'
  <2> SUFFICES ASSUME NEW g \in Files PROVE FileSound(g, tab'.file[g], tab'.list, Calls', Work')
      BY DEF FilesSound
  <2>1. FileSound(g, tab.file[g], tab.list, Calls, Work)
        BY DEF RagInv, FilesSound
  <2>2. CASE g = f
        BY <1>3, <1>5, <1>6, <1>7, <2>1, <2>2 DEF FileSound
  <2>3. CASE g # f
    <3>1. <<"store", g, 0>> # <<"store", f, 0>> /\ Ingest(g) # Ingest(f)
          BY <2>3, WhoShape
    <3>2. tab'.file[g] = tab.file[g] /\ (Ingest(g) \in Work' <=> Ingest(g) \in Work)
          BY <1>3, <1>5, <2>3, <3>1
    <3> QED BY <1>3, <1>7, <2>1, <3>1, <3>2 DEF FileSound
  <2> QED BY <2>2, <2>3
<1>10. RowsSound' /\ GoneSound' /\ IndexSound'
  <2>1. \A g \in Files : RowMove(tab.file[g], tab'.file[g])
        BY <1>3, <1>6 DEF RowMove, Early
  <2>2. \A g \in Files : <<"store", g, 0>> \in Asked' => <<"store", g, 0>> \in Asked \/ tab.file[g].st \in Early
        BY <1>6, <1>7 DEF Early
  <2> QED BY <1>2, <1>3, <1>7, <2>1, <2>2, RowsKept DEF RagInv, SameIndex
<1>11. SendSound'
  <2>1. Prompt \in Work' <=> Prompt \in Work
        BY <1>5, WhoShape
  <2>2. \A g \in Files : tab.file[g].removal = "gone" => tab'.file[g].removal = "gone"
        BY <1>3
  <2> QED BY <1>3, <1>7, <2>1, <2>2, SendKept, Shapes DEF RagInv, SameSend
<1>12. DropsSound(tab')
  <2>1. \A g \in Files : /\ tab'.file[g].st \in {"done", "error"} => tab.file[g].st \in {"done", "error"}
                         /\ tab'.file[g].st # "none" => tab.file[g].st # "none"
        BY <1>3, <1>6
  <2> QED BY <1>1, <1>3, <2>1, DropsKept DEF RagInv
<1> QED BY <1>5, <1>7, <1>8, <1>9, <1>10, <1>11, <1>12 DEF RagInv

\* The prompt's answer, or the warm-up's.
LEMMA PromptHeard ==
    ASSUME RagInv, EmbedDeliver,
           \/ First(embed.answers).who = Warm /\ tab' = tab
           \/ First(embed.answers).who = Prompt /\ \E used \in SUBSET tab.idx : tab' = Sent(tab, used)
    PROVE  RagInv'
<1>1. /\ tab \in TabRecs /\ Numbers(tab) /\ tab.toEmbed \in Seq(Whos) /\ embed.answers \in Seq(DoneRecs)
      /\ tab.send \in SendRecs /\ tab.send.gone \subseteq Files /\ tab.idx \subseteq Docs
      BY Shapes DEF RagInv
<1>2. /\ store' = store /\ embed.answers # <<>> /\ embed'.answers = Rest(embed.answers) /\ embed'.st = embed.st
      /\ embed' \in [st : {"starting", "up", "down"}, model : BOOLEAN, answers : Seq(DoneRecs)]
      BY EmbedHears
<1> DEFINE w == First(embed.answers).who
<1>3. /\ tab' \in TabRecs /\ SameIndex(tab, tab') /\ SamePromise(tab, tab') /\ SameFiles(tab, tab') /\ SameQueues(tab, tab')
      /\ tab'.sends = tab.sends /\ tab'.send.gone = tab.send.gone
      /\ \/ w = Warm /\ tab'.send = tab.send
         \/ w = Prompt /\ tab'.send.st = "sent" /\ tab'.send.used \subseteq tab.idx
  <2>1. CASE w = Warm /\ tab' = tab
        BY <1>1, <2>1 DEF SameIndex, SamePromise, SameFiles, SameQueues
  <2>2. ASSUME w = Prompt, NEW used \in SUBSET tab.idx, tab' = Sent(tab, used)
        PROVE  /\ tab' \in TabRecs /\ SameIndex(tab, tab') /\ SamePromise(tab, tab') /\ SameFiles(tab, tab') /\ SameQueues(tab, tab')
               /\ tab'.sends = tab.sends /\ tab'.send.gone = tab.send.gone
               /\ tab'.send.st = "sent" /\ tab'.send.used \subseteq tab.idx
    <3> DEFINE s == [tab.send EXCEPT !.st = "sent", !.used = used]
    <3>1. s \in SendRecs /\ s.st = "sent" /\ s.used = used /\ s.gone = tab.send.gone
          BY <1>1 DEF SendRecs
    <3>2. tab' = [tab EXCEPT !.send = s]
          BY <1>1, <2>2 DEF Sent, TabRecs, SendRecs
    <3> HIDE DEF s
    <3>3. /\ tab' \in TabRecs /\ SameIndex(tab, tab') /\ SamePromise(tab, tab') /\ SameFiles(tab, tab') /\ SameQueues(tab, tab')
          /\ tab'.sends = tab.sends /\ tab'.send = s
          BY <1>1, <3>1, <3>2 DEF TabRecs, SameIndex, SamePromise, SameFiles, SameQueues
    <3> QED BY <3>1, <3>3
  <2> QED BY <2>1, <2>2
<1>4. w \in Work /\ EmbedQueues' /\ Work' = Work \ {w}
  <2>1. EmbedQueues /\ tab'.toEmbed = tab.toEmbed
        BY <1>3 DEF RagInv, SameQueues
  <2> QED BY <1>1, <1>2, <2>1, EmbedHeard
<1> HIDE DEF w
<1>5. Typed'
  <2>1. Numbers(tab')
        BY <1>1, <1>3, NumbersKept DEF SamePromise, SameFiles
  <2> QED BY <1>2, <1>3, <2>1 DEF RagInv, Typed
<1>6. \A g \in Files : Ingest(g) \in Work' <=> Ingest(g) \in Work
      BY <1>3, <1>4, WhoShape
<1>7. StoreQueues' /\ Calls' = Calls /\ FilesSound' /\ RowsSound' /\ GoneSound' /\ IndexSound'
      BY <1>2, <1>3, <1>6, EarlyMoves DEF SamePromise, SameFiles, SameQueues
<1>8. SendSound'
  <2>1. CASE w = Warm /\ tab'.send = tab.send
    <3>1. Prompt \in Work' <=> Prompt \in Work
          BY <1>4, <2>1, WhoShape
    <3> QED BY <1>1, <1>3, <1>7, <2>1, <3>1, SendKept DEF RagInv, SameFiles
  <2>2. CASE w = Prompt /\ tab'.send.st = "sent" /\ tab'.send.used \subseteq tab.idx
    <3>1. Prompt \notin Work'
          BY <1>4, <2>2
    <3>2. \A f \in tab'.send.gone : tab'.file[f].removal = "gone" /\ f \notin tab.idx
          BY <1>1, <1>3 DEF RagInv, SendSound, GoneSound, SameFiles
    <3> QED BY <2>2, <3>1, <3>2 DEF SendSound
  <2> QED BY <1>3, <2>1, <2>2
<1>9. DropsSound(tab')
      BY <1>3 DEF RagInv, DropsSound, SameFiles
<1> QED BY <1>4, <1>5, <1>7, <1>8, <1>9 DEF RagInv

LEMMA EmbedDeliverKeeps ==
    ASSUME RagInv, EmbedDeliver
    PROVE  RagInv'
<1> DEFINE a == First(embed.answers)
           w == a.who
<1>1. tab' \in EmbedSettled(tab, w, a.ok) /\ a.ok \in BOOLEAN
      BY EmbedHears
<1>2. tab \in TabRecs /\ Numbers(tab) /\ embed.answers \in Seq(DoneRecs) /\ embed.answers # <<>>
      BY Shapes, EmbedHears DEF RagInv
<1>3. w \in Whos
  <2>1. a \in DoneRecs
        BY <1>2, RestAt
  <2> QED BY <2>1 DEF DoneRecs
<1>4. ASSUME NEW f \in Files, w = Ingest(f) PROVE RagInv'
  <2>1. w.k = "ingest" /\ w.f = f
        BY <1>4, WhoShape
  <2>2. tab' = IF a.ok THEN Embedded(tab, f) ELSE Failed(tab, f)
        BY <1>1, <2>1 DEF EmbedSettled
  <2>3. tab.file[f].st = "embedding"
    <3>1. w \in Vectored
      <4>1. KeyOnce(DoneKey, embed.answers)
            BY DEF RagInv, EmbedQueues
      <4>2. DoneKey[a] \in Keyed(DoneKey, embed.answers) /\ a \in DoneRecs
            BY <1>2, <4>1, RestKeyed
      <4> QED BY <4>2, KeyOf DEF Vectored
    <3> QED BY <1>4, <3>1 DEF RagInv, FilesSound, FileSound, Work
  <2>4. \/ tab' = Failed(tab, f)
        \/ tab' = Embeds(tab, f, tab.file[f].batch + 1) /\ tab.file[f].batch < Batches[f]
        \/ tab.open /\ tab' = Stores(tab, f)
    <3>1. [tab EXCEPT !.file[f].batch = tab.file[f].batch + 1]
             = [tab EXCEPT !.file[f].st = "embedding", !.file[f].batch = tab.file[f].batch + 1]
      <4>1. tab.file \in [Files -> FileRecs] /\ tab.file[f] \in FileRecs
            BY <1>2, TabParts
      <4> DEFINE b == tab.file[f].batch + 1
      <4> HIDE DEF b
      <4>2. [tab.file[f] EXCEPT !.batch = b] = [tab.file[f] EXCEPT !.st = "embedding", !.batch = b]
            BY <2>3, <4>1 DEF FileRecs
      <4>3. [tab EXCEPT !.file[f].batch = b] = Moved(tab, f, [tab.file[f] EXCEPT !.batch = b])
            BY <1>2, <4>1 DEF TabRecs, FileRecs, Moved
      <4>4. [tab EXCEPT !.file[f].st = "embedding", !.file[f].batch = b]
               = Moved(tab, f, [tab.file[f] EXCEPT !.st = "embedding", !.batch = b])
            BY <1>2, <4>1 DEF TabRecs, FileRecs, Moved
      <4> QED BY <4>2, <4>3, <4>4 DEF b
    <3> QED BY <2>2, <3>1 DEF Embedded, Embeds, Stores
  <2> QED BY <1>4, <2>4, IngestHeard, IngestStores
<1>5. CASE w = Warm
  <2>1. tab' = tab
        BY <1>1, <1>5, WhoShape DEF EmbedSettled
  <2> QED BY <1>5, <2>1, PromptHeard
<1>6. CASE w = Prompt
  <2>1. \E used \in SUBSET tab.idx : tab' = Sent(tab, used)
        BY <1>1, <1>6, WhoShape DEF EmbedSettled, Searched
  <2> QED BY <1>6, <2>1, PromptHeard
<1> QED BY <1>3, <1>4, <1>5, <1>6, WhoCases
\* What a served call leaves in the store, and answers.
LEMMA StoreServes ==
    ASSUME RagInv, StoreServe
    PROVE  \E c \in CallRecs, b \in AnswerRecs :
              /\ c = First(tab.toStore) /\ b.op = c.op /\ b.f = c.f /\ b.hyd = c.hyd /\ b.vecs = store'.rows
              /\ store'.rows = (CASE ~b.ok -> store.rows
                                  [] b.ok /\ b.op = "store" -> store.rows \cup {b.f}
                                  [] b.ok /\ b.op = "drop" -> store.rows \ {b.f}
                                  [] b.ok /\ b.op = "hydrate" -> store.rows)
              /\ store'.answers = Append(store.answers, b) /\ store'.rows \subseteq Docs
              /\ store' \in [rows : SUBSET Docs, answers : Seq(AnswerRecs)]
              /\ <<c.op, c.f, c.hyd>> \in Keys(tab.hyds)
<1> DEFINE c == First(tab.toStore)
           R(ok) == CASE ~ok -> store.rows
                      [] c.op = "store" -> store.rows \cup {c.f}
                      [] c.op = "drop" -> store.rows \ {c.f}
                      [] c.op = "hydrate" -> store.rows
           B(ok) == [op |-> c.op, f |-> c.f, hyd |-> c.hyd, ok |-> ok, vecs |-> R(ok)]
<1>1. /\ tab.toStore \in Seq(CallRecs) /\ store.answers \in Seq(AnswerRecs) /\ store.rows \subseteq Docs /\ tab.hyds \in Nat
      BY Shapes DEF RagInv
<1>2. tab.toStore # <<>> /\ \E ok \in BOOLEAN : store' = [rows |-> R(ok), answers |-> Append(store.answers, B(ok))]
      BY DEF StoreServe, First
<1>3. PICK ok \in BOOLEAN : store' = [rows |-> R(ok), answers |-> Append(store.answers, B(ok))]
      BY <1>2
<1>4. c \in CallRecs /\ CallKey[c] \in Asked
  <2>1. KeyOnce(CallKey, tab.toStore)
        BY DEF RagInv, StoreQueues
  <2> QED BY <1>1, <1>2, <2>1, RestKeyed DEF Asked
<1>5. <<c.op, c.f, c.hyd>> \in Keys(tab.hyds)
      BY <1>4, KeyOf DEF RagInv, StoreQueues, Calls
<1> HIDE DEF c
<1>6. \/ c.op = "store" /\ c.f \in Files
      \/ c.op = "drop" /\ c.f \in Files
      \/ c.op = "hydrate" /\ c.f = None
      BY <1>1, <1>5, KeyShape
<1> DEFINE rows == R(ok)
           b == B(ok)
           q == Append(store.answers, b)
<1>7. /\ rows \in SUBSET Docs
      /\ rows = CASE ~ok -> store.rows
                  [] ok /\ c.op = "store" -> store.rows \cup {c.f}
                  [] ok /\ c.op = "drop" -> store.rows \ {c.f}
                  [] ok /\ c.op = "hydrate" -> store.rows
      BY <1>1, <1>6 DEF Docs
<1> HIDE DEF rows
<1>8. b = [op |-> c.op, f |-> c.f, hyd |-> c.hyd, ok |-> ok, vecs |-> rows]
      BY DEF rows
<1> HIDE DEF b, B, R
<1>9. b \in AnswerRecs /\ b.op = c.op /\ b.f = c.f /\ b.hyd = c.hyd /\ b.ok = ok /\ b.vecs = rows
      BY <1>4, <1>7, <1>8 DEF AnswerRecs, CallRecs
<1>10. q \in Seq(AnswerRecs)
      BY <1>1, <1>9
<1>11. store' = [rows |-> rows, answers |-> q]
      BY <1>3 DEF rows, b
<1> HIDE DEF q
<1>12. store'.rows = rows /\ store'.answers = q /\ store' \in [rows : SUBSET Docs, answers : Seq(AnswerRecs)]
      BY <1>7, <1>10, <1>11
<1>13. store'.rows = (CASE ~b.ok -> store.rows
                        [] b.ok /\ b.op = "store" -> store.rows \cup {b.f}
                        [] b.ok /\ b.op = "drop" -> store.rows \ {b.f}
                        [] b.ok /\ b.op = "hydrate" -> store.rows)
      BY <1>7, <1>9, <1>12
<1>14. store'.answers = Append(store.answers, b) /\ b.vecs = store'.rows /\ store'.rows \subseteq Docs
      BY <1>7, <1>9, <1>12 DEF q
<1> QED BY <1>4, <1>5, <1>9, <1>12, <1>13, <1>14 DEF c

LEMMA StoreServeKeeps ==
    ASSUME RagInv, StoreServe
    PROVE  RagInv'
<1>1. /\ tab \in TabRecs /\ Numbers(tab) /\ tab.toStore \in Seq(CallRecs) /\ store.answers \in Seq(AnswerRecs)
      /\ tab.hyds \in Nat /\ tab.send.gone \subseteq Files
      BY Shapes DEF RagInv
<1>2. PICK c \in CallRecs, b \in AnswerRecs :
         /\ c = First(tab.toStore) /\ b.op = c.op /\ b.f = c.f /\ b.hyd = c.hyd /\ b.vecs = store'.rows
         /\ store'.rows = (CASE ~b.ok -> store.rows
                             [] b.ok /\ b.op = "store" -> store.rows \cup {b.f}
                             [] b.ok /\ b.op = "drop" -> store.rows \ {b.f}
                             [] b.ok /\ b.op = "hydrate" -> store.rows)
         /\ store'.answers = Append(store.answers, b) /\ store'.rows \subseteq Docs
         /\ store' \in [rows : SUBSET Docs, answers : Seq(AnswerRecs)]
         /\ <<c.op, c.f, c.hyd>> \in Keys(tab.hyds)
      BY StoreServes
<1>3. /\ tab.toStore # <<>> /\ tab' = [tab EXCEPT !.toStore = Rest(tab.toStore)] /\ embed' = embed
      BY DEF StoreServe, Rest
<1>4. KeyOnce(CallKey, tab.toStore) /\ KeyOnce(AnswerKey, store.answers)
      BY DEF RagInv, StoreQueues
<1>5. /\ Rest(tab.toStore) \in Seq(CallRecs)
      /\ c \in Els(tab.toStore) /\ Els(Rest(tab.toStore)) \subseteq Els(tab.toStore)
      /\ Els(tab.toStore) \subseteq Els(Rest(tab.toStore)) \cup {c}
      BY <1>1, <1>2, <1>3, <1>4, RestKeyed
<1>6. /\ tab' \in TabRecs /\ SameIndex(tab, tab') /\ SamePromise(tab, tab') /\ SameSend(tab, tab') /\ SameFiles(tab, tab')
      /\ tab'.toStore = Rest(tab.toStore) /\ tab'.toEmbed = tab.toEmbed
  <2> DEFINE q == Rest(tab.toStore)
  <2>1. q \in Seq(CallRecs) /\ tab' = [tab EXCEPT !.toStore = q]
        BY <1>3, <1>5
  <2> HIDE DEF q
  <2>2. /\ tab' \in TabRecs /\ SameIndex(tab, tab') /\ SamePromise(tab, tab') /\ SameSend(tab, tab') /\ SameFiles(tab, tab')
        /\ tab'.toStore = q /\ tab'.toEmbed = tab.toEmbed
        BY <1>1, <2>1 DEF TabRecs, SameIndex, SamePromise, SameSend, SameFiles
  <2> QED BY <2>2 DEF q
<1>7. AnswerKey[b] = CallKey[c] /\ AnswerKey[b] = <<b.op, b.f, b.hyd>>
  <2>1. b.op = c.op /\ b.f = c.f /\ b.hyd = c.hyd
        BY <1>2
  <2>2. CallKey[c] = <<c.op, c.f, c.hyd>> /\ AnswerKey[b] = <<b.op, b.f, b.hyd>>
        BY KeyOf
  <2> QED BY <2>1, <2>2
<1>8. /\ StoreQueues' /\ Calls' = Calls
      /\ \A k : k \in Asked' <=> (k \in Asked /\ k # AnswerKey[b])
      /\ AnswerKey[b] \in Asked /\ AnswerKey[b] \notin Answered
  <2>1. StoreQueues /\ tab'.hyds = tab.hyds /\ tab'.open = tab.open /\ AnswerKey[b] = CallKey[First(tab.toStore)]
        BY <1>2, <1>6, <1>7 DEF RagInv, SamePromise, SameIndex
  <2> QED BY <1>1, <1>2, <1>3, <1>6, <2>1, StoreServed
<1>9. LET q == store'.answers IN
      /\ Els(q) = Els(store.answers) \cup {b} /\ Len(store.answers) \in Nat /\ Len(q) = Len(store.answers) + 1
      /\ q[Len(store.answers) + 1] = b /\ \A i \in 1..Len(store.answers) : q[i] = store.answers[i]
  <2>1. AnswerKey[b] \notin Keyed(AnswerKey, store.answers)
        BY <1>8 DEF Answered
  <2> QED BY <1>1, <1>2, <1>4, <2>1, AppendKeyed
<1>10. /\ \/ b.op = "store" /\ b.f \in Files /\ b.hyd = 0
          \/ b.op = "drop" /\ b.f \in Files /\ b.hyd = 0
          \/ b.op = "hydrate" /\ b.f = None
      BY <1>1, <1>2, KeyShape
<1>11. EmbedQueues' /\ Work' = Work
      BY <1>3, <1>6, EmbedIdle DEF RagInv
<1>12. Typed'
      BY <1>1, <1>2, <1>3, <1>6, NumbersKept DEF RagInv, Typed, SamePromise, SameSend, SameFiles
<1>13. FilesSound'
      BY <1>6, <1>8, <1>11 DEF RagInv, FilesSound, SameFiles
<1>14. SendSound'
      BY <1>1, <1>6, <1>8, <1>11, SendKept DEF RagInv, SameSend, SameFiles
<1>15. DropsSound(tab')
      BY <1>6 DEF RagInv, DropsSound, SameFiles
\* The file of a write that is served is at that step.
<1>16. /\ b.op = "store" => tab.file[b.f].st = "storing" /\ tab.file[b.f].removal = "no" /\ b.f \notin store.rows
       /\ b.op = "drop" => tab.file[b.f].removal = "dropping" /\ tab.file[b.f].st \in {"done", "error"}
  <2>1. b.op = "store" => <<"store", b.f, 0>> \in Asked /\ <<"store", b.f, 0>> \in Calls
        BY <1>7, <1>8, <1>10 DEF Calls
  <2>2. b.op = "drop" => <<"drop", b.f, 0>> \in Calls
        BY <1>7, <1>8, <1>10 DEF Calls
  <2> QED BY <1>10, <2>1, <2>2 DEF RagInv, FilesSound, FileSound, RowsSound
\* What is heard of a file agrees with its step.
<1>17. \A a \in Els(store.answers) :
          /\ a \in AnswerRecs
          /\ a.op = "store" => a.f \in Files /\ tab.file[a.f].st = "storing" /\ <<"store", a.f, 0>> \in Answered
          /\ a.op = "drop" => a.f \in Files /\ tab.file[a.f].removal = "dropping" /\ tab.file[a.f].st \in {"done", "error"}
  <2> SUFFICES ASSUME NEW a \in Els(store.answers)
               PROVE  /\ a \in AnswerRecs
                      /\ a.op = "store" => a.f \in Files /\ tab.file[a.f].st = "storing" /\ <<"store", a.f, 0>> \in Answered
                      /\ a.op = "drop" => a.f \in Files /\ tab.file[a.f].removal = "dropping" /\ tab.file[a.f].st \in {"done", "error"}
      OBVIOUS
  <2>1. a \in AnswerRecs
        BY <1>1, ElsTyped
  <2>2. <<a.op, a.f, a.hyd>> \in Answered
    <3>1. Answered = {AnswerKey[e] : e \in Els(store.answers)}
          BY DEF Answered, Keyed, Els
    <3> QED BY <2>1, <3>1, KeyOf
  <2>3. <<a.op, a.f, a.hyd>> \in Keys(tab.hyds) /\ <<a.op, a.f, a.hyd>> \in Calls
        BY <2>2 DEF RagInv, StoreQueues, Calls
  <2>4. (a.op \in {"store", "drop"} => a.f \in Files /\ a.hyd = 0)
        BY <1>1, <2>3, KeyShape
  <2> QED BY <2>1, <2>2, <2>3, <2>4 DEF RagInv, FilesSound, FileSound
<1>18. RowsSound'
  <2>1. \A f \in Files : <<"store", f, 0>> \in Asked' => f \notin store'.rows
    <3> SUFFICES ASSUME NEW f \in Files, <<"store", f, 0>> \in Asked' PROVE f \notin store'.rows
        OBVIOUS
    <3>1. <<"store", f, 0>> \in Asked /\ <<"store", f, 0>> # <<b.op, b.f, b.hyd>> /\ f \notin store.rows
          BY <1>7, <1>8 DEF RagInv, RowsSound
    <3> QED BY <1>2, <1>10, <3>1
  <2>2. \A f \in Files : tab'.file[f].st \in {"none", "parsing", "embedding", "error"} => f \notin store'.rows
    <3> SUFFICES ASSUME NEW f \in Files, tab.file[f].st \in {"none", "parsing", "embedding", "error"} PROVE f \notin store'.rows
        BY <1>6 DEF SameFiles
    <3>1. f \notin store.rows
          BY DEF RagInv, RowsSound
    <3> QED BY <1>2, <1>10, <1>16, <3>1
  <2>3. \A f \in Files : tab'.file[f].st = "hydrating" => f \in store'.rows
    <3> SUFFICES ASSUME NEW f \in Files, tab.file[f].st = "hydrating" PROVE f \in store'.rows
        BY <1>6 DEF SameFiles
    <3>1. f \in store.rows
          BY DEF RagInv, RowsSound
    <3> QED BY <1>2, <1>10, <1>16, <3>1
  <2>4. \A f \in Files : tab'.file[f].st = "done" /\ tab'.file[f].removal = "no" => f \in store'.rows
    <3> SUFFICES ASSUME NEW f \in Files, tab.file[f].st = "done", tab.file[f].removal = "no" PROVE f \in store'.rows
        BY <1>6 DEF SameFiles
    <3>1. f \in store.rows
          BY DEF RagInv, RowsSound
    <3> QED BY <1>2, <1>10, <1>16, <3>1
  <2>5. \A a \in Els(store'.answers) : a.op = "store" => (a.ok <=> a.f \in store'.rows)
    <3> SUFFICES ASSUME NEW a \in Els(store'.answers), a.op = "store" PROVE a.ok <=> a.f \in store'.rows
        OBVIOUS
    <3>1. CASE a = b
          BY <1>2, <1>10, <1>16, <3>1
    <3>2. CASE a \in Els(store.answers)
      <4>1. /\ a.ok <=> a.f \in store.rows
            /\ tab.file[a.f].st = "storing" /\ <<"store", a.f, 0>> \in Answered
            BY <1>17, <3>2 DEF RagInv, RowsSound
      <4>2. ~(b.op = "store" /\ b.f = a.f)
            BY <1>7, <1>8, <1>10, <4>1
      <4>3. ~(b.op = "drop" /\ b.f = a.f)
            BY <1>16, <4>1
      <4>4. a.f \in store'.rows <=> a.f \in store.rows
            BY <1>2, <1>10, <4>2, <4>3
      <4> QED BY <4>1, <4>4
    <3> QED BY <1>9, <3>1, <3>2
  <2> QED BY <2>1, <2>2, <2>3, <2>4, <2>5 DEF RowsSound
<1>19. GoneSound'
  <2>1. \A f \in Files : tab.file[f].removal # "no" /\ f \notin store.rows => f \notin store'.rows
        BY <1>2, <1>10, <1>16
  <2>2. ASSUME NEW i \in 1..Len(store'.answers), store'.answers[i].op = "drop", store'.answers[i].ok,
               NEW j \in i..Len(store'.answers)
        PROVE  store'.answers[i].f \notin store'.rows /\ store'.answers[i].f \notin store'.answers[j].vecs
    <3>1. CASE i = Len(store.answers) + 1
      <4>1. j = i /\ store'.answers[i] = b
            BY <1>9, <3>1
      <4>2. b.f \notin store'.rows
            BY <1>2, <2>2, <4>1
      <4> QED BY <1>2, <4>1, <4>2
    <3>2. CASE i # Len(store.answers) + 1
      <4>1. i \in 1..Len(store.answers) /\ store'.answers[i] = store.answers[i] /\ store.answers[i] \in Els(store.answers)
            BY <1>9, <3>2 DEF Els
      <4> DEFINE a == store.answers[i]
      <4>2. a.op = "drop" /\ a.ok /\ a.f \in Files /\ tab.file[a.f].removal = "dropping"
            BY <1>17, <2>2, <4>1
      <4>3. a.f \notin store.rows /\ \A k \in i..Len(store.answers) : a.f \notin store.answers[k].vecs
            BY <4>1, <4>2 DEF RagInv, GoneSound
      <4>4. a.f \notin store'.rows
            BY <2>1, <4>2, <4>3
      <4>5. CASE j = Len(store.answers) + 1
            BY <1>2, <1>9, <4>1, <4>4, <4>5
      <4>6. CASE j # Len(store.answers) + 1
        <5>1. j \in i..Len(store.answers) /\ store'.answers[j] = store.answers[j]
              BY <1>9, <4>1, <4>6
        <5> QED BY <4>1, <4>3, <4>4, <5>1
      <4> QED BY <4>5, <4>6
    <3> QED BY <3>1, <3>2
  <2>3. ASSUME NEW f \in Files, tab'.file[f].removal \in {"hydrating", "gone"}
        PROVE  f \notin store'.rows /\ \A a \in Els(store'.answers) : f \notin a.vecs
    <3>1. tab.file[f].removal \in {"hydrating", "gone"}
          BY <1>6, <2>3 DEF SameFiles
    <3>2. f \notin store.rows /\ \A a \in Els(store.answers) : f \notin a.vecs
          BY <3>1 DEF RagInv, GoneSound
    <3>3. f \notin store'.rows
          BY <2>1, <3>1, <3>2
    <3> QED BY <1>2, <1>9, <3>2, <3>3
  <2>4. \A f \in Files : tab'.file[f].removal = "gone" => f \notin tab'.idx
        BY <1>6 DEF RagInv, GoneSound, SameFiles, SameIndex
  <2>5. \A i \in 1..Len(store'.answers) :
          LET a == store'.answers[i] IN
          a.op = "drop" /\ a.ok => a.f \notin store'.rows /\ \A j \in i..Len(store'.answers) : a.f \notin store'.answers[j].vecs
    <3> SUFFICES ASSUME NEW i \in 1..Len(store'.answers), store'.answers[i].op = "drop", store'.answers[i].ok
                 PROVE  /\ store'.answers[i].f \notin store'.rows
                        /\ \A j \in i..Len(store'.answers) : store'.answers[i].f \notin store'.answers[j].vecs
        OBVIOUS
    <3>1. i \in i..Len(store'.answers)
          BY <1>9
    <3> QED BY <2>2, <3>1
  <2> QED BY <2>3, <2>4, <2>5 DEF GoneSound
<1>20. IndexSound'
  <2>1. ~Wrote(b) => store'.rows = store.rows
        BY <1>2, <1>10 DEF Wrote
  <2>2. ASSUME NEW i \in 1..Len(store'.answers), store'.answers[i].op = "hydrate", store'.answers[i].ok,
               \A j \in (i + 1)..Len(store'.answers) : ~Wrote(store'.answers[j])
        PROVE  store'.answers[i].vecs = store'.rows
    <3>1. CASE i = Len(store.answers) + 1
          BY <1>2, <1>9, <3>1
    <3>2. CASE i # Len(store.answers) + 1
      <4>1. i \in 1..Len(store.answers) /\ store'.answers[i] = store.answers[i]
            BY <1>9, <3>2
      <4>2. \A j \in (i + 1)..Len(store.answers) : j \in (i + 1)..Len(store'.answers) /\ store'.answers[j] = store.answers[j]
            BY <1>9, <4>1
      <4>3. ~Wrote(b)
        <5>1. Len(store.answers) + 1 \in (i + 1)..Len(store'.answers)
              BY <1>9, <4>1
        <5> QED BY <1>9, <2>2, <5>1
      <4>4. store.answers[i].vecs = store.rows
            BY <2>2, <4>1, <4>2 DEF RagInv, IndexSound
      <4> QED BY <2>1, <4>1, <4>3, <4>4
    <3> QED BY <3>1, <3>2
  <2>3. ASSUME tab'.open, ~tab'.stale, \A e \in Els(tab'.toStore) : e.op # "hydrate",
               \A a \in Els(store'.answers) : a.op # "hydrate" /\ ~Wrote(a)
        PROVE  tab'.idx = store'.rows
    <3>1. b.op # "hydrate" /\ ~Wrote(b)
          BY <1>9, <2>3
    <3>2. \A e \in Els(tab.toStore) : e.op # "hydrate"
          BY <1>2, <1>5, <1>6, <2>3, <3>1
    <3>3. \A a \in Els(store.answers) : a.op # "hydrate" /\ ~Wrote(a)
          BY <1>9, <2>3
    <3>4. tab.open /\ ~tab.stale /\ tab'.idx = tab.idx
          BY <1>6, <2>3 DEF SameIndex
    <3>5. tab.idx = store.rows
          BY <3>2, <3>3, <3>4 DEF RagInv, IndexSound
    <3> QED BY <2>1, <3>1, <3>4, <3>5
  <2> QED BY <2>2, <2>3 DEF IndexSound
<1> QED BY <1>8, <1>11, <1>12, <1>13, <1>14, <1>15, <1>18, <1>19, <1>20 DEF RagInv
-----------------------------------------------------------------------------
(* The answers of the store *)

LEMMA StoreHears ==
    ASSUME RagInv, StoreDeliver
    PROVE  LET a == First(store.answers) IN
           /\ store.answers # <<>> /\ embed' = embed /\ a \in AnswerRecs /\ a \in Els(store.answers) /\ tab.open
           /\ store'.rows = store.rows /\ store'.answers = Rest(store.answers)
           /\ store' \in [rows : SUBSET Docs, answers : Seq(AnswerRecs)]
           /\ AnswerKey[a] = <<a.op, a.f, a.hyd>> /\ <<a.op, a.f, a.hyd>> \in Calls
           /\ \/ /\ a.op = "store" /\ a.f \in Files /\ a.hyd = 0 /\ tab.file[a.f].st = "storing" /\ tab.file[a.f].removal = "no"
                 /\ tab' = IF a.ok THEN Stored(tab, a.f) ELSE Failed(tab, a.f)
              \/ /\ a.op = "drop" /\ a.f \in Files /\ a.hyd = 0 /\ tab.file[a.f].removal = "dropping"
                 /\ tab.file[a.f].st \in {"done", "error"}
                 /\ tab' = IF a.ok THEN Dropped(tab, a.f) ELSE Removes(tab, a.f, "failed")
              \/ /\ a.op = "hydrate" /\ a.f = None /\ a.hyd \in 1..tab.hyds
                 /\ tab' = LET t == Rehydrated(HydrateSettled(tab, a, a.vecs, a.ok), a.hyd)
                           IN  IF t.send.hyd = a.hyd THEN Ready(t) ELSE t
<1> DEFINE a == First(store.answers)
           D == CASE a.op = "store" -> IF a.ok THEN Stored(tab, a.f) ELSE Failed(tab, a.f)
                  [] a.op = "drop" -> IF a.ok THEN Dropped(tab, a.f) ELSE Removes(tab, a.f, "failed")
                  [] a.op = "hydrate" ->
                     LET t == Rehydrated(HydrateSettled(tab, a, a.vecs, a.ok), a.hyd)
                     IN  IF t.send.hyd = a.hyd THEN Ready(t) ELSE t
<1>1. /\ store.answers \in Seq(AnswerRecs) /\ store.rows \subseteq Docs /\ tab.hyds \in Nat
      /\ store \in [rows : SUBSET Docs, answers : Seq(AnswerRecs)]
      BY Shapes DEF RagInv, Typed
<1>2. /\ store.answers # <<>> /\ embed' = embed /\ store' = [store EXCEPT !.answers = Rest(store.answers)]
      BY DEF StoreDeliver, Rest
<1>3. tab' = D
      BY DEF StoreDeliver, First, Removes
<1>4. /\ Rest(store.answers) \in Seq(AnswerRecs) /\ a \in AnswerRecs /\ AnswerKey[a] \in Answered /\ a \in Els(store.answers)
  <2>1. KeyOnce(AnswerKey, store.answers)
        BY DEF RagInv, StoreQueues
  <2> QED BY <1>1, <1>2, <2>1, RestKeyed DEF Answered
<1>5. AnswerKey[a] = <<a.op, a.f, a.hyd>>
      BY <1>4, KeyOf
<1> HIDE DEF a
<1>6. /\ <<a.op, a.f, a.hyd>> \in Calls /\ <<a.op, a.f, a.hyd>> \in Keys(tab.hyds) /\ tab.open
      BY <1>2, <1>4, <1>5 DEF RagInv, StoreQueues, Calls
<1>7. \/ a.op = "store" /\ a.f \in Files /\ a.hyd = 0
      \/ a.op = "drop" /\ a.f \in Files /\ a.hyd = 0
      \/ a.op = "hydrate" /\ a.f = None /\ a.hyd \in 1..tab.hyds
      BY <1>1, <1>6, KeyShape
<1>8. /\ a.op = "store" => tab.file[a.f].st = "storing" /\ tab.file[a.f].removal = "no"
      /\ a.op = "drop" => tab.file[a.f].removal = "dropping" /\ tab.file[a.f].st \in {"done", "error"}
      BY <1>6, <1>7 DEF RagInv, FilesSound, FileSound
<1>9. /\ store'.rows = store.rows /\ store'.answers = Rest(store.answers)
      /\ store' \in [rows : SUBSET Docs, answers : Seq(AnswerRecs)]
  <2> DEFINE q == Rest(store.answers)
  <2>1. q \in Seq(AnswerRecs) /\ store' = [store EXCEPT !.answers = q]
        BY <1>2, <1>4
  <2> HIDE DEF q
  <2>2. /\ store'.rows = store.rows /\ store'.answers = q /\ store' \in [rows : SUBSET Docs, answers : Seq(AnswerRecs)]
        BY <1>1, <2>1
  <2> QED BY <2>2 DEF q
<1>10. CASE a.op = "store"
  <2>1. D = IF a.ok THEN Stored(tab, a.f) ELSE Failed(tab, a.f)
        BY <1>10
  <2> HIDE DEF D
  <2> QED BY <1>2, <1>3, <1>4, <1>5, <1>6, <1>7, <1>8, <1>9, <1>10, <2>1 DEF a
<1>11. CASE a.op = "drop"
  <2>1. D = IF a.ok THEN Dropped(tab, a.f) ELSE Removes(tab, a.f, "failed")
        BY <1>11
  <2> HIDE DEF D
  <2> QED BY <1>2, <1>3, <1>4, <1>5, <1>6, <1>7, <1>8, <1>9, <1>11, <2>1 DEF a
<1>12. CASE a.op = "hydrate"
  <2>1. D = LET t == Rehydrated(HydrateSettled(tab, a, a.vecs, a.ok), a.hyd)
            IN  IF t.send.hyd = a.hyd THEN Ready(t) ELSE t
        BY <1>12
  <2> HIDE DEF D
  <2> QED BY <1>2, <1>3, <1>4, <1>5, <1>6, <1>7, <1>8, <1>9, <1>12, <2>1 DEF a
<1> QED BY <1>7, <1>10, <1>11, <1>12

\* One answer fewer is under way, and the rows are what they were.
LEMMA HeardRows ==
    ASSUME RagInv, store.answers # <<>>, store'.rows = store.rows, store'.answers = Rest(store.answers),
           \A f \in Files :
              LET y == tab'.file[f] IN
              /\ y.st \in Early => f \notin store.rows
              /\ y.st = "hydrating" => f \in store.rows
              /\ y.st = "done" /\ y.removal = "no" => f \in store.rows
              /\ <<"store", f, 0>> \in Asked' => <<"store", f, 0>> \in Asked
              /\ y.removal \in {"hydrating", "gone"} =>
                    f \notin store.rows /\ \A b \in Els(store.answers) : f \notin b.vecs
              /\ y.removal = "gone" => f \notin tab'.idx,
           /\ tab'.open /\ ~tab'.stale
           /\ \A c \in Els(tab'.toStore) : c.op # "hydrate"
           /\ \A b \in Els(Rest(store.answers)) : b.op # "hydrate" /\ ~Wrote(b)
           => tab'.idx = store.rows
    PROVE  RowsSound' /\ GoneSound' /\ IndexSound'
<1> DEFINE q == Rest(store.answers)
           p == store.answers
<1>1. p \in Seq(AnswerRecs) /\ KeyOnce(AnswerKey, p)
      BY Shapes DEF RagInv, StoreQueues
<1>2. /\ Len(p) \in Nat /\ Len(p) >= 1 /\ Len(q) = Len(p) - 1 /\ \A i \in 1..(Len(p) - 1) : q[i] = p[i + 1]
      BY <1>1, RestAt
<1>3. Els(q) \subseteq Els(p)
      BY <1>1, RestKeyed
<1> HIDE DEF q
<1>4. store'.answers = q
      BY DEF q
<1>5. \A i \in 1..Len(q) : i + 1 \in 1..Len(p) /\ q[i] = p[i + 1] /\ i \in Nat
      BY <1>2
<1>6. RowsSound'
  <2>1. \A a \in Els(store'.answers) : a.op = "store" => (a.ok <=> a.f \in store'.rows)
        BY <1>3, <1>4 DEF RagInv, RowsSound
  <2>2. \A f \in Files : <<"store", f, 0>> \in Asked' => f \notin store'.rows
        BY DEF RagInv, RowsSound
  <2> QED BY <2>1, <2>2 DEF RowsSound, Early
<1>7. GoneSound'
  <2>1. ASSUME NEW i \in 1..Len(q), q[i].op = "drop", q[i].ok
        PROVE  q[i].f \notin store.rows /\ \A j \in i..Len(q) : q[i].f \notin q[j].vecs
    <3>1. p[i + 1].f \notin store.rows /\ \A j \in (i + 1)..Len(p) : p[i + 1].f \notin p[j].vecs
          BY <1>5, <2>1 DEF RagInv, GoneSound
    <3>2. ASSUME NEW j \in i..Len(q) PROVE q[i].f \notin q[j].vecs
      <4>1. j \in 1..Len(q) /\ j + 1 \in (i + 1)..Len(p) /\ q[j] = p[j + 1]
            BY <1>2, <1>5
      <4> QED BY <1>5, <3>1, <4>1
    <3> QED BY <1>5, <3>1, <3>2
  <2>2. \A f \in Files : tab'.file[f].removal \in {"hydrating", "gone"} =>
          f \notin store'.rows /\ \A a \in Els(store'.answers) : f \notin a.vecs
        BY <1>3, <1>4
  <2>3. \A f \in Files : tab'.file[f].removal = "gone" => f \notin tab'.idx
        OBVIOUS
  <2> QED BY <1>4, <2>1, <2>2, <2>3 DEF GoneSound
<1>8. IndexSound'
  <2>1. ASSUME NEW i \in 1..Len(q), q[i].op = "hydrate", q[i].ok, \A j \in (i + 1)..Len(q) : ~Wrote(q[j])
        PROVE  q[i].vecs = store.rows
    <3>1. ASSUME NEW j \in ((i + 1) + 1)..Len(p) PROVE ~Wrote(p[j])
      <4>1. j - 1 \in (i + 1)..Len(q) /\ j - 1 \in 1..Len(q) /\ (j - 1) + 1 = j
            BY <1>2, <1>5
      <4>2. q[j - 1] = p[j]
            BY <1>5, <4>1
      <4> QED BY <2>1, <4>1, <4>2
    <3>2. i + 1 \in 1..Len(p) /\ q[i] = p[i + 1]
          BY <1>5
    <3> QED BY <2>1, <3>1, <3>2 DEF RagInv, IndexSound
  <2>2. /\ tab'.open /\ ~tab'.stale
        /\ \A c \in Els(tab'.toStore) : c.op # "hydrate"
        /\ \A a \in Els(store'.answers) : a.op # "hydrate" /\ ~Wrote(a)
        => tab'.idx = store'.rows
        OBVIOUS
  <2> QED BY <1>4, <2>1, <2>2 DEF IndexSound
<1> QED BY <1>6, <1>7, <1>8
\* A write has been heard of: the index is read again, and the file waits for that.
LEMMA RereadMoves ==
    ASSUME NEW t \in TabRecs, NEW f \in Files, t.open, NEW u, u = Stored(t, f) \/ u = Dropped(t, f)
    PROVE  /\ u \in TabRecs /\ SameIndex(t, u) /\ SameSend(t, u) /\ u.hyds = t.hyds + 1 /\ u.promise = t.hyds + 1
           /\ u.toStore = Append(t.toStore, Call("hydrate", None, t.hyds + 1)) /\ u.toEmbed = t.toEmbed
           /\ u.list = t.list /\ u.drops = t.drops
           /\ u.file[f].hyd = t.hyds + 1 /\ u.file[f].batch = t.file[f].batch
           /\ \A g \in Files \ {f} : u.file[g] = t.file[g]
           /\ u = Stored(t, f) => u.file[f].st = "hydrating" /\ u.file[f].removal = t.file[f].removal
           /\ u = Dropped(t, f) => u.file[f].removal = "hydrating" /\ u.file[f].st = t.file[f].st
<1> DEFINE h == HydrateRagIndex(t, TRUE)
           c == Call("hydrate", None, t.hyds + 1)
           n == t.hyds + 1
<1>1. /\ h \in TabRecs /\ SameIndex(t, h) /\ SameFiles(t, h) /\ SameSend(t, h)
      /\ h.hyds = n /\ h.promise = n /\ h.toStore = Append(t.toStore, c) /\ h.toEmbed = t.toEmbed
      BY Hydrates
<1>2. n \in Nat
      BY DEF TabRecs
<1> DEFINE x == [h.file[f] EXCEPT !.st = "hydrating", !.hyd = h.promise]
           y == [h.file[f] EXCEPT !.removal = "hydrating", !.hyd = h.promise]
<1>3. Stored(t, f) = [h EXCEPT !.file[f].st = "hydrating", !.file[f].hyd = h.promise]
      BY DEF Stored
<1>4. Dropped(t, f) = [h EXCEPT !.file[f].removal = "hydrating", !.file[f].hyd = h.promise]
      BY DEF Dropped
<1> HIDE DEF h, c, n
<1>5. h.file \in [Files -> FileRecs] /\ h.file[f] \in FileRecs /\ h.file = t.file
      BY <1>1, TabParts DEF SameFiles
<1>6. Stored(t, f) = Moved(h, f, x) /\ Dropped(t, f) = Moved(h, f, y)
  <2>1. Stored(t, f) = Moved(h, f, x)
        BY <1>1, <1>3, <1>5 DEF TabRecs, FileRecs, Moved
  <2>2. Dropped(t, f) = Moved(h, f, y)
        BY <1>1, <1>4, <1>5 DEF TabRecs, FileRecs, Moved
  <2> QED BY <2>1, <2>2
<1>7. /\ x \in FileRecs /\ x.st = "hydrating" /\ x.hyd = n /\ x.removal = t.file[f].removal /\ x.batch = t.file[f].batch
      BY <1>1, <1>2, <1>5 DEF FileRecs, FileSteps
<1>8. /\ y \in FileRecs /\ y.removal = "hydrating" /\ y.hyd = n /\ y.st = t.file[f].st /\ y.batch = t.file[f].batch
      BY <1>1, <1>2, <1>5 DEF FileRecs, Removals
<1> HIDE DEF x, y
<1>9. ASSUME NEW z \in FileRecs, u = Moved(h, f, z), z.hyd = n, z.batch = t.file[f].batch
      PROVE  /\ u \in TabRecs /\ SameIndex(t, u) /\ SameSend(t, u) /\ u.hyds = n /\ u.promise = n
             /\ u.toStore = Append(t.toStore, c) /\ u.toEmbed = t.toEmbed
             /\ u.list = t.list /\ u.drops = t.drops
             /\ u.file[f].hyd = n /\ u.file[f].batch = t.file[f].batch /\ u.file[f] = z
             /\ \A g \in Files \ {f} : u.file[g] = t.file[g]
  <2>1. /\ u \in TabRecs /\ SameIndex(h, u) /\ SamePromise(h, u) /\ SameSend(h, u) /\ SameQueues(h, u)
        /\ u.list = h.list /\ u.drops = h.drops /\ u.file[f] = z
        /\ \A g \in Files \ {f} : u.file[g] = h.file[g]
        BY <1>1, <1>9, Moves
  <2> QED BY <1>1, <1>9, <2>1 DEF SameIndex, SamePromise, SameSend, SameQueues, SameFiles
<1>10. ASSUME u = Stored(t, f) PROVE u = Moved(h, f, x) /\ u.file[f] = x
  <2>1. u = Moved(h, f, x)
        BY <1>6, <1>10
  <2> QED BY <1>7, <1>9, <2>1
<1>11. ASSUME u = Dropped(t, f) PROVE u = Moved(h, f, y) /\ u.file[f] = y
  <2>1. u = Moved(h, f, y)
        BY <1>6, <1>11
  <2> QED BY <1>8, <1>9, <2>1
<1>12. /\ u \in TabRecs /\ SameIndex(t, u) /\ SameSend(t, u) /\ u.hyds = n /\ u.promise = n
       /\ u.toStore = Append(t.toStore, c) /\ u.toEmbed = t.toEmbed
       /\ u.list = t.list /\ u.drops = t.drops
       /\ u.file[f].hyd = n /\ u.file[f].batch = t.file[f].batch
       /\ \A g \in Files \ {f} : u.file[g] = t.file[g]
  <2>1. CASE u = Stored(t, f)
        BY <1>7, <1>9, <1>10, <2>1
  <2>2. CASE u = Dropped(t, f)
        BY <1>8, <1>9, <1>11, <2>2
  <2> QED BY <2>1, <2>2
<1>13. /\ u = Stored(t, f) => u.file[f].st = "hydrating" /\ u.file[f].removal = t.file[f].removal
       /\ u = Dropped(t, f) => u.file[f].removal = "hydrating" /\ u.file[f].st = t.file[f].st
      BY <1>7, <1>8, <1>10, <1>11
<1> QED BY <1>12, <1>13 DEF n, c

LEMMA WriteHeard ==
    ASSUME RagInv, StoreDeliver, First(store.answers).ok, First(store.answers).op # "hydrate"
    PROVE  RagInv'
<1> DEFINE a == First(store.answers)
           f == a.f
           n == tab.hyds + 1
           c == Call("hydrate", None, n)
           k0 == <<a.op, f, 0>>
           k1 == <<"hydrate", None, n>>
<1>1. /\ tab \in TabRecs /\ Numbers(tab) /\ store.answers \in Seq(AnswerRecs) /\ tab.toStore \in Seq(CallRecs)
      /\ tab.hyds \in Nat /\ tab.send.gone \subseteq Files
      BY Shapes DEF RagInv
<1>2. /\ store.answers # <<>> /\ embed' = embed /\ a \in Els(store.answers) /\ tab.open
      /\ store'.rows = store.rows /\ store'.answers = Rest(store.answers)
      /\ store' \in [rows : SUBSET Docs, answers : Seq(AnswerRecs)]
      /\ AnswerKey[a] = <<a.op, a.f, a.hyd>>
      BY StoreHears
<1>3. /\ f \in Files /\ a.hyd = 0
      /\ \/ /\ a.op = "store" /\ tab.file[f].st = "storing" /\ tab.file[f].removal = "no" /\ tab' = Stored(tab, f)
         \/ /\ a.op = "drop" /\ tab.file[f].removal = "dropping" /\ tab.file[f].st \in {"done", "error"}
            /\ tab' = Dropped(tab, f)
      BY StoreHears
<1> HIDE DEF a
<1>4. /\ tab' \in TabRecs /\ SameIndex(tab, tab') /\ SameSend(tab, tab') /\ tab'.hyds = n /\ tab'.promise = n
      /\ tab'.toStore = Append(tab.toStore, c) /\ tab'.toEmbed = tab.toEmbed
      /\ tab'.list = tab.list /\ tab'.drops = tab.drops
      /\ tab'.file[f].hyd = n /\ tab'.file[f].batch = tab.file[f].batch
      /\ \A g \in Files \ {f} : tab'.file[g] = tab.file[g]
      /\ tab' = Stored(tab, f) => tab'.file[f].st = "hydrating" /\ tab'.file[f].removal = tab.file[f].removal
      /\ tab' = Dropped(tab, f) => tab'.file[f].removal = "hydrating" /\ tab'.file[f].st = tab.file[f].st
  <2>1. f \in Files /\ tab.open /\ tab \in TabRecs /\ (tab' = Stored(tab, f) \/ tab' = Dropped(tab, f))
        BY <1>1, <1>2, <1>3
  <2> HIDE DEF f
  <2> QED BY <2>1, RereadMoves
<1>5. /\ \/ /\ a.op = "store" /\ tab.file[f].st = "storing" /\ tab.file[f].removal = "no"
            /\ tab'.file[f].st = "hydrating" /\ tab'.file[f].removal = "no"
         \/ /\ a.op = "drop" /\ tab.file[f].removal = "dropping" /\ tab.file[f].st \in {"done", "error"}
            /\ tab'.file[f].removal = "hydrating" /\ tab'.file[f].st = tab.file[f].st
      BY <1>3, <1>4
<1>6. /\ StoreQueues' /\ k0 \in Calls /\ k0 # k1 /\ Asked' = Asked \cup {k1}
      /\ \A k : k \in Calls' <=> k = k1 \/ (k \in Calls /\ k # k0)
      /\ c \in Els(tab'.toStore)
  <2>1. StoreQueues /\ tab'.open = tab.open
        BY <1>4 DEF RagInv, SameIndex
  <2>2. AnswerKey[First(store.answers)] = k0
        BY <1>2, <1>3 DEF a
  <2> QED BY <1>1, <1>2, <1>4, <2>1, <2>2, StoreHeardAsks
<1>7. c.op = "hydrate"
      BY <1>1, NextHydrate
<1>8. EmbedQueues' /\ Work' = Work
      BY <1>2, <1>4, EmbedIdle DEF RagInv
<1>9. Typed'
  <2>1. \A g \in Files : tab'.file[g].batch = tab.file[g].batch
        BY <1>4
  <2>2. Numbers(tab')
        BY <1>1, <1>4, <2>1 DEF Numbers, SameSend
  <2> QED BY <1>2, <1>4, <2>2 DEF RagInv, Typed
<1> HIDE DEF f, n, c, k1
<1>10. FilesSound'
  <2> SUFFICES ASSUME NEW g \in Files PROVE FileSound(g, tab'.file[g], tab'.list, Calls', Work')
      BY DEF FilesSound
  <2>1. FileSound(g, tab.file[g], tab.list, Calls, Work)
        BY DEF RagInv, FilesSound
  <2>2. <<"store", g, 0>> # k1 /\ <<"drop", g, 0>> # k1 /\ \A m : <<"hydrate", None, m>> # k0
        BY <1>5 DEF k1
  <2>3. CASE g = f
        BY <1>4, <1>5, <1>6, <1>8, <2>1, <2>2, <2>3 DEF FileSound, k1
  <2>4. CASE g # f
    <3>1. <<"store", g, 0>> # k0 /\ <<"drop", g, 0>> # k0 /\ tab'.file[g] = tab.file[g]
          BY <1>4, <2>4
    <3> QED BY <1>4, <1>6, <1>8, <2>1, <2>2, <3>1 DEF FileSound
  <2> QED BY <2>3, <2>4
<1>11. SendSound'
  <2>1. \A m : <<"hydrate", None, m>> # k0
        BY <1>5
  <2>2. \A g \in Files : tab.file[g].removal = "gone" => tab'.file[g].removal = "gone"
        BY <1>4, <1>5
  <2> QED BY <1>1, <1>4, <1>6, <1>8, <2>1, <2>2, SendKept DEF RagInv, SameSend
<1>12. /\ a.op = "store" => f \in store.rows
       /\ a.op = "drop" => f \notin store.rows /\ \A b \in Els(store.answers) : f \notin b.vecs
  <2>1. a.op = "store" => f \in store.rows
        BY <1>2 DEF RagInv, RowsSound, f, a
  <2>2. ASSUME a.op = "drop" PROVE f \notin store.rows /\ \A b \in Els(store.answers) : f \notin b.vecs
    <3>1. store.answers[1] = a /\ Len(store.answers) \in Nat /\ 1 \in 1..Len(store.answers)
      <4>1. First(store.answers) = store.answers[1] /\ Len(store.answers) \in Nat /\ Len(store.answers) >= 1
            BY <1>1, <1>2, RestAt
      <4> QED BY <4>1 DEF a
    <3>2. f \notin store.rows /\ \A j \in 1..Len(store.answers) : f \notin store.answers[j].vecs
          BY <2>2, <3>1 DEF RagInv, GoneSound, f, a
    <3> QED BY <3>2 DEF Els
  <2> QED BY <2>1, <2>2
<1>13. RowsSound' /\ GoneSound' /\ IndexSound'
  <2>1. ASSUME NEW g \in Files
        PROVE  LET y == tab'.file[g] IN
               /\ y.st \in Early => g \notin store.rows
               /\ y.st = "hydrating" => g \in store.rows
               /\ y.st = "done" /\ y.removal = "no" => g \in store.rows
               /\ <<"store", g, 0>> \in Asked' => <<"store", g, 0>> \in Asked
               /\ y.removal \in {"hydrating", "gone"} =>
                     g \notin store.rows /\ \A b \in Els(store.answers) : g \notin b.vecs
               /\ y.removal = "gone" => g \notin tab'.idx
    <3>0. <<"store", g, 0>> \in Asked' => <<"store", g, 0>> \in Asked
          BY <1>6 DEF k1
    <3>1. CASE g = f
          BY <1>5, <1>12, <3>0, <3>1 DEF RagInv, RowsSound, Early
    <3>2. CASE g # f
      <4>1. tab'.file[g] = tab.file[g] /\ tab'.idx = tab.idx
            BY <1>4, <3>2 DEF SameIndex
      <4> QED BY <3>0, <4>1 DEF RagInv, RowsSound, GoneSound, Early
    <3> QED BY <3>1, <3>2
  <2>2. ~(\A e \in Els(tab'.toStore) : e.op # "hydrate")
        BY <1>6, <1>7
  <2> QED BY <1>2, <2>1, <2>2, HeardRows
<1>14. DropsSound(tab')
  <2>1. \A g \in Files : /\ tab'.file[g].st \in {"done", "error"} => tab.file[g].st \in {"done", "error"}
                         /\ tab'.file[g].st # "none" => tab.file[g].st # "none"
        BY <1>4, <1>5
  <2> QED BY <1>1, <1>4, <2>1, DropsKept DEF RagInv
<1> QED BY <1>6, <1>8, <1>9, <1>10, <1>11, <1>13, <1>14 DEF RagInv
LEMMA WriteFailed ==
    ASSUME RagInv, StoreDeliver, ~First(store.answers).ok, First(store.answers).op # "hydrate"
    PROVE  RagInv'
<1> DEFINE a == First(store.answers)
           f == a.f
           k0 == <<a.op, f, 0>>
<1>1. /\ tab \in TabRecs /\ Numbers(tab) /\ store.answers \in Seq(AnswerRecs) /\ tab.toStore \in Seq(CallRecs)
      /\ tab.hyds \in Nat /\ tab.send.gone \subseteq Files
      BY Shapes DEF RagInv
<1>2. /\ store.answers # <<>> /\ embed' = embed /\ a \in Els(store.answers) /\ tab.open
      /\ store'.rows = store.rows /\ store'.answers = Rest(store.answers)
      /\ store' \in [rows : SUBSET Docs, answers : Seq(AnswerRecs)]
      /\ AnswerKey[a] = <<a.op, a.f, a.hyd>>
      BY StoreHears
<1>3. /\ f \in Files /\ a.hyd = 0
      /\ \/ /\ a.op = "store" /\ tab.file[f].st = "storing" /\ tab.file[f].removal = "no" /\ tab' = Failed(tab, f)
         \/ /\ a.op = "drop" /\ tab.file[f].removal = "dropping" /\ tab.file[f].st \in {"done", "error"}
            /\ tab' = Removes(tab, f, "failed")
      BY StoreHears
<1>4. ~a.ok /\ a.op # "hydrate"
      OBVIOUS
<1> HIDE DEF a
<1>5. /\ tab' \in TabRecs /\ SameIndex(tab, tab') /\ SamePromise(tab, tab') /\ SameSend(tab, tab') /\ SameQueues(tab, tab')
      /\ tab'.list = tab.list
      /\ \A g \in Files \ {f} : tab'.file[g].st = tab.file[g].st /\ tab'.file[g].removal = tab.file[g].removal
      /\ \A g \in Files : tab'.file[g].hyd = tab.file[g].hyd /\ tab'.file[g].batch = tab.file[g].batch
      /\ DropsSound(tab')
      /\ \/ /\ a.op = "store" /\ tab.file[f].st = "storing" /\ tab.file[f].removal = "no"
            /\ tab'.file[f].st = "error" /\ tab'.file[f].removal = "no"
         \/ /\ a.op = "drop" /\ tab.file[f].removal = "dropping" /\ tab.file[f].st \in {"done", "error"}
            /\ tab'.file[f].removal = "failed" /\ tab'.file[f].st = tab.file[f].st
  <2> HIDE DEF f
  <2>1. CASE a.op = "store"
    <3>1. tab.file[f].st = "storing" /\ tab.file[f].removal = "no" /\ tab' = Failed(tab, f) /\ f \in Files
          BY <1>3, <2>1
    <3>2. /\ tab' \in TabRecs /\ SameIndex(tab, tab') /\ SamePromise(tab, tab') /\ SameSend(tab, tab') /\ SameQueues(tab, tab')
          /\ tab'.list = tab.list /\ tab'.drops = Advance(tab.drops, {f}) /\ tab'.file[f].st = "error"
          /\ \A g \in Files \ {f} : tab'.file[g].st = tab.file[g].st
          /\ \A g \in Files : /\ tab'.file[g].removal = tab.file[g].removal /\ tab'.file[g].hyd = tab.file[g].hyd
                              /\ tab'.file[g].batch = tab.file[g].batch
          BY <1>1, <3>1, FailedMoves
    <3>3. DropsSound(tab) /\ tab.file[f].st # "none"
          BY <3>1 DEF RagInv
    <3>4. DropsSound(tab')
          BY <1>1, <3>1, <3>2, <3>3, DropsFailed
    <3> QED BY <2>1, <3>1, <3>2, <3>4
  <2>2. CASE a.op = "drop"
    <3>1. /\ tab.file[f].removal = "dropping" /\ tab.file[f].st \in {"done", "error"} /\ tab' = Removes(tab, f, "failed")
          /\ f \in Files /\ "failed" \in Removals
          BY <1>3, <2>2 DEF Removals
    <3>2. /\ tab' \in TabRecs /\ SameIndex(tab, tab') /\ SamePromise(tab, tab') /\ SameSend(tab, tab') /\ SameQueues(tab, tab')
          /\ tab'.list = tab.list /\ tab'.drops = tab.drops /\ tab'.file[f].removal = "failed"
          /\ \A g \in Files : /\ tab'.file[g].st = tab.file[g].st /\ tab'.file[g].hyd = tab.file[g].hyd
                              /\ tab'.file[g].batch = tab.file[g].batch
          /\ \A g \in Files \ {f} : tab'.file[g].removal = tab.file[g].removal
          BY <1>1, <3>1, RemovalMoves
    <3>3. DropsSound(tab')
          BY <1>1, <3>2, DropsKept DEF RagInv
    <3> QED BY <2>2, <3>1, <3>2, <3>3
  <2> QED BY <1>3, <2>1, <2>2
<1>6. /\ StoreQueues' /\ k0 \in Calls /\ k0 \notin Asked /\ Asked' = Asked
      /\ \A k : k \in Calls' <=> (k \in Calls /\ k # k0)
  <2>1. StoreQueues /\ tab'.open = tab.open /\ tab'.hyds = tab.hyds /\ tab'.toStore = tab.toStore
        BY <1>5 DEF RagInv, SameIndex, SamePromise, SameQueues
  <2>2. AnswerKey[First(store.answers)] = k0
        BY <1>2, <1>3 DEF a
  <2> QED BY <1>1, <1>2, <2>1, <2>2, StoreHeard
<1>7. EmbedQueues' /\ Work' = Work
      BY <1>2, <1>5, EmbedIdle DEF RagInv, SameQueues
<1>8. Typed'
      BY <1>1, <1>2, <1>5, NumbersKept DEF RagInv, Typed, SamePromise, SameSend
<1> HIDE DEF f
<1>9. FilesSound'
  <2> SUFFICES ASSUME NEW g \in Files PROVE FileSound(g, tab'.file[g], tab'.list, Calls', Work')
      BY DEF FilesSound
  <2>1. FileSound(g, tab.file[g], tab.list, Calls, Work)
        BY DEF RagInv, FilesSound
  <2>2. \A m : <<"hydrate", None, m>> # k0
        BY <1>4
  <2>3. CASE g = f
        BY <1>5, <1>6, <1>7, <2>1, <2>2, <2>3 DEF FileSound
  <2>4. CASE g # f
    <3>1. <<"store", g, 0>> # k0 /\ <<"drop", g, 0>> # k0
          BY <2>4
    <3> QED BY <1>5, <1>6, <1>7, <2>1, <2>2, <2>4, <3>1 DEF FileSound
  <2> QED BY <2>3, <2>4
<1>10. SendSound'
  <2>1. \A m : <<"hydrate", None, m>> # k0
        BY <1>4
  <2>2. \A g \in Files : tab.file[g].removal = "gone" => tab'.file[g].removal = "gone"
        BY <1>5
  <2> QED BY <1>1, <1>5, <1>6, <1>7, <2>1, <2>2, SendKept DEF RagInv, SameSend
<1>11. RowsSound' /\ GoneSound' /\ IndexSound'
  <2>0. a.op = "store" => f \notin store.rows
        BY <1>2, <1>4 DEF RagInv, RowsSound, f, a
  <2>1. ASSUME NEW g \in Files
        PROVE  LET y == tab'.file[g] IN
               /\ y.st \in Early => g \notin store.rows
               /\ y.st = "hydrating" => g \in store.rows
               /\ y.st = "done" /\ y.removal = "no" => g \in store.rows
               /\ <<"store", g, 0>> \in Asked' => <<"store", g, 0>> \in Asked
               /\ y.removal \in {"hydrating", "gone"} =>
                     g \notin store.rows /\ \A b \in Els(store.answers) : g \notin b.vecs
               /\ y.removal = "gone" => g \notin tab'.idx
    <3>1. CASE g = f
          BY <1>5, <1>6, <2>0, <3>1 DEF RagInv, RowsSound, Early
    <3>2. CASE g # f
      <4>1. tab'.file[g].st = tab.file[g].st /\ tab'.file[g].removal = tab.file[g].removal /\ tab'.idx = tab.idx
            BY <1>5, <3>2 DEF SameIndex
      <4> QED BY <1>6, <4>1 DEF RagInv, RowsSound, GoneSound, Early
    <3> QED BY <3>1, <3>2
  <2>2. ASSUME tab'.open, ~tab'.stale, \A e \in Els(tab'.toStore) : e.op # "hydrate",
               \A b \in Els(Rest(store.answers)) : b.op # "hydrate" /\ ~Wrote(b)
        PROVE  tab'.idx = store.rows
    <3>1. ~Wrote(a)
          BY <1>4 DEF Wrote
    <3>2. Els(store.answers) \subseteq Els(Rest(store.answers)) \cup {a}
      <4>1. KeyOnce(AnswerKey, store.answers)
            BY DEF RagInv, StoreQueues
      <4> QED BY <1>1, <1>2, <4>1, RestKeyed DEF a
    <3>3. \A b \in Els(store.answers) : b.op # "hydrate" /\ ~Wrote(b)
          BY <1>4, <2>2, <3>1, <3>2
    <3>4. tab.open /\ ~tab.stale /\ tab'.toStore = tab.toStore /\ tab'.idx = tab.idx
          BY <1>5, <2>2 DEF SameIndex, SameQueues
    <3> QED BY <2>2, <3>3, <3>4 DEF RagInv, IndexSound
  <2> QED BY <1>2, <2>1, <2>2, HeardRows
<1> QED BY <1>5, <1>6, <1>7, <1>8, <1>9, <1>10, <1>11 DEF RagInv

\* Those that wait for a hydrate go on.
LEMMA RehydratedMoves ==
    ASSUME NEW t \in TabRecs, NEW h \in Nat
    PROVE  LET u == Rehydrated(t, h)
               S == {f \in Files : t.file[f].hyd = h /\ t.file[f].st = "hydrating"} IN
           /\ u \in TabRecs /\ SameIndex(t, u) /\ SamePromise(t, u) /\ SameSend(t, u) /\ SameQueues(t, u)
           /\ u.list = t.list /\ u.drops = Advance(t.drops, S)
           /\ \A f \in Files :
                 /\ u.file[f].st = IF f \in S THEN "done" ELSE t.file[f].st
                 /\ u.file[f].removal = IF t.file[f].hyd = h /\ t.file[f].removal = "hydrating" THEN "gone" ELSE t.file[f].removal
                 /\ u.file[f].hyd = t.file[f].hyd /\ u.file[f].batch = t.file[f].batch
<1> DEFINE S == {f \in Files : t.file[f].hyd = h /\ t.file[f].st = "hydrating"}
           v == Settle(t, S, "done")
           W(f) == t.file[f].hyd = h /\ t.file[f].removal = "hydrating"
           fs == [f \in Files |-> IF W(f) THEN [v.file[f] EXCEPT !.removal = "gone"] ELSE v.file[f]]
           u == [v EXCEPT !.file = fs]
<1>1. Rehydrated(t, h) = u
      BY DEF Rehydrated
<1>2. /\ v \in TabRecs /\ SameIndex(t, v) /\ SamePromise(t, v) /\ SameSend(t, v) /\ SameQueues(t, v)
      /\ v.list = t.list /\ v.drops = Advance(t.drops, S)
      /\ \A f \in Files : /\ v.file[f].st = IF f \in S THEN "done" ELSE t.file[f].st
                          /\ v.file[f].removal = t.file[f].removal
                          /\ v.file[f].hyd = t.file[f].hyd /\ v.file[f].batch = t.file[f].batch
  <2>1. "done" \in FileSteps /\ S \in SUBSET Files
        BY DEF FileSteps
  <2> HIDE DEF S
  <2> QED BY <2>1, Settles
<1> HIDE DEF v
<1>3. \A f \in Files : v.file[f] \in FileRecs
      BY <1>2, TabParts
<1>4. \A f \in Files : LET r == [v.file[f] EXCEPT !.removal = "gone"] IN
          /\ r \in FileRecs /\ r.removal = "gone" /\ r.st = v.file[f].st /\ r.hyd = v.file[f].hyd /\ r.batch = v.file[f].batch
      BY <1>3 DEF FileRecs, Removals
<1>5. /\ fs \in [Files -> FileRecs]
      /\ \A f \in Files : /\ fs[f].st = v.file[f].st /\ fs[f].hyd = v.file[f].hyd /\ fs[f].batch = v.file[f].batch
                          /\ fs[f].removal = IF W(f) THEN "gone" ELSE v.file[f].removal
  <2> HIDE DEF W
  <2>1. fs \in [Files -> FileRecs]
        BY <1>3, <1>4
  <2> QED BY <1>4, <2>1
<1> HIDE DEF fs
<1>6. /\ u \in TabRecs /\ SameIndex(v, u) /\ SamePromise(v, u) /\ SameSend(v, u) /\ SameQueues(v, u)
      /\ u.list = v.list /\ u.drops = v.drops /\ u.file = fs
      BY <1>2, <1>5 DEF TabRecs, SameIndex, SamePromise, SameSend, SameQueues
<1> HIDE DEF u
<1>7. /\ u \in TabRecs /\ SameIndex(t, u) /\ SamePromise(t, u) /\ SameSend(t, u) /\ SameQueues(t, u)
      /\ u.list = t.list /\ u.drops = Advance(t.drops, S)
      BY <1>2, <1>6 DEF SameIndex, SamePromise, SameSend, SameQueues
<1>8. \A f \in Files :
         /\ u.file[f].st = IF f \in S THEN "done" ELSE t.file[f].st
         /\ u.file[f].removal = IF W(f) THEN "gone" ELSE t.file[f].removal
         /\ u.file[f].hyd = t.file[f].hyd /\ u.file[f].batch = t.file[f].batch
      BY <1>2, <1>5, <1>6
<1> QED BY <1>1, <1>7, <1>8
LEMMA HydrateHeard ==
    ASSUME RagInv, StoreDeliver, First(store.answers).op = "hydrate"
    PROVE  RagInv'
<1> DEFINE a == First(store.answers)
           h == a.hyd
           k0 == <<"hydrate", None, h>>
           i == IF a.ok THEN a.vecs ELSE {}
           S == {f \in Files : tab.file[f].hyd = h /\ tab.file[f].st = "hydrating"}
           G == HydrateSettled(tab, a, a.vecs, a.ok)
           R == Rehydrated(G, h)
<1>1. /\ tab \in TabRecs /\ Numbers(tab) /\ store.answers \in Seq(AnswerRecs) /\ tab.toStore \in Seq(CallRecs)
      /\ tab.hyds \in Nat /\ tab.promise \in Nat /\ tab.send.gone \subseteq Files /\ tab.toEmbed \in Seq(Whos)
      BY Shapes DEF RagInv
<1>2. /\ store.answers # <<>> /\ embed' = embed /\ a \in AnswerRecs /\ a \in Els(store.answers) /\ tab.open
      /\ store'.rows = store.rows /\ store'.answers = Rest(store.answers)
      /\ store' \in [rows : SUBSET Docs, answers : Seq(AnswerRecs)]
      /\ AnswerKey[a] = <<a.op, a.f, a.hyd>>
      BY StoreHears
<1>3. /\ a.f = None /\ h \in Nat
      /\ tab' = IF R.send.hyd = h THEN Ready(R) ELSE R
      BY <1>1, StoreHears
<1>4. a.op = "hydrate" /\ a.ok \in BOOLEAN
      BY <1>2 DEF AnswerRecs
<1> HIDE DEF a
<1>5. /\ G \in TabRecs /\ G.open = tab.open /\ G.idx = i /\ G.stale = ~a.ok
      /\ G.hyds = tab.hyds /\ G.promise \in {0, tab.promise}
      /\ SameFiles(tab, G) /\ SameSend(tab, G) /\ SameQueues(tab, G)
      BY <1>1, <1>2, HydrateSettles
<1> HIDE DEF G, h
<1>6. /\ R \in TabRecs /\ SameIndex(G, R) /\ SamePromise(G, R) /\ SameSend(G, R) /\ SameQueues(G, R)
      /\ R.list = G.list /\ R.drops = Advance(G.drops, {f \in Files : G.file[f].hyd = h /\ G.file[f].st = "hydrating"})
      /\ \A f \in Files :
            /\ R.file[f].st = IF f \in {g \in Files : G.file[g].hyd = h /\ G.file[g].st = "hydrating"} THEN "done" ELSE G.file[f].st
            /\ R.file[f].removal = IF G.file[f].hyd = h /\ G.file[f].removal = "hydrating" THEN "gone" ELSE G.file[f].removal
            /\ R.file[f].hyd = G.file[f].hyd /\ R.file[f].batch = G.file[f].batch
      BY <1>3, <1>5, RehydratedMoves
<1> HIDE DEF R
<1>7. G.file = tab.file /\ G.list = tab.list /\ G.drops = tab.drops
      BY <1>5 DEF SameFiles
<1>8. /\ R \in TabRecs /\ R.open = tab.open /\ R.idx = i /\ R.stale = ~a.ok /\ R.hyds = tab.hyds
      /\ R.promise \in {0, tab.promise} /\ SameSend(tab, R) /\ SameQueues(tab, R)
      /\ R.list = tab.list /\ R.drops = Advance(tab.drops, S)
      /\ \A f \in Files :
            /\ R.file[f].st = IF tab.file[f].hyd = h /\ tab.file[f].st = "hydrating" THEN "done" ELSE tab.file[f].st
            /\ R.file[f].removal = IF tab.file[f].hyd = h /\ tab.file[f].removal = "hydrating" THEN "gone" ELSE tab.file[f].removal
            /\ R.file[f].hyd = tab.file[f].hyd /\ R.file[f].batch = tab.file[f].batch
      BY <1>5, <1>6, <1>7 DEF SameIndex, SamePromise, SameSend, SameQueues
<1> HIDE DEF S, i
<1>9. /\ tab' \in TabRecs /\ SameIndex(R, tab') /\ SamePromise(R, tab') /\ SameFiles(R, tab') /\ tab'.sends = R.sends
      /\ tab'.toStore = R.toStore /\ tab'.send.gone = R.send.gone /\ tab'.send.used \in {{}, R.send.used}
      /\ \/ tab'.send = R.send /\ tab'.toEmbed = R.toEmbed /\ ~(R.send.st = "hydrating" /\ R.send.hyd = h)
         \/ R.send.st = "hydrating" /\ tab'.send.st = "sent" /\ tab'.toEmbed = R.toEmbed
         \/ R.send.st = "hydrating" /\ tab'.send.st = "embedding" /\ tab'.toEmbed = Append(R.toEmbed, Prompt)
  <2>1. CASE R.send.st = "hydrating" /\ R.send.hyd = h
    <3>1. tab' = Ready(R)
          BY <1>3, <2>1
    <3> QED BY <1>8, <2>1, <3>1, ReadyMoves
  <2>2. CASE ~(R.send.st = "hydrating" /\ R.send.hyd = h)
    <3>1. tab' = R
          BY <1>3, <2>2 DEF Ready
    <3> QED BY <1>8, <2>2, <3>1 DEF SameIndex, SamePromise, SameFiles
  <2> QED BY <2>1, <2>2
<1>10. /\ tab'.open = tab.open /\ tab'.idx = i /\ tab'.stale = ~a.ok /\ tab'.hyds = tab.hyds
       /\ tab'.promise \in {0, tab.promise} /\ tab'.sends = tab.sends /\ tab'.toStore = tab.toStore
       /\ tab'.list = tab.list /\ tab'.drops = Advance(tab.drops, S)
       /\ tab'.send.gone = tab.send.gone /\ tab'.send.used \in {{}, tab.send.used}
       /\ \A f \in Files :
             /\ tab'.file[f].st = IF tab.file[f].hyd = h /\ tab.file[f].st = "hydrating" THEN "done" ELSE tab.file[f].st
             /\ tab'.file[f].removal = IF tab.file[f].hyd = h /\ tab.file[f].removal = "hydrating" THEN "gone" ELSE tab.file[f].removal
             /\ tab'.file[f].hyd = tab.file[f].hyd /\ tab'.file[f].batch = tab.file[f].batch
      BY <1>8, <1>9 DEF SameIndex, SamePromise, SameFiles, SameSend, SameQueues
<1>11. \/ tab'.send = tab.send /\ tab'.toEmbed = tab.toEmbed /\ ~(tab.send.st = "hydrating" /\ tab.send.hyd = h)
       \/ tab.send.st = "hydrating" /\ tab'.send.st = "sent" /\ tab'.toEmbed = tab.toEmbed
       \/ tab.send.st = "hydrating" /\ tab'.send.st = "embedding" /\ tab'.toEmbed = Append(tab.toEmbed, Prompt)
      BY <1>8, <1>9 DEF SameSend, SameQueues
<1>12. /\ StoreQueues' /\ k0 \in Calls /\ k0 \notin Asked /\ Asked' = Asked
       /\ \A k : k \in Calls' <=> (k \in Calls /\ k # k0)
  <2>1. StoreQueues
        BY DEF RagInv
  <2>2. AnswerKey[First(store.answers)] = k0
        BY <1>2, <1>3, <1>4 DEF a, h
  <2> QED BY <1>1, <1>2, <1>10, <2>1, <2>2, StoreHeard
<1>13. /\ EmbedQueues'
       /\ \A f \in Files : Ingest(f) \in Work' <=> Ingest(f) \in Work
       /\ Prompt \in Work' <=> tab'.send.st = "embedding"
  <2>1. Prompt \in Work <=> tab.send.st = "embedding"
        BY DEF RagInv, SendSound
  <2>2. CASE tab'.toEmbed = tab.toEmbed /\ (tab'.send.st = "embedding" <=> tab.send.st = "embedding")
    <3>1. EmbedQueues' /\ Work' = Work
          BY <1>2, <2>2, EmbedIdle DEF RagInv
    <3> QED BY <2>1, <2>2, <3>1
  <2>3. CASE tab.send.st = "hydrating" /\ tab'.send.st = "embedding" /\ tab'.toEmbed = Append(tab.toEmbed, Prompt)
    <3>1. Prompt \notin Work /\ EmbedQueues
          BY <2>1, <2>3 DEF RagInv
    <3>2. EmbedQueues' /\ Work' = Work \cup {Prompt}
          BY <1>1, <1>2, <2>3, <3>1, WhoShape, EmbedPosted
    <3> QED BY <2>3, <3>2, WhoShape
  <2> QED BY <1>11, <2>2, <2>3
<1>14. Typed'
  <2>1. Numbers(tab')
        BY <1>1, <1>10 DEF Numbers
  <2> QED BY <1>2, <1>9, <2>1 DEF RagInv, Typed
<1>15. \A f \in Files : <<"store", f, 0>> # k0 /\ <<"drop", f, 0>> # k0
      OBVIOUS
<1>16. FilesSound'
  <2> SUFFICES ASSUME NEW f \in Files PROVE FileSound(f, tab'.file[f], tab'.list, Calls', Work')
      BY DEF FilesSound
  <2>1. FileSound(f, tab.file[f], tab.list, Calls, Work)
        BY DEF RagInv, FilesSound
  <2>2. /\ tab'.file[f].st = IF tab.file[f].hyd = h /\ tab.file[f].st = "hydrating" THEN "done" ELSE tab.file[f].st
        /\ tab'.file[f].removal = IF tab.file[f].hyd = h /\ tab.file[f].removal = "hydrating" THEN "gone" ELSE tab.file[f].removal
        /\ tab'.file[f].hyd = tab.file[f].hyd /\ tab'.list = tab.list
        BY <1>10
  <2>3. CASE tab.file[f].hyd = h
        BY <1>12, <1>13, <1>15, <2>1, <2>2, <2>3 DEF FileSound
  <2>4. CASE tab.file[f].hyd # h
    <3>1. <<"hydrate", None, tab.file[f].hyd>> # k0
          BY <2>4
    <3> QED BY <1>12, <1>13, <1>15, <2>1, <2>2, <2>4, <3>1 DEF FileSound
  <2> QED BY <2>3, <2>4
<1>17. SendSound'
  <2>1. \A f \in tab'.send.gone : tab'.file[f].removal = "gone"
        BY <1>1, <1>10 DEF RagInv, SendSound
  <2>2. tab'.send.gone \cap tab'.send.used = {}
        BY <1>10 DEF RagInv, SendSound
  <2>3. tab'.send.st = "hydrating" => <<"hydrate", None, tab'.send.hyd>> \in Calls'
    <3> SUFFICES ASSUME tab'.send.st = "hydrating" PROVE <<"hydrate", None, tab'.send.hyd>> \in Calls'
        OBVIOUS
    <3>1. tab'.send = tab.send /\ tab.send.hyd # h
          BY <1>11
    <3>2. <<"hydrate", None, tab.send.hyd>> # k0 /\ <<"hydrate", None, tab.send.hyd>> \in Calls
          BY <3>1 DEF RagInv, SendSound
    <3> QED BY <1>12, <3>1, <3>2
  <2> QED BY <1>13, <2>1, <2>2, <2>3 DEF SendSound
<1>18. RowsSound' /\ GoneSound' /\ IndexSound'
  <2>1. ASSUME NEW f \in Files
        PROVE  LET y == tab'.file[f] IN
               /\ y.st \in Early => f \notin store.rows
               /\ y.st = "hydrating" => f \in store.rows
               /\ y.st = "done" /\ y.removal = "no" => f \in store.rows
               /\ <<"store", f, 0>> \in Asked' => <<"store", f, 0>> \in Asked
               /\ y.removal \in {"hydrating", "gone"} =>
                     f \notin store.rows /\ \A b \in Els(store.answers) : f \notin b.vecs
               /\ y.removal = "gone" => f \notin tab'.idx
    <3> DEFINE x == tab.file[f]
               y == tab'.file[f]
    <3>1. /\ x.st \in Early => f \notin store.rows
          /\ x.st = "hydrating" => f \in store.rows
          /\ x.st = "done" /\ x.removal = "no" => f \in store.rows
          BY DEF RagInv, RowsSound, Early
    <3>2. x.removal \in {"hydrating", "gone"} => f \notin store.rows /\ \A b \in Els(store.answers) : f \notin b.vecs
          BY DEF RagInv, GoneSound
    <3>3. /\ y.st = IF x.hyd = h /\ x.st = "hydrating" THEN "done" ELSE x.st
          /\ y.removal = IF x.hyd = h /\ x.removal = "hydrating" THEN "gone" ELSE x.removal
          BY <1>10
    <3>4. y.removal = "gone" => f \notin tab'.idx
          BY <1>2, <1>10, <3>2, <3>3 DEF i
    <3>5. <<"store", f, 0>> \in Asked' => <<"store", f, 0>> \in Asked
          BY <1>12
    <3> HIDE DEF x, y
    <3>6. /\ y.st \in Early => f \notin store.rows
          /\ y.st = "hydrating" => f \in store.rows
          /\ y.st = "done" /\ y.removal = "no" => f \in store.rows
          /\ y.removal \in {"hydrating", "gone"} =>
                     f \notin store.rows /\ \A b \in Els(store.answers) : f \notin b.vecs
          BY <3>1, <3>2, <3>3 DEF Early
    <3> QED BY <3>4, <3>5, <3>6 DEF x, y
  <2>2. ASSUME tab'.open, ~tab'.stale, \A e \in Els(tab'.toStore) : e.op # "hydrate",
               \A b \in Els(Rest(store.answers)) : b.op # "hydrate" /\ ~Wrote(b)
        PROVE  tab'.idx = store.rows
    <3> DEFINE p == store.answers
    <3>1. p \in Seq(AnswerRecs) /\ p # <<>> /\ Len(p) \in Nat /\ Len(p) >= 1 /\ p[1] = a
      <4>1. First(p) = p[1] /\ Len(p) \in Nat /\ Len(p) >= 1
            BY <1>1, <1>2, RestAt
      <4> QED BY <1>1, <1>2, <4>1 DEF a
    <3>2. a.ok
          BY <1>4, <1>10, <2>2
    <3>3. ASSUME NEW j \in (1 + 1)..Len(p) PROVE ~Wrote(p[j])
      <4>1. /\ Len(Rest(p)) = Len(p) - 1 /\ \A k \in 1..(Len(p) - 1) : Rest(p)[k] = p[k + 1]
            BY <3>1, RestAt
      <4>2. j - 1 \in 1..(Len(p) - 1) /\ (j - 1) + 1 = j
            BY <3>1
      <4>3. Rest(p)[j - 1] = p[j] /\ j - 1 \in 1..Len(Rest(p))
            BY <4>1, <4>2
      <4> QED BY <2>2, <4>3 DEF Els
    <3>4. a.vecs = store.rows
      <4>1. 1 \in 1..Len(p)
            BY <3>1
      <4> QED BY <1>4, <3>1, <3>2, <3>3, <4>1 DEF RagInv, IndexSound
    <3> QED BY <1>10, <3>2, <3>4 DEF i
  <2> QED BY <1>2, <2>1, <2>2, HeardRows
<1>19. DropsSound(tab')
  <2> DEFINE st == "done"
  <2>1. /\ S \in SUBSET Files /\ \A f \in S : tab.file[f].st # "none" \/ Begins(tab, f)
        /\ \A f \in Files : tab'.file[f].st = IF f \in S THEN st ELSE tab.file[f].st
        /\ st \in {"done", "error"} /\ tab'.drops = Advance(tab.drops, S)
        BY <1>10 DEF S
  <2> HIDE DEF st
  <2> QED BY <1>1, <2>1, DropsSettled DEF RagInv
<1> QED BY <1>12, <1>13, <1>14, <1>16, <1>17, <1>18, <1>19 DEF RagInv

LEMMA StoreDeliverKeeps ==
    ASSUME RagInv, StoreDeliver
    PROVE  RagInv'
BY WriteHeard, WriteFailed, HydrateHeard

-----------------------------------------------------------------------------
(* The invariant *)

LEMMA RagInit == Init => RagInv
<1> SUFFICES ASSUME Init PROVE RagInv
    OBVIOUS
<1> DEFINE fs == [f \in Files |-> NoFile]
           ld == [k \in Lazy |-> "none"]
           T(b) == [open |-> b, idx |-> {}, stale |-> FALSE, promise |-> 0, hyds |-> 0, forced |-> {},
                    file |-> fs, list |-> {}, drops |-> {}, loader |-> ld,
                    send |-> NoSend, sends |-> 0, toStore |-> <<>>, toEmbed |-> <<Warm>>]
<1>1. PICK b \in BOOLEAN : tab = HydrateRagIndex(T(b), TRUE)
      BY DEF Init, Unlocked
<1>2. store = [rows |-> Old, answers |-> <<>>] /\ embed = [st |-> "starting", model |-> FALSE, answers |-> <<>>]
      BY DEF Init
<1>3. NoFile \in FileRecs /\ NoFile.st = "none" /\ NoFile.removal = "no" /\ NoFile.batch = 0
      BY DEF NoFile, FileRecs, FileSteps, Removals
<1>4. NoSend \in SendRecs /\ NoSend.st = "idle" /\ NoSend.used = {} /\ NoSend.gone = {}
      BY DEF NoSend, SendRecs
<1>5. <<Warm>> \in Seq(Whos) /\ <<>> \in Seq(CallRecs) /\ <<>> \in Seq(AnswerRecs) /\ <<>> \in Seq(DoneRecs)
      BY WhoShape
<1>6. fs \in [Files -> FileRecs] /\ ld \in [Lazy -> {"none", "loaded", "failed"}] /\ \A f \in Files : fs[f] = NoFile
      BY <1>3
<1> DEFINE t == T(b)
<1> HIDE DEF fs, ld
<1>7. /\ t \in TabRecs /\ t.open = b /\ t.idx = {} /\ t.stale = FALSE /\ t.promise = 0 /\ t.hyds = 0 /\ t.file = fs
      /\ t.list = {} /\ t.drops = {} /\ t.send = NoSend /\ t.sends = 0 /\ t.toStore = <<>> /\ t.toEmbed = <<Warm>>
      BY <1>4, <1>5, <1>6 DEF TabRecs
<1> HIDE DEF T, t
<1> DEFINE c == Call("hydrate", None, 0 + 1)
<1>8. c \in CallRecs /\ CallKey[c] = <<"hydrate", None, 1>> /\ c.op = "hydrate"
  <2>1. 0 \in Nat
        OBVIOUS
  <2>2. c \in CallRecs /\ CallKey[c] = <<"hydrate", None, 0 + 1>> /\ c.op = "hydrate"
        BY <2>1, NextHydrate
  <2> QED BY <2>2
<1> HIDE DEF c
<1>9. /\ tab \in TabRecs /\ tab.open = b /\ tab.idx = {} /\ tab.file = fs /\ tab.list = {} /\ tab.drops = {}
      /\ tab.send = NoSend /\ tab.sends = 0 /\ tab.toEmbed = <<Warm>> /\ tab.promise <= tab.hyds
      /\ \/ b /\ tab.hyds = 1 /\ tab.toStore = Append(<<>>, c)
         \/ ~b /\ tab.hyds = 0 /\ tab.toStore = <<>>
  <2>1. CASE b
    <3>1. /\ tab \in TabRecs /\ SameIndex(t, tab) /\ SameFiles(t, tab) /\ SameSend(t, tab)
          /\ tab.hyds = t.hyds + 1 /\ tab.promise = t.hyds + 1
          /\ tab.toStore = Append(t.toStore, Call("hydrate", None, t.hyds + 1)) /\ tab.toEmbed = t.toEmbed
          BY <1>1, <1>7, <2>1, Hydrates DEF t
    <3> QED BY <1>7, <2>1, <3>1 DEF SameIndex, SameFiles, SameSend, c
  <2>2. CASE ~b
    <3>1. /\ tab \in TabRecs /\ SamePromise(t, tab) /\ SameFiles(t, tab) /\ SameSend(t, tab) /\ SameQueues(t, tab)
          /\ tab.open = t.open /\ tab.stale = t.stale /\ tab.idx \subseteq t.idx
          BY <1>1, <1>7, <2>2, HydratesNot DEF t
    <3> QED BY <1>7, <2>2, <3>1 DEF SamePromise, SameFiles, SameSend, SameQueues
  <2> QED BY <2>1, <2>2
<1>10. Typed
  <2>1. Numbers(tab)
    <3>1. \A f \in Files : tab.file[f].batch = 0 /\ Batches[f] \in Nat
          BY <1>3, <1>6, <1>9, BatchesAssumption
    <3> QED BY <1>9, <3>1, BoundsAssumption DEF Numbers
  <2> DEFINE q == <<>>
  <2>2. q \in Seq(AnswerRecs) /\ q \in Seq(DoneRecs) /\ store = [rows |-> Old, answers |-> q]
        /\ embed = [st |-> "starting", model |-> FALSE, answers |-> q]
        BY <1>2, <1>5
  <2> HIDE DEF q
  <2> QED BY <1>9, <2>1, <2>2 DEF Typed, Docs
<1>11. store.answers = <<>> /\ embed.answers = <<>> /\ store.rows = Old /\ embed.st = "starting"
      BY <1>2
<1>12. Answered = {} /\ Vectored = {} /\ KeyOnce(AnswerKey, store.answers) /\ KeyOnce(DoneKey, embed.answers)
      /\ Els(store.answers) = {}
      BY <1>11, EmptyKeyed DEF Answered, Vectored
<1>13. Waiting = {Warm} /\ KeyOnce(WhoKey, tab.toEmbed)
  <2>1. Warm \in Whos /\ WhoKey[Warm] = Warm
        BY WhoShape, KeyOf
  <2>2. Len(<<Warm>>) = 1 /\ <<Warm>>[1] = Warm
        OBVIOUS
  <2>3. Waiting = {Warm}
        BY <1>9, <2>1, <2>2 DEF Waiting, Keyed
  <2>4. KeyOnce(WhoKey, tab.toEmbed)
        BY <1>9, <2>2 DEF KeyOnce
  <2> QED BY <2>3, <2>4
<1>14. /\ KeyOnce(CallKey, tab.toStore)
       /\ \/ b /\ Asked = {<<"hydrate", None, 1>>} /\ Els(tab.toStore) = {c} /\ tab.hyds = 1
          \/ ~b /\ Asked = {} /\ tab.toStore = <<>>
  <2>1. CASE ~b
        BY <1>9, <2>1, EmptyKeyed DEF Asked
  <2>2. CASE b
    <3> DEFINE e == <<>>
    <3>1. e \in Seq(CallRecs) /\ KeyOnce(CallKey, e) /\ Keyed(CallKey, e) = {} /\ Els(e) = {} /\ tab.toStore = Append(e, c) /\ tab.hyds = 1
          BY <1>9, <2>2, EmptyKeyed
    <3> HIDE DEF e
    <3>2. /\ KeyOnce(CallKey, Append(e, c)) /\ Keyed(CallKey, Append(e, c)) = Keyed(CallKey, e) \cup {CallKey[c]}
          /\ Els(Append(e, c)) = Els(e) \cup {c}
      <4>1. c \in CallRecs /\ e \in Seq(CallRecs) /\ KeyOnce(CallKey, e)
            BY <1>8, <3>1
      <4>2. CallKey[c] \notin Keyed(CallKey, e)
            BY <3>1
      <4> QED BY <4>1, <4>2, AppendKeyed
    <3> QED BY <1>8, <2>2, <3>1, <3>2 DEF Asked
  <2> QED BY <2>1, <2>2
<1>15. StoreQueues
  <2>1. <<"hydrate", None, 1>> \in Keys(1)
        BY DEF Keys
  <2>2. Calls \subseteq Keys(tab.hyds)
        BY <1>12, <1>14, <2>1 DEF Calls
  <2> QED BY <1>9, <1>11, <1>12, <1>14, <2>2 DEF StoreQueues
<1>16. EmbedQueues
      BY <1>11, <1>12, <1>13 DEF EmbedQueues
<1>17. \A f \in Files : tab.file[f].st = "none" /\ tab.file[f].removal = "no"
      BY <1>3, <1>6, <1>9
<1>18. FilesSound
  <2>1. \A f \in Files : <<"store", f, 0>> \notin Calls /\ <<"drop", f, 0>> \notin Calls
    <3>1. \A f \in Files : <<"store", f, 0>> # <<"hydrate", None, 1>> /\ <<"drop", f, 0>> # <<"hydrate", None, 1>>
          OBVIOUS
    <3> QED BY <1>12, <1>14, <3>1 DEF Calls
  <2>2. \A f \in Files : Ingest(f) \notin Work
        BY <1>12, <1>13, WhoShape DEF Work
  <2>3. ASSUME NEW f \in Files PROVE FileSound(f, tab.file[f], tab.list, Calls, Work)
    <3> DEFINE x == tab.file[f]
    <3>1. x.st = "none" /\ x.removal = "no"
          BY <1>17
    <3> HIDE DEF x
    <3>2. FileSound(f, x, tab.list, Calls, Work)
          BY <2>1, <2>2, <3>1 DEF FileSound
    <3> QED BY <3>2 DEF x
  <2> QED BY <2>3 DEF FilesSound
<1>19. SendSound
  <2>1. Prompt \notin Work
        BY <1>12, <1>13, WhoShape DEF Work
  <2> QED BY <1>4, <1>9, <2>1 DEF SendSound
<1>20. RowsSound /\ GoneSound /\ DropsSound(tab)
  <2>1. \A f \in Files : f \notin store.rows
        BY <1>11, FilesAssumption
  <2>2. \A f \in Files : <<"store", f, 0>> \notin Asked
        BY <1>14
  <2>3. RowsSound
        BY <1>12, <1>17, <2>1, <2>2 DEF RowsSound
  <2>4. GoneSound
        BY <1>11, <1>17 DEF GoneSound
  <2>5. DropsSound(tab)
        BY <1>9, <1>17 DEF DropsSound
  <2> QED BY <2>3, <2>4, <2>5
<1>21. IndexSound
      BY <1>8, <1>9, <1>11, <1>14 DEF IndexSound
<1> QED BY <1>10, <1>15, <1>16, <1>18, <1>19, <1>20, <1>21 DEF RagInv

LEMMA RagStep == RagInv /\ [Next]_vars => RagInv'
<1> SUFFICES ASSUME RagInv, [Next]_vars PROVE RagInv'
    OBVIOUS
<1>1. CASE UNCHANGED vars
      BY <1>1 DEF vars, RagInv, Typed, StoreQueues, EmbedQueues, FilesSound, SendSound, RowsSound, GoneSound, IndexSound,
                  Calls, Work, Asked, Answered, Waiting, Vectored
<1>2. ASSUME NEW d \in Lists, Attach(d) PROVE RagInv'
      BY <1>2, AttachKeeps
<1>3. ASSUME NEW f \in Files, IngestOne(f) \/ Parse(f) \/ RemoveFile(f) PROVE RagInv'
      BY <1>3, IngestOneKeeps, ParseKeeps, RemoveFileKeeps
<1>4. CASE Clear \/ Hide \/ EmbedStart
      BY <1>4, PanelKeeps
<1>5. CASE Augment
      BY <1>5, AugmentKeeps
<1>6. CASE StoreServe
      BY <1>6, StoreServeKeeps
<1>7. CASE StoreDeliver
      BY <1>7, StoreDeliverKeeps
<1>8. CASE EmbedWorkerError
      BY <1>8, EmbedWorkerErrorKeeps
<1>9. CASE EmbedServe
      BY <1>9, EmbedServeKeeps
<1>10. CASE EmbedDeliver
      BY <1>10, EmbedDeliverKeeps
<1> QED BY <1>1, <1>2, <1>3, <1>4, <1>5, <1>6, <1>7, <1>8, <1>9, <1>10 DEF Next

LEMMA RagAlways == Spec => []RagInv
BY RagInit, RagStep, PTL DEF Spec
-----------------------------------------------------------------------------
(* The properties *)

\* With both queues of an open store empty, nothing was read before the last write.
LEMMA RagDocuments == RagInv => DocumentsAgree
<1> SUFFICES ASSUME RagInv PROVE DocumentsAgree
    OBVIOUS
<1>1. IndexTracksStore
  <2> DEFINE e == <<>>
  <2>1. SUFFICES ASSUME tab.open, tab.toStore = e, store.answers = e, ~tab.stale PROVE tab.idx = store.rows
        BY DEF IndexTracksStore
  <2>2. Els(e) = {}
        BY EmptyKeyed
  <2> HIDE DEF e
  <2> QED BY <2>1, <2>2 DEF RagInv, IndexSound
<1>2. AllOrNothing
      BY DEF RagInv, RowsSound, AllOrNothing
<1> QED BY <1>1, <1>2 DEF DocumentsAgree

LEMMA RagNotUsed == RagInv => RemovedNotUsed
BY DEF RagInv, SendSound, RemovedNotUsed

\* What is under way at the embedder has its request or its answer in a queue.
LEMMA WorkUnderWay ==
    ASSUME Typed, NEW w \in Work
    PROVE  w \in Range(tab.toEmbed) \/ \E a \in Range(embed.answers) : a.who = w
<1>1. tab.toEmbed \in Seq(Whos) /\ embed.answers \in Seq(DoneRecs)
      BY DEF Typed, TabRecs
<1>2. /\ Range(tab.toEmbed) = Els(tab.toEmbed) /\ Els(tab.toEmbed) \subseteq Whos
      /\ Waiting = {WhoKey[v] : v \in Els(tab.toEmbed)}
  <2>1. Range(tab.toEmbed) = Els(tab.toEmbed) /\ Els(tab.toEmbed) \subseteq Whos
        BY <1>1, ElsTyped
  <2> QED BY <2>1 DEF Waiting, Keyed, Els
<1>3. /\ Range(embed.answers) = Els(embed.answers) /\ Els(embed.answers) \subseteq DoneRecs
      /\ Vectored = {DoneKey[a] : a \in Els(embed.answers)}
  <2>1. Range(embed.answers) = Els(embed.answers) /\ Els(embed.answers) \subseteq DoneRecs
        BY <1>1, ElsTyped
  <2> QED BY <2>1 DEF Vectored, Keyed, Els
<1>4. CASE w \in Waiting
      BY <1>2, <1>4, KeyOf
<1>5. CASE w \in Vectored
      BY <1>3, <1>5, KeyOf
<1> QED BY <1>4, <1>5 DEF Work

\* And so it is with the store.
LEMMA CallUnderWay ==
    ASSUME Typed, NEW op, NEW f, NEW h, <<op, f, h>> \in Calls
    PROVE  \E c \in Range(tab.toStore) \union Range(store.answers) : c.op = op /\ c.f = f /\ c.hyd = h
<1>1. tab.toStore \in Seq(CallRecs) /\ store.answers \in Seq(AnswerRecs)
      BY DEF Typed, TabRecs
<1>2. /\ Range(tab.toStore) = Els(tab.toStore) /\ Els(tab.toStore) \subseteq CallRecs
      /\ Asked = {CallKey[c] : c \in Els(tab.toStore)}
  <2>1. Range(tab.toStore) = Els(tab.toStore) /\ Els(tab.toStore) \subseteq CallRecs
        BY <1>1, ElsTyped
  <2> QED BY <2>1 DEF Asked, Keyed, Els
<1>3. /\ Range(store.answers) = Els(store.answers) /\ Els(store.answers) \subseteq AnswerRecs
      /\ Answered = {AnswerKey[a] : a \in Els(store.answers)}
  <2>1. Range(store.answers) = Els(store.answers) /\ Els(store.answers) \subseteq AnswerRecs
        BY <1>1, ElsTyped
  <2> QED BY <2>1 DEF Answered, Keyed, Els
<1>4. CASE <<op, f, h>> \in Asked
  <2>1. PICK c \in Els(tab.toStore) : CallKey[c] = <<op, f, h>>
        BY <1>2, <1>4
  <2>2. c.op = op /\ c.f = f /\ c.hyd = h
        BY <1>2, <2>1, KeyOf
  <2> QED BY <1>2, <2>2
<1>5. CASE <<op, f, h>> \in Answered
  <2>1. PICK a \in Els(store.answers) : AnswerKey[a] = <<op, f, h>>
        BY <1>3, <1>5
  <2>2. a.op = op /\ a.f = f /\ a.hyd = h
        BY <1>3, <2>1, KeyOf
  <2> QED BY <1>3, <2>2
<1> QED BY <1>4, <1>5 DEF Calls

LEMMA RagTyped == RagInv => TypeOK
<1> SUFFICES ASSUME RagInv PROVE TypeOK
    OBVIOUS
<1>1. /\ tab \in TabRecs /\ Numbers(tab) /\ store.rows \subseteq Files \cup Old
      /\ embed.st \in {"starting", "up", "down"} /\ embed.model \in BOOLEAN
      BY DEF RagInv, Typed, Docs
<1>2. /\ tab.idx \subseteq Files \cup Old /\ tab.promise \in Nat /\ tab.hyds \in Nat /\ tab.sends \in Nat
      /\ tab.send \in SendRecs /\ tab.file \in [Files -> FileRecs]
      BY <1>1 DEF TabRecs, Docs
<1>3. tab.promise \in 0..tab.hyds /\ tab.sends \in 0..MaxSends
      BY <1>1, <1>2, BoundsAssumption DEF Numbers
<1>4. tab.send.st \in {"idle", "hydrating", "embedding", "sent"}
      BY <1>2 DEF SendRecs
<1>5. ASSUME NEW f \in Files
      PROVE  /\ tab.file[f].st \in {"none", "parsing", "embedding", "storing", "hydrating", "done", "error"}
             /\ tab.file[f].removal \in {"no", "dropping", "hydrating", "gone", "failed"}
             /\ tab.file[f].batch \in 0..Batches[f]
  <2>1. tab.file[f] \in FileRecs /\ tab.file[f].batch <= Batches[f] /\ Batches[f] \in Nat
        BY <1>1, <1>2, BatchesAssumption DEF Numbers
  <2>2. tab.file[f].st \in FileSteps /\ tab.file[f].removal \in Removals /\ tab.file[f].batch \in Nat
        BY <2>1 DEF FileRecs
  <2> QED BY <2>1, <2>2 DEF FileSteps, Removals
<1> QED BY <1>1, <1>2, <1>3, <1>4, <1>5 DEF TypeOK

LEMMA RagAwaited == RagInv => NobodyForgotten
<1> SUFFICES ASSUME RagInv PROVE NobodyForgotten
    OBVIOUS
<1> DEFINE Embedding(who) == embed.st = "down" \/ who \in Range(tab.toEmbed) \/ \E a \in Range(embed.answers) : a.who = who
           Storing(op, f) == \E c \in Range(tab.toStore) \union Range(store.answers) : c.op = op /\ c.f = f
<1>1. Typed /\ FilesSound /\ SendSound /\ DropsSound(tab)
      BY DEF RagInv
<1>2. ASSUME NEW h, <<"hydrate", None, h>> \in Calls PROVE Unsettled(tab, h)
      BY <1>1, <1>2, CallUnderWay DEF Unsettled
<1>3. ASSUME NEW op, NEW f, <<op, f, 0>> \in Calls PROVE Storing(op, f)
      BY <1>1, <1>3, CallUnderWay
<1>4. ASSUME NEW w \in Work PROVE Embedding(w)
      BY <1>1, <1>4, WorkUnderWay
<1>5. \A d \in tab.drops : Range(d) = Els(d)
  <2>1. tab.drops \in SUBSET Seq(Files)
        BY <1>1 DEF Typed, TabRecs
  <2> QED BY <2>1, ElsTyped
<1>6. TypeOK
      BY RagTyped
<1> HIDE DEF Embedding, Storing
<1>7. ASSUME NEW f \in Files
      PROVE  LET x == tab.file[f] IN
             /\ x.st = "embedding" => Embedding(Ingest(f))
             /\ x.st = "storing" => Storing("store", f)
             /\ x.removal = "dropping" => Storing("drop", f)
             /\ "hydrating" \in {x.st, x.removal} => Unsettled(tab, x.hyd)
             /\ x.st \in {"done", "error"} => \A d \in tab.drops : f \notin Range(d)
  <2> DEFINE x == tab.file[f]
  <2>1. FileSound(f, x, tab.list, Calls, Work)
        BY <1>1 DEF FilesSound
  <2>2. x.st \in {"done", "error"} => \A d \in tab.drops : f \notin Range(d)
        BY <1>1, <1>5 DEF DropsSound
  <2> HIDE DEF x
  <2>3. /\ x.st = "embedding" => Ingest(f) \in Work
        /\ x.st = "storing" => <<"store", f, 0>> \in Calls
        /\ x.removal = "dropping" => <<"drop", f, 0>> \in Calls
        /\ "hydrating" \in {x.st, x.removal} => <<"hydrate", None, x.hyd>> \in Calls
        BY <2>1 DEF FileSound
  <2>4. /\ x.st = "embedding" => Embedding(Ingest(f))
        /\ x.st = "storing" => Storing("store", f)
        /\ x.removal = "dropping" => Storing("drop", f)
        /\ "hydrating" \in {x.st, x.removal} => Unsettled(tab, x.hyd)
        BY <1>2, <1>3, <1>4, <2>3
  <2> QED BY <2>2, <2>4 DEF x
<1>8. tab.send.st = "hydrating" => Unsettled(tab, tab.send.hyd)
      BY <1>1, <1>2 DEF SendSound
<1>9. tab.send.st = "embedding" => Embedding(Prompt)
      BY <1>1, <1>4 DEF SendSound
<1> QED BY <1>6, <1>7, <1>8, <1>9 DEF NobodyForgotten, Embedding, Storing

\* Documents, rows and index: whenever nothing is under way between the tab and an open
\* store, the index is what the store holds unless the last read failed; and at every moment
\* a file shown as failed left no row, one shown as indexed has its rows (ingestOne,
\* hydrateRagIndex, removeFile), for every set of files, kinds and numbers of batches.
THEOREM DocumentsAlwaysAgree == Spec => []DocumentsAgree
BY RagAlways, RagDocuments, PTL

\* Whatever the order in which removals, hydrates and prompts overlap, no excerpt of a
\* document whose removal had ended goes into a later prompt (removeFile,
\* augmentPromptWithRAG).
THEOREM RemovedNeverUsed == Spec => []RemovedNotUsed
BY RagAlways, RagNotUsed, PTL

\* Every variable has its type, and every await of a prompt, an ingest or a removal has its
\* request or its answer in a queue (the worker clients of retrieval.ts and the store proxy).
THEOREM NobodyIsForgotten == Spec => []NobodyForgotten
BY RagAlways, RagAwaited, PTL
=============================================================================
