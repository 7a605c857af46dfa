--------------------------- MODULE DeviceStoreProofs ---------------------------
(***************************************************************************)
(* Proofs about DeviceStore for any number of identities and of calls in   *)
(* flight, whatever the calls ask for.  The first part is about the proxy, *)
(* its waiters, the worker's queue and its answers; the second is about    *)
(* the tables: what statements, requests and writes that are cut short     *)
(* leave behind, and what the pages of a list show of it.                  *)
(***************************************************************************)
EXTENDS DeviceStore, FiniteSetTheorems, WellFoundedInduction, TLAPS

-----------------------------------------------------------------------------
(* The inductive invariant *)

Names == Calls \cup {"INIT"}
Answers == [to : Names, ok : BOOLEAN]
InitStages == {"loading", "opening", "reading", "reopening", "rereading", "schema"}

Elems(s) == {s[i] : i \in 1..Len(s)}
Once(s) == \A i, j \in 1..Len(s) : s[i] = s[j] => i = j
Dests(s) == {s[i].to : i \in 1..Len(s)}
DestOnce(s) == \A i, j \in 1..Len(s) : s[i].to = s[j].to => i = j

\* The shapes of the records; the contents of a database and of an answer may be anything.
FilesTyped == file = [k \in Keys |-> file[k]] /\ \A k \in Keys : file[k].st \in {"none", "ok", "bad"}
ProxyTyped ==
    /\ proxy \in [opened : BOOLEAN, ready : {"pending", "resolved", "rejected"}, waiters : Seq(Calls)]
    /\ proxy.opened = (proxy.ready = "resolved")
WorkerRecords(d) ==
    [up : BOOLEAN, key : Keys \cup {NoKey}, stage : InitStages \cup {"idle", "writing"},
     db : BOOLEAN, persistent : BOOLEAN, conn : {d}, queue : Seq(Names), out : Seq(Answers)]
Waiting == {"waiting"}
Sent == {"sent"}
Served == {"served", "refused", "cleared"}
Over == {"idle", "err"}
Statuses == Waiting \cup Sent \cup Served \cup Over
CallRecords(o, r) == [st : Statuses, op : {o}, res : {r}]
CallsTyped ==
    /\ call = [c \in Calls |-> call[c]]
    /\ \A c \in Calls : call[c] \in CallRecords(call[c].op, call[c].res)

\* Where the worker is; its first request is INIT, and ready is pending until that is answered.
WorkerSound ==
    /\ Once(wk.queue) /\ DestOnce(wk.out) /\ Elems(wk.queue) \cap Dests(wk.out) = {}
    /\ ~wk.up => wk.queue = <<>> /\ wk.out = <<>> /\ wk.stage = "idle" /\ proxy.ready = "pending"
    /\ "INIT" \in Elems(wk.queue) \cup Dests(wk.out) <=> wk.up /\ proxy.ready = "pending"
    /\ wk.stage \in InitStages => wk.queue # <<>> /\ Head(wk.queue) = "INIT"
    /\ wk.stage = "writing" => wk.queue # <<>> /\ Head(wk.queue) \in Calls

\* Every call is exactly where its status says.
CallsSound ==
    /\ Once(proxy.waiters)
    /\ proxy.ready # "pending" => proxy.waiters = <<>>
    /\ \A c \in Calls : /\ call[c].st \in Waiting <=> c \in Elems(proxy.waiters)
                        /\ call[c].st \in Sent <=> c \in Elems(wk.queue)
                        /\ call[c].st \in Served <=> c \in Dests(wk.out)

StoreInv ==
    /\ FilesTyped /\ ProxyTyped /\ wk \in WorkerRecords(wk.conn) /\ CallsTyped
    /\ WorkerSound /\ CallsSound

-----------------------------------------------------------------------------
(* Sequences *)

LEMMA EmptyOnce == Elems(<<>>) = {} /\ Once(<<>>) /\ Dests(<<>>) = {} /\ DestOnce(<<>>)
BY DEF Elems, Once, Dests, DestOnce

LEMMA AppendOnce ==
    ASSUME NEW S, NEW s \in Seq(S), NEW e \in S, Once(s), e \notin Elems(s)
    PROVE  /\ Append(s, e) \in Seq(S) /\ Once(Append(s, e)) /\ Elems(Append(s, e)) = Elems(s) \cup {e}
           /\ Append(s, e) # <<>> /\ (s # <<>> => Head(Append(s, e)) = Head(s))
<1> DEFINE q == Append(s, e)
<1>1. /\ Len(s) \in Nat /\ q \in Seq(S) /\ Len(q) = Len(s) + 1 /\ q[Len(s) + 1] = e
      /\ \A i \in 1..Len(s) : q[i] = s[i]
      OBVIOUS
<1>2. q # <<>> /\ (s # <<>> => Head(q) = Head(s))
  <2>1. q # <<>> /\ Head(q) = q[1]
        OBVIOUS
  <2>2. s # <<>> => 1 \in 1..Len(s) /\ Head(s) = s[1]
        OBVIOUS
  <2> HIDE DEF q
  <2> QED BY <1>1, <2>1, <2>2
<1> HIDE DEF q
<1>3. \A i \in 1..Len(q) : i \in 1..Len(s) \/ i = Len(s) + 1
      BY <1>1
<1>4. \A i \in 1..Len(s) : i \in 1..Len(q)
      BY <1>1
<1>5. Len(s) + 1 \in 1..Len(q)
      BY <1>1
<1>6. Once(q)
      BY <1>1, <1>3 DEF Once, Elems
<1>7. Elems(q) = Elems(s) \cup {e}
      BY <1>1, <1>3, <1>4, <1>5 DEF Elems
<1> QED BY <1>1, <1>2, <1>6, <1>7 DEF q

LEMMA TailOnce ==
    ASSUME NEW S, NEW s \in Seq(S), s # <<>>, Once(s)
    PROVE  /\ Tail(s) \in Seq(S) /\ Head(s) \in S /\ Head(s) \in Elems(s)
           /\ Once(Tail(s)) /\ Elems(Tail(s)) = Elems(s) \ {Head(s)}
<1> DEFINE q == Tail(s)
<1>1. /\ Len(s) \in Nat /\ Len(s) >= 1 /\ q \in Seq(S) /\ Len(q) = Len(s) - 1
      /\ Head(s) = s[1] /\ s[1] \in S
      OBVIOUS
<1>2. \A i \in 1..(Len(s) - 1) : q[i] = s[i + 1]
      OBVIOUS
<1> HIDE DEF q
<1>3. \A i \in 1..Len(q) : q[i] = s[i + 1] /\ i + 1 \in 1..Len(s) /\ i + 1 # 1
      BY <1>1, <1>2
<1>4. \A i \in 1..Len(s) : i = 1 \/ (i - 1 \in 1..Len(q) /\ (i - 1) + 1 = i)
      BY <1>1
<1>5. Once(q)
      BY <1>1, <1>3 DEF Once
<1>6. Elems(q) \subseteq Elems(s) \ {s[1]}
  <2>1. 1 \in 1..Len(s)
        BY <1>1
  <2>2. \A i \in 1..Len(q) : s[i + 1] # s[1]
        BY <1>3, <2>1 DEF Once
  <2> QED BY <1>3, <2>2 DEF Elems
<1>7. Elems(s) \ {s[1]} \subseteq Elems(q)
  <2> SUFFICES ASSUME NEW i \in 1..Len(s), s[i] # s[1] PROVE s[i] \in Elems(q)
      BY DEF Elems
  <2>1. i - 1 \in 1..Len(q) /\ (i - 1) + 1 = i
        BY <1>4
  <2>2. s[i] = q[i - 1]
        BY <1>3, <2>1
  <2> QED BY <2>1, <2>2 DEF Elems
<1>8. 1 \in 1..Len(s)
      BY <1>1
<1>9. s[1] \in Elems(s)
      BY <1>8 DEF Elems
<1> QED BY <1>1, <1>5, <1>6, <1>7, <1>9 DEF q

LEMMA ConcatOnce ==
    ASSUME NEW S, NEW s \in Seq(S), NEW u \in Seq(S), Once(s), Once(u), Elems(s) \cap Elems(u) = {}
    PROVE  /\ s \o u \in Seq(S) /\ Once(s \o u) /\ Elems(s \o u) = Elems(s) \cup Elems(u)
           /\ s # <<>> => s \o u # <<>> /\ Head(s \o u) = Head(s)
<1> DEFINE q == s \o u
<1>1. /\ Len(s) \in Nat /\ Len(u) \in Nat /\ q \in Seq(S) /\ Len(q) = Len(s) + Len(u)
      /\ \A i \in 1..Len(s) : q[i] = s[i]
      OBVIOUS
<1>2. \A i \in 1..Len(u) : q[Len(s) + i] = u[i]
      OBVIOUS
<1>2a. s # <<>> => q # <<>> /\ Head(q) = Head(s)
  <2>1. s # <<>> => 1 \in 1..Len(s) /\ Head(s) = s[1] /\ q # <<>>
        OBVIOUS
  <2>2. q # <<>> => Head(q) = q[1]
        OBVIOUS
  <2> HIDE DEF q
  <2> QED BY <1>1, <2>1, <2>2
<1> HIDE DEF q
<1>3. \A i \in 1..Len(q) : i \in 1..Len(s) \/ (i - Len(s) \in 1..Len(u) /\ Len(s) + (i - Len(s)) = i)
      BY <1>1
<1>4. /\ \A i \in 1..Len(s) : i \in 1..Len(q)
      /\ \A i \in 1..Len(u) : Len(s) + i \in 1..Len(q)
      BY <1>1
<1>5. \A i \in 1..Len(q) : \/ i \in 1..Len(s) /\ q[i] = s[i]
                           \/ i - Len(s) \in 1..Len(u) /\ q[i] = u[i - Len(s)]
      BY <1>1, <1>2, <1>3
<1>6. Once(q)
  <2> SUFFICES ASSUME NEW i \in 1..Len(q), NEW j \in 1..Len(q), q[i] = q[j] PROVE i = j
      BY DEF Once
  <2>1. CASE i \in 1..Len(s) /\ j \in 1..Len(s)
        BY <1>1, <2>1 DEF Once
  <2>2. CASE i \notin 1..Len(s) /\ j \notin 1..Len(s)
    <3>1. i - Len(s) = j - Len(s)
          BY <1>5, <2>2 DEF Once
    <3> QED BY <1>1, <3>1
  <2>3. CASE ~(i \in 1..Len(s) <=> j \in 1..Len(s))
    <3>1. /\ \A k \in 1..Len(s) : s[k] \in Elems(s)
          /\ \A k \in 1..Len(u) : u[k] \in Elems(u)
          BY DEF Elems
    <3>2. \A k \in 1..Len(q) : k \notin 1..Len(s) => q[k] \in Elems(u)
          BY <1>5, <3>1
    <3>3. \A k \in 1..Len(s) : q[k] \in Elems(s)
          BY <1>1, <3>1
    <3> QED BY <2>3, <3>2, <3>3
  <2> QED BY <2>1, <2>2, <2>3
<1>7. Elems(q) \subseteq Elems(s) \cup Elems(u)
      BY <1>5 DEF Elems
<1>8. Elems(s) \cup Elems(u) \subseteq Elems(q)
      BY <1>1, <1>2, <1>4 DEF Elems
<1> QED BY <1>1, <1>2a, <1>6, <1>7, <1>8 DEF q

\* The same for the addressees of answers.
LEMMA AppendDest ==
    ASSUME NEW s \in Seq(Answers), NEW e \in Answers, DestOnce(s), e.to \notin Dests(s)
    PROVE  /\ Append(s, e) \in Seq(Answers) /\ DestOnce(Append(s, e))
           /\ Dests(Append(s, e)) = Dests(s) \cup {e.to}
<1> DEFINE q == Append(s, e)
<1>1. /\ Len(s) \in Nat /\ q \in Seq(Answers) /\ Len(q) = Len(s) + 1 /\ q[Len(s) + 1] = e
      /\ \A i \in 1..Len(s) : q[i] = s[i]
      OBVIOUS
<1> HIDE DEF q
<1>3. \A i \in 1..Len(q) : i \in 1..Len(s) \/ i = Len(s) + 1
      BY <1>1
<1>4. \A i \in 1..Len(s) : i \in 1..Len(q)
      BY <1>1
<1>5. Len(s) + 1 \in 1..Len(q)
      BY <1>1
<1>6. DestOnce(q)
      BY <1>1, <1>3 DEF DestOnce, Dests
<1>7. Dests(q) = Dests(s) \cup {e.to}
      BY <1>1, <1>3, <1>4, <1>5 DEF Dests
<1> QED BY <1>1, <1>6, <1>7 DEF q

LEMMA TailDest ==
    ASSUME NEW s \in Seq(Answers), s # <<>>, DestOnce(s)
    PROVE  /\ Tail(s) \in Seq(Answers) /\ Head(s) \in Answers /\ Head(s).to \in Dests(s)
           /\ DestOnce(Tail(s)) /\ Dests(Tail(s)) = Dests(s) \ {Head(s).to}
<1> DEFINE q == Tail(s)
<1>1. /\ Len(s) \in Nat /\ Len(s) >= 1 /\ q \in Seq(Answers) /\ Len(q) = Len(s) - 1
      /\ Head(s) = s[1] /\ s[1] \in Answers
      OBVIOUS
<1>2. \A i \in 1..(Len(s) - 1) : q[i] = s[i + 1]
      OBVIOUS
<1> HIDE DEF q
<1>3. \A i \in 1..Len(q) : q[i] = s[i + 1] /\ i + 1 \in 1..Len(s) /\ i + 1 # 1
      BY <1>1, <1>2
<1>4. \A i \in 1..Len(s) : i = 1 \/ (i - 1 \in 1..Len(q) /\ (i - 1) + 1 = i)
      BY <1>1
<1>5. DestOnce(q)
      BY <1>1, <1>3 DEF DestOnce
<1>6. Dests(q) \subseteq Dests(s) \ {s[1].to}
  <2>1. 1 \in 1..Len(s)
        BY <1>1
  <2>2. \A i \in 1..Len(q) : s[i + 1].to # s[1].to
        BY <1>3, <2>1 DEF DestOnce
  <2> QED BY <1>3, <2>2 DEF Dests
<1>7. Dests(s) \ {s[1].to} \subseteq Dests(q)
  <2> SUFFICES ASSUME NEW i \in 1..Len(s), s[i].to # s[1].to PROVE s[i].to \in Dests(q)
      BY DEF Dests
  <2>1. i - 1 \in 1..Len(q) /\ (i - 1) + 1 = i
        BY <1>4
  <2>2. s[i] = q[i - 1]
        BY <1>3, <2>1
  <2> QED BY <2>1, <2>2 DEF Dests
<1>8. 1 \in 1..Len(s)
      BY <1>1
<1>9. s[1].to \in Dests(s)
      BY <1>8 DEF Dests
<1> QED BY <1>1, <1>5, <1>6, <1>7, <1>9 DEF q
LEMMA ElemsIsRange ==
    ASSUME NEW S, NEW s \in Seq(S)
    PROVE  DOMAIN s = 1..Len(s) /\ Range(s) = Elems(s) /\ Elems(s) \subseteq S
BY DEF Range, Elems

-----------------------------------------------------------------------------
(* Parts of a step *)

\* At most one file is replaced.
LEMMA FileSet ==
    ASSUME FilesTyped, NEW f, f.st \in {"none", "ok", "bad"},
           file' = [k \in Keys |-> file'[k]], \A k \in Keys : file'[k] = file[k] \/ file'[k] = f
    PROVE  FilesTyped'
BY DEF FilesTyped

\* A call gets a status and an answer.
LEMMA CallSet ==
    ASSUME CallsTyped, NEW c \in Calls, NEW st \in Statuses, NEW res,
           call' = [call EXCEPT ![c].st = st, ![c].res = res]
    PROVE  CallsTyped' /\ call'[c].st = st /\ \A b \in Calls \ {c} : call'[b] = call[b]
<1> DEFINE r == [call[c] EXCEPT !.st = st, !.res = res]
<1>1. call' = [b \in Calls |-> call'[b]] /\ call'[c] = r /\ \A b \in Calls \ {c} : call'[b] = call[b]
      BY DEF CallsTyped
<1>2. r.st = st /\ r.res = res /\ r.op = call[c].op /\ r \in CallRecords(call[c].op, res)
  <2>1. call[c] \in CallRecords(call[c].op, call[c].res)
        BY DEF CallsTyped
  <2> QED BY <2>1 DEF CallRecords
<1> HIDE DEF r
<1> QED BY <1>1, <1>2 DEF CallsTyped

\* A call is replaced.
LEMMA CallNew ==
    ASSUME CallsTyped, NEW c \in Calls, NEW r, r \in CallRecords(r.op, r.res),
           call' = [call EXCEPT ![c] = r]
    PROVE  CallsTyped' /\ call'[c].st = r.st /\ \A b \in Calls \ {c} : call'[b] = call[b]
<1>1. call' = [b \in Calls |-> call'[b]] /\ call'[c] = r /\ \A b \in Calls \ {c} : call'[b] = call[b]
      BY DEF CallsTyped
<1> QED BY <1>1 DEF CallsTyped

LEMMA EndedTyped ==
    ASSUME NEW st \in Statuses
    PROVE  LET r == [NoCall EXCEPT !.st = st] IN r \in CallRecords(r.op, r.res) /\ r.st = st
BY DEF NoCall, CallRecords

\* The proxy settles ready: those who waited are sent or fail.
LEMMA WokenSound ==
    ASSUME StoreInv, NEW ok \in BOOLEAN, call' = Woken(ok), proxy' = Settled(ok)
    PROVE  /\ CallsTyped' /\ ProxyTyped'
           /\ proxy'.ready = (IF ok THEN "resolved" ELSE "rejected") /\ proxy'.waiters = <<>>
           /\ \A c \in Calls : IF c \notin Elems(proxy.waiters) THEN call'[c].st = call[c].st
                               ELSE call'[c].st = IF ok THEN "sent" ELSE "err"
<1>1. Range(proxy.waiters) = Elems(proxy.waiters)
      BY ElemsIsRange DEF StoreInv, ProxyTyped
<1>2. \A c \in Calls : call'[c] = IF c \notin Elems(proxy.waiters) THEN call[c]
                                  ELSE IF ok THEN [call[c] EXCEPT !.st = "sent"] ELSE [NoCall EXCEPT !.st = "err"]
      BY <1>1 DEF Woken
<1>3. call' = [c \in Calls |-> call'[c]]
      BY DEF Woken
<1>4. \A c \in Calls : /\ call'[c] \in CallRecords(call'[c].op, call'[c].res)
                       /\ IF c \notin Elems(proxy.waiters) THEN call'[c].st = call[c].st
                          ELSE call'[c].st = IF ok THEN "sent" ELSE "err"
  <2> SUFFICES ASSUME NEW c \in Calls
               PROVE  /\ call'[c] \in CallRecords(call'[c].op, call'[c].res)
                      /\ IF c \notin Elems(proxy.waiters) THEN call'[c].st = call[c].st
                         ELSE call'[c].st = IF ok THEN "sent" ELSE "err"
      OBVIOUS
  <2>1. call[c] \in CallRecords(call[c].op, call[c].res)
        BY DEF StoreInv, CallsTyped
  <2>2. CASE c \notin Elems(proxy.waiters)
        BY <1>2, <2>1, <2>2
  <2>3. CASE c \in Elems(proxy.waiters) /\ ok
    <3> DEFINE r == [call[c] EXCEPT !.st = "sent"]
    <3>1. call'[c] = r
          BY <1>2, <2>3
    <3>2. r.st = "sent" /\ r \in CallRecords(r.op, r.res)
          BY <2>1 DEF CallRecords, Statuses, Sent
    <3> HIDE DEF r
    <3> QED BY <2>3, <3>1, <3>2
  <2>4. CASE c \in Elems(proxy.waiters) /\ ~ok
    <3> DEFINE r == [NoCall EXCEPT !.st = "err"]
    <3>1. call'[c] = r
          BY <1>2, <2>4
    <3>2. r.st = "err" /\ r \in CallRecords(r.op, r.res)
          BY EndedTyped DEF Statuses, Over
    <3> HIDE DEF r
    <3> QED BY <2>4, <3>1, <3>2
  <2> QED BY <2>2, <2>3, <2>4
<1>5. /\ ProxyTyped' /\ proxy'.ready = (IF ok THEN "resolved" ELSE "rejected") /\ proxy'.waiters = <<>>
      BY DEF Settled, ProxyTyped
<1> QED BY <1>3, <1>4, <1>5 DEF CallsTyped

\* The worker answers the request it serves.
LEMMA ReplySound ==
    ASSUME StoreInv, wk.queue # <<>>, NEW ok \in BOOLEAN
    PROVE  LET w == Reply(wk, ok)
               h == Head(wk.queue) IN
           /\ w \in WorkerRecords(wk.conn) /\ w.up = wk.up /\ w.key = wk.key /\ w.conn = wk.conn
           /\ w.stage = "idle" /\ h \in Names /\ h \in Elems(wk.queue)
           /\ Once(w.queue) /\ DestOnce(w.out) /\ Elems(w.queue) \cap Dests(w.out) = {}
           /\ Elems(w.queue) = Elems(wk.queue) \ {h} /\ Dests(w.out) = Dests(wk.out) \cup {h}
<1> DEFINE h == Head(wk.queue)
           q == Tail(wk.queue)
           a == [to |-> h, ok |-> ok]
           o == Append(wk.out, a)
           w == [wk EXCEPT !.stage = "idle", !.queue = q, !.out = o]
<1>1. /\ wk \in WorkerRecords(wk.conn) /\ wk.queue \in Seq(Names) /\ wk.out \in Seq(Answers)
      /\ Once(wk.queue) /\ DestOnce(wk.out) /\ Elems(wk.queue) \cap Dests(wk.out) = {}
      BY DEF StoreInv, WorkerSound, WorkerRecords
<1>2. /\ q \in Seq(Names) /\ h \in Names /\ h \in Elems(wk.queue)
      /\ Once(q) /\ Elems(q) = Elems(wk.queue) \ {h}
      BY <1>1, TailOnce
<1>3. Reply(wk, ok) = w
      BY DEF Reply
<1> HIDE DEF h, q
<1>4. a \in Answers /\ a.to = h
      BY <1>2 DEF Answers
<1> HIDE DEF a
<1>5. o \in Seq(Answers) /\ DestOnce(o) /\ Dests(o) = Dests(wk.out) \cup {h}
  <2>1. a.to \notin Dests(wk.out)
        BY <1>1, <1>2, <1>4
  <2> QED BY <1>1, <1>4, <2>1, AppendDest
<1> HIDE DEF o
<1>6. /\ w \in WorkerRecords(wk.conn) /\ w.up = wk.up /\ w.key = wk.key /\ w.conn = wk.conn
      /\ w.stage = "idle" /\ w.queue = q /\ w.out = o
      BY <1>1, <1>2, <1>5 DEF WorkerRecords
<1> HIDE DEF w
<1> QED BY <1>1, <1>2, <1>3, <1>5, <1>6 DEF h

LEMMA StoreInitial == Init => StoreInv
<1> SUFFICES ASSUME Init PROVE StoreInv
    OBVIOUS
<1>1. FilesTyped
      BY DEF Init, FilesTyped, NoFile
<1>2. ProxyTyped /\ proxy.waiters = <<>> /\ proxy.ready = "pending"
  <2>1. /\ proxy \in [opened : BOOLEAN, ready : {"pending", "resolved", "rejected"}, waiters : Seq(Calls)]
        /\ proxy.waiters = <<>> /\ proxy.ready = "pending" /\ proxy.opened = FALSE
        BY DEF Init, NewProxy
  <2> QED BY <2>1 DEF ProxyTyped
<1>3. /\ wk \in WorkerRecords(wk.conn) /\ wk.up = FALSE /\ wk.queue = <<>> /\ wk.out = <<>> /\ wk.stage = "idle"
      BY DEF Init, NoWorker, WorkerRecords
<1>4. CallsTyped /\ \A c \in Calls : call[c].st = "idle"
  <2>1. NoCall \in CallRecords(NoCall.op, NoCall.res) /\ NoCall.st = "idle"
        BY DEF NoCall, CallRecords, Statuses, Over
  <2> QED BY <2>1 DEF Init, CallsTyped
<1>5. WorkerSound
      BY <1>2, <1>3, EmptyOnce DEF WorkerSound, InitStages
<1>6. CallsSound
      BY <1>2, <1>3, <1>4, EmptyOnce DEF CallsSound, Waiting, Sent, Served
<1> QED BY <1>1, <1>2, <1>3, <1>4, <1>5, <1>6 DEF StoreInv
-----------------------------------------------------------------------------
(* The proxy *)

\* The queue is empty, and so is the list of answers: no call is sent.
LEMMA OpenStoreKeeps == ASSUME StoreInv, NEW k \in Keys, OpenStore(k) PROVE StoreInv'
<1> DEFINE w == [NoWorker EXCEPT !.up = TRUE, !.key = k, !.queue = <<"INIT">>]
<1>1. ~wk.up /\ wk' = w /\ file' = file /\ proxy' = proxy /\ call' = call
      BY DEF OpenStore
<1>2. /\ w \in WorkerRecords(w.conn) /\ w.up = TRUE /\ w.queue = <<"INIT">> /\ w.out = <<>> /\ w.stage = "idle"
  <2>1. <<"INIT">> \in Seq(Names) /\ <<>> \in Seq(Answers)
        BY DEF Names
  <2> QED BY <2>1 DEF NoWorker, WorkerRecords
<1> HIDE DEF w
<1>3. Elems(<<"INIT">>) = {"INIT"} /\ Once(<<"INIT">>)
      BY DEF Elems, Once
<1>4. proxy.ready = "pending" /\ wk.queue = <<>> /\ wk.out = <<>>
      BY <1>1 DEF StoreInv, WorkerSound
<1>5. WorkerSound'
      BY <1>1, <1>2, <1>3, <1>4, EmptyOnce DEF WorkerSound, InitStages
<1>6. CallsSound'
  <2>1. CallsSound /\ Elems(wk.queue) = {} /\ Dests(wk.out) = {}
        BY <1>4, EmptyOnce DEF StoreInv
  <2>2. Elems(wk'.queue) = {"INIT"} /\ Dests(wk'.out) = {}
        BY <1>1, <1>2, <1>3, EmptyOnce
  <2> QED BY <1>1, <2>1, <2>2, InitAssumption DEF CallsSound
<1> QED BY <1>1, <1>2, <1>5, <1>6 DEF StoreInv, FilesTyped, ProxyTyped, CallsTyped

LEMMA CallStoreKeeps ==
    ASSUME StoreInv, NEW c \in Calls, NEW o, CallStore(c, o) PROVE StoreInv'
<1>0. /\ CallsTyped /\ ProxyTyped /\ WorkerSound /\ CallsSound /\ wk \in WorkerRecords(wk.conn)
      /\ proxy.waiters \in Seq(Calls) /\ wk.queue \in Seq(Names)
      BY DEF StoreInv, ProxyTyped, WorkerRecords
<1>1. file' = file /\ call[c].st \in Over
      BY DEF CallStore, Over
<1>2. c \notin Elems(proxy.waiters) /\ c \notin Elems(wk.queue) /\ c \notin Dests(wk.out)
      BY <1>0, <1>1 DEF CallsSound, Waiting, Sent, Served, Over
<1>3. \A st \in {"waiting", "sent"} :
          LET r == [st |-> st, op |-> o, res |-> <<>>] IN r \in CallRecords(r.op, r.res) /\ r.st = st
      BY DEF CallRecords, Statuses, Waiting, Sent
<1>4. CASE /\ proxy.ready = "pending" /\ wk' = wk
           /\ proxy' = [proxy EXCEPT !.waiters = Append(@, c)]
           /\ call' = [call EXCEPT ![c] = [st |-> "waiting", op |-> o, res |-> <<>>]]
  <2>1. CallsTyped' /\ call'[c].st = "waiting" /\ \A b \in Calls \ {c} : call'[b] = call[b]
        BY <1>0, <1>3, <1>4, CallNew
  <2> DEFINE q == Append(proxy.waiters, c)
  <2>2. q \in Seq(Calls) /\ Once(q) /\ Elems(q) = Elems(proxy.waiters) \cup {c}
        BY <1>0, <1>2, AppendOnce DEF CallsSound
  <2> HIDE DEF q
  <2>3. /\ proxy' \in [opened : BOOLEAN, ready : {"pending", "resolved", "rejected"}, waiters : Seq(Calls)]
        /\ proxy'.opened = proxy.opened /\ proxy'.ready = proxy.ready /\ proxy'.waiters = q
        BY <1>0, <1>4, <2>2 DEF ProxyTyped, q
  <2>4. ProxyTyped'
        BY <1>0, <2>3 DEF ProxyTyped
  <2>5. WorkerSound'
        BY <1>0, <1>4, <2>3 DEF WorkerSound
  <2>6. CallsSound'
        BY <1>0, <1>2, <1>4, <2>1, <2>2, <2>3 DEF CallsSound, Waiting, Sent, Served
  <2> QED BY <1>0, <1>1, <1>4, <2>1, <2>4, <2>5, <2>6 DEF StoreInv, FilesTyped
<1>5. CASE /\ proxy.ready = "resolved" /\ proxy' = proxy
           /\ wk' = [wk EXCEPT !.queue = Append(@, c)]
           /\ call' = [call EXCEPT ![c] = [st |-> "sent", op |-> o, res |-> <<>>]]
  <2>1. CallsTyped' /\ call'[c].st = "sent" /\ \A b \in Calls \ {c} : call'[b] = call[b]
        BY <1>0, <1>3, <1>5, CallNew
  <2> DEFINE q == Append(wk.queue, c)
  <2>2. /\ q \in Seq(Names) /\ Once(q) /\ Elems(q) = Elems(wk.queue) \cup {c}
        /\ q # <<>> /\ (wk.queue # <<>> => Head(q) = Head(wk.queue))
        BY <1>0, <1>2, AppendOnce DEF WorkerSound, Names
  <2> HIDE DEF q
  <2>3. /\ wk' \in WorkerRecords(wk.conn) /\ wk'.conn = wk.conn /\ wk'.up = wk.up
        /\ wk'.stage = wk.stage /\ wk'.queue = q /\ wk'.out = wk.out
        BY <1>0, <1>5, <2>2 DEF WorkerRecords, q
  <2>4. WorkerSound'
        BY <1>0, <1>2, <1>5, <2>2, <2>3, InitAssumption DEF WorkerSound
  <2>5. CallsSound'
        BY <1>0, <1>2, <1>5, <2>1, <2>2, <2>3 DEF CallsSound, Waiting, Sent, Served
  <2> QED BY <1>0, <1>1, <1>5, <2>1, <2>3, <2>4, <2>5 DEF StoreInv, FilesTyped, ProxyTyped
<1> QED BY <1>4, <1>5 DEF CallStore

\* The answer to INIT settles ready; any other one ends its call.
LEMMA DeliverKeeps == ASSUME StoreInv, Deliver PROVE StoreInv'
<1> DEFINE r == Head(wk.out)
           o == Tail(wk.out)
           rest == [wk EXCEPT !.out = o]
<1>0. /\ CallsTyped /\ ProxyTyped /\ WorkerSound /\ CallsSound /\ wk \in WorkerRecords(wk.conn)
      /\ proxy.waiters \in Seq(Calls) /\ wk.queue \in Seq(Names) /\ wk.out \in Seq(Answers)
      BY DEF StoreInv, ProxyTyped, WorkerRecords
<1>1. file' = file /\ wk.up /\ wk.out # <<>>
      BY DEF Deliver
<1>2. /\ o \in Seq(Answers) /\ r \in Answers /\ r.to \in Dests(wk.out)
      /\ DestOnce(o) /\ Dests(o) = Dests(wk.out) \ {r.to}
      BY <1>0, <1>1, TailDest DEF WorkerSound
<1>3. r.to \in Names /\ r.ok \in BOOLEAN /\ r.to \notin Elems(wk.queue)
      BY <1>0, <1>2 DEF Answers, WorkerSound
<1>4. \/ /\ r.to = "INIT" /\ proxy' = Settled(r.ok) /\ call' = Woken(r.ok)
         /\ wk' = IF r.ok THEN [rest EXCEPT !.queue = @ \o proxy.waiters] ELSE rest
      \/ /\ r.to # "INIT" /\ wk' = rest /\ proxy' = proxy
         /\ call' = [call EXCEPT ![r.to] = [NoCall EXCEPT !.st = IF r.ok THEN "idle" ELSE "err"]]
      BY DEF Deliver
<1> HIDE DEF r, o
<1>5. /\ rest \in WorkerRecords(wk.conn) /\ rest.conn = wk.conn /\ rest.up = wk.up
      /\ rest.stage = wk.stage /\ rest.queue = wk.queue /\ rest.out = o
      BY <1>0, <1>2 DEF WorkerRecords
<1> HIDE DEF rest
<1>6. CASE /\ r.to = "INIT" /\ proxy' = Settled(r.ok) /\ call' = Woken(r.ok)
           /\ wk' = IF r.ok THEN [rest EXCEPT !.queue = @ \o proxy.waiters] ELSE rest
  <2>1. /\ CallsTyped' /\ ProxyTyped'
        /\ proxy'.ready = (IF r.ok THEN "resolved" ELSE "rejected") /\ proxy'.waiters = <<>>
        /\ \A c \in Calls : IF c \notin Elems(proxy.waiters) THEN call'[c].st = call[c].st
                            ELSE call'[c].st = IF r.ok THEN "sent" ELSE "err"
        BY <1>3, <1>6, WokenSound
  <2>2. "INIT" \notin Elems(wk.queue) /\ wk.stage \notin InitStages
    <3>1. "INIT" \notin Elems(wk.queue)
          BY <1>3, <1>6
    <3>2. wk.queue # <<>> => Head(wk.queue) \in Elems(wk.queue)
          BY <1>0, TailOnce DEF WorkerSound
    <3> QED BY <1>0, <3>1, <3>2 DEF WorkerSound
  <2>3. Elems(proxy.waiters) \subseteq Calls
        BY <1>0, ElemsIsRange
  <2>4. \A c \in Elems(proxy.waiters) : c \notin Elems(wk.queue) /\ c \notin Dests(wk.out)
        BY <1>0, <2>3 DEF CallsSound, Waiting, Sent, Served
  <2>5. CASE r.ok
    <3> DEFINE q == wk.queue \o proxy.waiters
    <3>1. proxy.waiters \in Seq(Names)
          BY <1>0 DEF Names
    <3>2. /\ q \in Seq(Names) /\ Once(q) /\ Elems(q) = Elems(wk.queue) \cup Elems(proxy.waiters)
          /\ wk.queue # <<>> => q # <<>> /\ Head(q) = Head(wk.queue)
      <4>1. Once(wk.queue) /\ Once(proxy.waiters) /\ Elems(wk.queue) \cap Elems(proxy.waiters) = {}
            BY <1>0, <2>4 DEF WorkerSound, CallsSound
      <4> QED BY <1>0, <3>1, <4>1, ConcatOnce
    <3>3. wk' = [rest EXCEPT !.queue = q]
          BY <1>5, <1>6, <2>5
    <3> HIDE DEF q
    <3>4. /\ wk' \in WorkerRecords(wk.conn) /\ wk'.conn = wk.conn /\ wk'.up = wk.up
          /\ wk'.stage = wk.stage /\ wk'.queue = q /\ wk'.out = o
          BY <1>5, <3>2, <3>3 DEF WorkerRecords
    <3>5. proxy'.ready = "resolved"
          BY <2>1, <2>5
    <3>6. WorkerSound'
      <4>1. Elems(wk'.queue) \cap Dests(wk'.out) = {} /\ "INIT" \notin Elems(wk'.queue) \cup Dests(wk'.out)
            BY <1>0, <1>2, <1>6, <2>2, <2>3, <2>4, <3>2, <3>4, InitAssumption DEF WorkerSound
      <4> QED BY <1>0, <1>1, <1>2, <2>2, <3>2, <3>4, <3>5, <4>1 DEF WorkerSound
    <3>7. CallsSound'
      <4>1. \A c \in Calls : c \in Dests(o) <=> c \in Dests(wk.out)
            BY <1>2, <1>6, InitAssumption
      <4>2. \A c \in Calls : IF c \notin Elems(proxy.waiters) THEN call'[c].st = call[c].st
                             ELSE call'[c].st = "sent"
            BY <2>1, <2>5
      <4> QED BY <1>0, <2>1, <2>4, <3>2, <3>4, <4>1, <4>2, EmptyOnce DEF CallsSound, Waiting, Sent, Served
    <3> QED BY <1>1, <2>1, <3>4, <3>6, <3>7 DEF StoreInv, FilesTyped
  <2>6. CASE ~r.ok
    <3>1. wk' = rest /\ proxy'.ready = "rejected"
          BY <1>6, <2>1, <2>6
    <3>2. WorkerSound'
      <4>1. Elems(wk'.queue) \cap Dests(wk'.out) = {} /\ "INIT" \notin Elems(wk'.queue) \cup Dests(wk'.out)
            BY <1>0, <1>2, <1>5, <1>6, <2>2, <3>1 DEF WorkerSound
      <4> QED BY <1>0, <1>1, <1>2, <1>5, <2>2, <3>1, <4>1 DEF WorkerSound
    <3>3. CallsSound'
      <4>1. \A c \in Calls : c \in Dests(o) <=> c \in Dests(wk.out)
            BY <1>2, <1>6, InitAssumption
      <4>2. \A c \in Calls : IF c \notin Elems(proxy.waiters) THEN call'[c].st = call[c].st
                             ELSE call'[c].st = "err"
            BY <2>1, <2>6
      <4> QED BY <1>0, <1>5, <2>1, <2>4, <3>1, <4>1, <4>2, EmptyOnce DEF CallsSound, Waiting, Sent, Served
    <3> QED BY <1>1, <1>5, <2>1, <3>1, <3>2, <3>3 DEF StoreInv, FilesTyped
  <2> QED BY <1>3, <2>5, <2>6
<1>7. CASE /\ r.to # "INIT" /\ wk' = rest /\ proxy' = proxy
           /\ call' = [call EXCEPT ![r.to] = [NoCall EXCEPT !.st = IF r.ok THEN "idle" ELSE "err"]]
  <2> DEFINE st == IF r.ok THEN "idle" ELSE "err"
             x == [NoCall EXCEPT !.st = st]
  <2>1. r.to \in Calls /\ st \in Over
        BY <1>3, <1>7 DEF Names, Over
  <2> HIDE DEF st
  <2>2. x \in CallRecords(x.op, x.res) /\ x.st = st
        BY <2>1, EndedTyped DEF Statuses
  <2>3. call' = [call EXCEPT ![r.to] = x]
        BY <1>7 DEF st
  <2> HIDE DEF x
  <2>4. CallsTyped' /\ call'[r.to].st = st /\ \A b \in Calls \ {r.to} : call'[b] = call[b]
        BY <1>0, <2>1, <2>2, <2>3, CallNew
  <2>5. WorkerSound'
    <3>1. "INIT" \in Dests(o) <=> "INIT" \in Dests(wk.out)
          BY <1>2, <1>7
    <3> QED BY <1>0, <1>1, <1>2, <1>5, <1>7, <3>1 DEF WorkerSound
  <2>6. r.to \notin Elems(proxy.waiters)
        BY <1>0, <1>2, <2>1 DEF CallsSound, Waiting, Served
  <2>7. CallsSound'
        BY <1>0, <1>2, <1>3, <1>5, <1>7, <2>1, <2>4, <2>6 DEF CallsSound, Waiting, Sent, Served, Over
  <2> QED BY <1>0, <1>1, <1>5, <1>7, <2>4, <2>5, <2>7 DEF StoreInv, FilesTyped, ProxyTyped
<1> QED BY <1>4, <1>6, <1>7
LEMMA WorkerErrorKeeps == ASSUME StoreInv, WorkerError PROVE StoreInv'
<1>0. /\ CallsTyped /\ ProxyTyped /\ WorkerSound /\ CallsSound /\ wk \in WorkerRecords(wk.conn)
      /\ proxy.waiters \in Seq(Calls)
      BY DEF StoreInv, ProxyTyped
<1>1. /\ file' = file /\ wk.up /\ wk.stage = "idle" /\ wk.queue = <<"INIT">>
      /\ proxy' = Settled(FALSE) /\ call' = Woken(FALSE) /\ wk' = [wk EXCEPT !.queue = <<>>]
      BY DEF WorkerError
<1>2. /\ CallsTyped' /\ ProxyTyped' /\ proxy'.ready = "rejected" /\ proxy'.waiters = <<>>
      /\ \A c \in Calls : IF c \notin Elems(proxy.waiters) THEN call'[c].st = call[c].st ELSE call'[c].st = "err"
      BY <1>1, WokenSound
<1>3. /\ wk' \in WorkerRecords(wk.conn) /\ wk'.conn = wk.conn /\ wk'.up = wk.up
      /\ wk'.stage = wk.stage /\ wk'.queue = <<>> /\ wk'.out = wk.out
  <2>1. wk' = [wk EXCEPT !.queue = <<>>] /\ <<>> \in Seq(Names)
        BY <1>1
  <2> QED BY <1>0, <2>1 DEF WorkerRecords
<1>4. Elems(wk.queue) = {"INIT"}
      BY <1>1 DEF Elems
<1>5. WorkerSound'
      BY <1>0, <1>1, <1>2, <1>3, <1>4, EmptyOnce DEF WorkerSound, InitStages
<1>6. CallsSound'
  <2>1. Elems(proxy.waiters) \subseteq Calls
        BY <1>0, ElemsIsRange
  <2>2. \A c \in Elems(proxy.waiters) : c \notin Elems(wk.queue) /\ c \notin Dests(wk.out)
        BY <1>0, <2>1 DEF CallsSound, Waiting, Sent, Served
  <2>3. \A c \in Calls : c \notin Elems(wk.queue)
        BY <1>4, InitAssumption
  <2> QED BY <1>0, <1>2, <1>3, <2>2, <2>3, EmptyOnce DEF CallsSound, Waiting, Sent, Served
<1> QED BY <1>1, <1>2, <1>3, <1>5, <1>6 DEF StoreInv, FilesTyped

-----------------------------------------------------------------------------
(* The worker *)

\* The queue and the answers stay.
LEMMA StageKeeps ==
    ASSUME StoreInv, NEW d, wk' \in WorkerRecords(d), wk'.queue = wk.queue, wk'.out = wk.out, wk'.up = wk.up,
           wk'.stage \in InitStages => wk.queue # <<>> /\ Head(wk.queue) = "INIT",
           wk'.stage = "writing" => wk.queue # <<>> /\ Head(wk.queue) \in Calls,
           ~wk.up => wk'.stage = "idle",
           proxy' = proxy, call' = call, FilesTyped'
    PROVE  StoreInv'
<1>1. wk'.conn = d
      BY DEF WorkerRecords
<1>2. WorkerSound'
      BY DEF StoreInv, WorkerSound
<1>3. CallsSound'
      BY DEF StoreInv, CallsSound
<1> QED BY <1>1, <1>2, <1>3 DEF StoreInv, ProxyTyped, CallsTyped

\* INIT is answered.
LEMMA InitReplyKeeps ==
    ASSUME StoreInv, wk.stage \in InitStages, NEW ok \in BOOLEAN, wk' = Reply(wk, ok),
           proxy' = proxy, call' = call, FilesTyped'
    PROVE  StoreInv'
<1> DEFINE w == Reply(wk, ok)
<1>1. wk.queue # <<>> /\ Head(wk.queue) = "INIT" /\ wk.up
      BY DEF StoreInv, WorkerSound, InitStages
<1>2. /\ w \in WorkerRecords(wk.conn) /\ w.up = wk.up /\ w.conn = wk.conn
      /\ w.stage = "idle" /\ "INIT" \in Elems(wk.queue)
      /\ Once(w.queue) /\ DestOnce(w.out) /\ Elems(w.queue) \cap Dests(w.out) = {}
      /\ Elems(w.queue) = Elems(wk.queue) \ {"INIT"} /\ Dests(w.out) = Dests(wk.out) \cup {"INIT"}
      BY <1>1, ReplySound
<1>3. wk' = w
      OBVIOUS
<1> HIDE DEF w
<1>4. WorkerSound'
      BY <1>1, <1>2, <1>3 DEF StoreInv, WorkerSound, InitStages
<1>5. CallsSound'
      BY <1>2, <1>3, InitAssumption DEF StoreInv, CallsSound
<1> QED BY <1>2, <1>3, <1>4, <1>5 DEF StoreInv, ProxyTyped, CallsTyped

\* A call is answered.
LEMMA CallReplyKeeps ==
    ASSUME StoreInv, NEW c \in Calls, wk.up, wk.queue # <<>>, Head(wk.queue) = c,
           NEW w, NEW d, w \in WorkerRecords(d), wk' = w, NEW ok \in BOOLEAN,
           w.queue = Reply(wk, ok).queue, w.out = Reply(wk, ok).out, w.up = wk.up, w.stage = "idle",
           NEW st \in Served, NEW res, call' = [call EXCEPT ![c].st = st, ![c].res = res],
           proxy' = proxy, FilesTyped'
    PROVE  StoreInv'
<1>1. /\ Once(w.queue) /\ DestOnce(w.out) /\ Elems(w.queue) \cap Dests(w.out) = {} /\ c \in Elems(wk.queue)
      /\ Elems(w.queue) = Elems(wk.queue) \ {c} /\ Dests(w.out) = Dests(wk.out) \cup {c}
      BY ReplySound
<1>2. CallsTyped' /\ call'[c].st = st /\ \A b \in Calls \ {c} : call'[b] = call[b]
  <2>1. st \in Statuses
        BY DEF Statuses
  <2> QED BY <2>1, CallSet DEF StoreInv
<1>3. w.conn = d
      BY DEF WorkerRecords
<1>4. WorkerSound'
  <2>1. "INIT" \in Elems(w.queue) \cup Dests(w.out) <=> "INIT" \in Elems(wk.queue) \cup Dests(wk.out)
        BY <1>1, InitAssumption
  <2> QED BY <1>1, <2>1 DEF StoreInv, WorkerSound, InitStages
<1>5. c \notin Elems(proxy.waiters)
      BY <1>1 DEF StoreInv, CallsSound, Waiting, Sent
<1>6. CallsSound'
      BY <1>1, <1>2, <1>5 DEF StoreInv, CallsSound, Waiting, Sent, Served
<1> QED BY <1>2, <1>3, <1>4, <1>6 DEF StoreInv, ProxyTyped

LEMMA SavedTyped == (\A d : Saved(d).st \in {"none", "ok", "bad"}) /\ NoFile.st \in {"none", "ok", "bad"}
BY DEF Saved, NoFile

LEMMA InitKeeps ==
    ASSUME StoreInv, StartInit \/ InitLoad \/ InitOpen \/ InitRead \/ InitReopen \/ InitReread \/ InitSchema
    PROVE  StoreInv'
<1>0. FilesTyped /\ WorkerSound /\ wk \in WorkerRecords(wk.conn)
      BY DEF StoreInv
<1>00. UNCHANGED file => FilesTyped'
      BY <1>0 DEF FilesTyped
<1>1. wk.stage \in InitStages => wk.up /\ wk.queue # <<>> /\ Head(wk.queue) = "INIT"
      BY <1>0 DEF WorkerSound, InitStages
<1>2. ASSUME NEW st \in InitStages
      PROVE  LET w == [wk EXCEPT !.stage = st] IN
             w \in WorkerRecords(wk.conn) /\ w.queue = wk.queue /\ w.out = wk.out /\ w.up = wk.up /\ w.stage = st
      BY <1>0 DEF WorkerRecords
<1>3. CASE StartInit
  <2>1. wk' = [wk EXCEPT !.stage = "loading"] /\ "loading" \in InitStages
        BY <1>3 DEF StartInit, InitStages
  <2>2. wk.up /\ wk.queue # <<>> /\ Head(wk.queue) = "INIT" /\ UNCHANGED <<file, proxy, call>>
        BY <1>3 DEF StartInit, Serving
  <2>3. wk' \in WorkerRecords(wk.conn) /\ wk'.queue = wk.queue /\ wk'.out = wk.out /\ wk'.up = wk.up /\ wk'.stage = "loading"
        BY <1>2, <2>1
  <2> QED BY <1>00, <2>2, <2>3, StageKeeps
<1>4. CASE InitLoad
  <2>1. wk.stage \in InitStages /\ UNCHANGED <<file, proxy, call>>
        BY <1>4 DEF InitLoad, InitStages
  <2>2. CASE wk' = [wk EXCEPT !.stage = "opening"]
    <3>1. "opening" \in InitStages
          BY DEF InitStages
    <3>2. wk' \in WorkerRecords(wk.conn) /\ wk'.queue = wk.queue /\ wk'.out = wk.out /\ wk'.up = wk.up /\ wk'.stage = "opening"
          BY <1>2, <2>2, <3>1
    <3> QED BY <1>00, <1>1, <2>1, <3>2, StageKeeps
  <2>3. CASE wk' = Reply(wk, FALSE)
        BY <1>00, <2>1, <2>3, InitReplyKeeps
  <2> QED BY <1>4, <2>2, <2>3 DEF InitLoad
<1>5. ASSUME NEW stage \in InitStages, NEW d, NEW p \in BOOLEAN, NEW b \in BOOLEAN
      PROVE  LET w == [wk EXCEPT !.db = b, !.persistent = p, !.conn = d, !.stage = stage] IN
             w \in WorkerRecords(d) /\ w.queue = wk.queue /\ w.out = wk.out /\ w.up = wk.up /\ w.stage = stage
      BY <1>0 DEF WorkerRecords
<1>6. ASSUME NEW stage \in InitStages, NEW d, wk.stage \in InitStages, UNCHANGED <<file, proxy, call>>,
             wk' \in OpenDb(stage, d)
      PROVE  StoreInv'
  <2>1. CASE wk' = [wk EXCEPT !.db = TRUE, !.persistent = TRUE, !.conn = d, !.stage = stage]
    <3>1. wk' \in WorkerRecords(d) /\ wk'.queue = wk.queue /\ wk'.out = wk.out /\ wk'.up = wk.up /\ wk'.stage = stage
          BY <1>5, <2>1
    <3> QED BY <1>00, <1>1, <1>6, <3>1, StageKeeps DEF InitStages
  <2>2. CASE wk' = [wk EXCEPT !.db = TRUE, !.persistent = FALSE, !.conn = EmptyDb, !.stage = "schema"]
    <3>0. "schema" \in InitStages
          BY DEF InitStages
    <3>1. wk' \in WorkerRecords(EmptyDb) /\ wk'.queue = wk.queue /\ wk'.out = wk.out /\ wk'.up = wk.up /\ wk'.stage = "schema"
          BY <1>5, <2>2, <3>0
    <3> QED BY <1>00, <1>1, <1>6, <3>1, StageKeeps
  <2> QED BY <1>6, <2>1, <2>2 DEF OpenDb
<1>7. CASE InitOpen
      BY <1>6, <1>7 DEF InitOpen, InitStages
<1>8. CASE InitReopen
      BY <1>6, <1>8 DEF InitReopen, InitStages
<1>9. CASE InitRead
  <2>0. wk.stage \in InitStages /\ UNCHANGED <<proxy, call>> /\ "schema" \in InitStages /\ "reopening" \in InitStages
        BY <1>9 DEF InitRead, InitStages
  <2>1. CASE wk' = [wk EXCEPT !.stage = "schema"] /\ UNCHANGED file
    <3>1. wk' \in WorkerRecords(wk.conn) /\ wk'.queue = wk.queue /\ wk'.out = wk.out /\ wk'.up = wk.up /\ wk'.stage = "schema"
          BY <1>2, <2>0, <2>1
    <3> QED BY <1>00, <1>1, <2>0, <2>1, <3>1, StageKeeps
  <2>2. CASE /\ wk' = [wk EXCEPT !.stage = "reopening", !.db = FALSE, !.conn = EmptyDb]
             /\ file' \in {file, [file EXCEPT ![wk.key] = NoFile]}
    <3>1. wk' \in WorkerRecords(EmptyDb) /\ wk'.queue = wk.queue /\ wk'.out = wk.out /\ wk'.up = wk.up /\ wk'.stage = "reopening"
          BY <1>0, <2>0, <2>2 DEF WorkerRecords
    <3>2. FilesTyped'
      <4>1. file' = [k \in Keys |-> file'[k]] /\ \A k \in Keys : file'[k] = file[k] \/ file'[k] = NoFile
            BY <1>0, <2>2 DEF FilesTyped
      <4> QED BY <1>0, <4>1, FileSet, SavedTyped
    <3> QED BY <1>1, <2>0, <3>1, <3>2, StageKeeps
  <2> QED BY <1>9, <2>1, <2>2 DEF InitRead
<1>10. CASE InitSchema
  <2>0. wk.stage \in InitStages /\ UNCHANGED <<proxy, call>>
        BY <1>10 DEF InitSchema, InitStages
  <2>1. FilesTyped'
    <3>1. UNCHANGED file \/ file' = [file EXCEPT ![wk.key] = Saved(wk.conn)]
          BY <1>10 DEF InitSchema
    <3>2. /\ file' = [k \in Keys |-> file'[k]]
          /\ \A k \in Keys : file'[k] = file[k] \/ file'[k] = Saved(wk.conn)
          BY <1>0, <3>1 DEF FilesTyped
    <3> QED BY <1>0, <3>2, FileSet, SavedTyped
  <2>2. \E ok \in BOOLEAN : wk' = Reply(wk, ok)
        BY <1>10 DEF InitSchema
  <2> QED BY <2>0, <2>1, <2>2, InitReplyKeeps
<1>11. CASE InitReread
  <2>1. wk.stage \in InitStages /\ UNCHANGED <<file, proxy, call>> /\ "schema" \in InitStages
        BY <1>11 DEF InitReread, InitStages
  <2>2. CASE wk' = [wk EXCEPT !.stage = "schema"]
    <3>1. wk' \in WorkerRecords(wk.conn) /\ wk'.queue = wk.queue /\ wk'.out = wk.out /\ wk'.up = wk.up /\ wk'.stage = "schema"
          BY <1>2, <2>1, <2>2
    <3> QED BY <1>00, <1>1, <2>1, <3>1, StageKeeps
  <2>3. CASE wk' = Reply(wk, FALSE)
        BY <1>00, <2>1, <2>3, InitReplyKeeps
  <2> QED BY <1>11, <2>2, <2>3 DEF InitReread
<1> QED BY <1>3, <1>4, <1>7, <1>8, <1>9, <1>10, <1>11

LEMMA ServeQueryKeeps == ASSUME StoreInv, NEW c \in Calls, ServeQuery(c) PROVE StoreInv'
<1> DEFINE st == IF wk.db THEN "served" ELSE "refused"
           res == IF wk.db THEN Query(wk.conn, call[c].op) ELSE <<>>
           w == Reply(wk, wk.db)
<1>1. /\ wk.up /\ wk.queue # <<>> /\ Head(wk.queue) = c /\ wk' = w /\ file' = file /\ proxy' = proxy
      /\ call' = [call EXCEPT ![c].st = st, ![c].res = res]
      BY DEF ServeQuery, Serving
<1>2. wk.db \in BOOLEAN /\ st \in Served
      BY DEF StoreInv, WorkerRecords, Served
<1>3. w \in WorkerRecords(wk.conn) /\ w.up = wk.up /\ w.stage = "idle"
      BY <1>1, <1>2, ReplySound
<1>4. w.queue = Reply(wk, wk.db).queue /\ w.out = Reply(wk, wk.db).out
      OBVIOUS
<1>5. FilesTyped'
      BY <1>1 DEF StoreInv, FilesTyped
<1> HIDE DEF st, res, w
<1> QED BY <1>1, <1>2, <1>3, <1>4, <1>5, CallReplyKeeps

LEMMA StartWriteKeeps == ASSUME StoreInv, NEW c \in Calls, StartWrite(c) PROVE StoreInv'
<1>1. /\ wk.up /\ wk.queue # <<>> /\ Head(wk.queue) = c /\ wk' = [wk EXCEPT !.stage = "writing"]
      /\ file' = file /\ proxy' = proxy /\ call' = call
      BY DEF StartWrite, Serving
<1>2. /\ wk' \in WorkerRecords(wk.conn) /\ wk'.queue = wk.queue /\ wk'.out = wk.out /\ wk'.up = wk.up
      /\ wk'.stage = "writing"
      BY <1>1 DEF StoreInv, WorkerRecords
<1>3. FilesTyped'
      BY <1>1 DEF StoreInv, FilesTyped
<1> QED BY <1>1, <1>2, <1>3, StageKeeps DEF InitStages

LEMMA FinishWriteKeeps == ASSUME StoreInv, NEW c \in Calls, FinishWrite(c) PROVE StoreInv'
<1> DEFINE stmts == Statements(wk.conn, Op)
<1>1. /\ wk.stage = "writing" /\ c = Head(wk.queue) /\ proxy' = proxy
      BY DEF FinishWrite
<1>2. PICK ok \in BOOLEAN, late \in BOOLEAN :
          LET after == Tx(wk.conn, stmts, ok)
          IN  /\ wk' = [Reply(wk, ok /\ ~late) EXCEPT !.conn = after]
              /\ file' = IF wk.persistent THEN [file EXCEPT ![wk.key] = Saved(after)] ELSE file
              /\ call' = [call EXCEPT
                            ![c].st = IF late THEN "cleared" ELSE IF ok THEN "served" ELSE "refused",
                            ![c].res = IF ok /\ Op.t = "FORK" THEN ids ELSE <<>>]
  <2> DEFINE D == ExecAll(wk.conn, stmts)
             A(ok, late) ==
                LET after == Tx(wk.conn, stmts, ok)
                IN  /\ wk' = [Reply(wk, ok /\ ~late) EXCEPT !.conn = after]
                    /\ file' = IF wk.persistent THEN [file EXCEPT ![wk.key] = Saved(after)] ELSE file
                    /\ call' = [call EXCEPT
                                  ![c].st = IF late THEN "cleared" ELSE IF ok THEN "served" ELSE "refused",
                                  ![c].res = IF ok /\ Op.t = "FORK" THEN ids ELSE <<>>]
  <2>1. \E ok \in IF D = Failed THEN {FALSE} ELSE BOOLEAN :
        \E late \in IF ok /\ Op.t = "CLEAR_ALL" THEN BOOLEAN ELSE {FALSE} : A(ok, late)
        BY DEF FinishWrite
  <2> HIDE DEF A, D
  <2>2. \E ok \in BOOLEAN, late \in BOOLEAN : A(ok, late)
        BY <2>1
  <2> QED BY <2>2 DEF A
<1> DEFINE after == Tx(wk.conn, stmts, ok)
           yes == ok /\ ~late
           v == Reply(wk, yes)
           w == [v EXCEPT !.conn = after]
           st == IF late THEN "cleared" ELSE IF ok THEN "served" ELSE "refused"
           res == IF ok /\ Op.t = "FORK" THEN ids ELSE <<>>
<1>3. /\ wk' = w /\ call' = [call EXCEPT ![c].st = st, ![c].res = res]
      /\ file' = IF wk.persistent THEN [file EXCEPT ![wk.key] = Saved(after)] ELSE file
      BY <1>2
<1>4. st \in Served /\ yes \in BOOLEAN
      BY DEF Served
<1> HIDE DEF after, yes, st, res
<1>5. wk.up /\ wk.queue # <<>>
      BY <1>1 DEF StoreInv, WorkerSound
<1>6. v \in WorkerRecords(wk.conn) /\ v.up = wk.up /\ v.stage = "idle"
      BY <1>4, <1>5, ReplySound
<1> HIDE DEF v
<1>7. /\ w \in WorkerRecords(after) /\ w.up = wk.up /\ w.stage = "idle"
      /\ w.queue = v.queue /\ w.out = v.out
      BY <1>6 DEF WorkerRecords
<1> HIDE DEF w
<1>8. FilesTyped'
  <2>1. FilesTyped
        BY DEF StoreInv
  <2>2. CASE wk.persistent
    <3>1. file' = [file EXCEPT ![wk.key] = Saved(after)]
          BY <1>3, <2>2
    <3>2. /\ file' = [k \in Keys |-> file'[k]]
          /\ \A k \in Keys : file'[k] = file[k] \/ file'[k] = Saved(after)
          BY <2>1, <3>1 DEF FilesTyped
    <3> QED BY <2>1, <3>2, FileSet, SavedTyped
  <2>3. CASE ~wk.persistent
        BY <1>3, <2>1, <2>3 DEF FilesTyped
  <2> QED BY <2>2, <2>3
<1>9. w.queue = Reply(wk, yes).queue /\ w.out = Reply(wk, yes).out
      BY <1>7 DEF v
<1> QED BY <1>1, <1>3, <1>4, <1>5, <1>7, <1>8, <1>9, CallReplyKeeps

\* Everything starts anew, and everything that was pending fails.
LEMMA TerminateKeeps == ASSUME StoreInv, Terminate PROVE StoreInv'
<1>1. FilesTyped'
  <2>0. FilesTyped
        BY DEF StoreInv
  <2>1. CASE wk.stage = "writing" /\ wk.persistent
    <3> DEFINE stmts == Statements(wk.conn, Op)
               torn == {ExecAll(wk.conn, SubSeq(stmts, 1, n)) : n \in 0..Len(stmts)} \ {Failed}
    <3>1. \E f \in {Saved(d) : d \in torn} \union {[st |-> "bad", db |-> EmptyDb]} :
              file' = [file EXCEPT ![wk.key] = f]
          BY <2>1 DEF Terminate
    <3> HIDE DEF torn
    <3>2. PICK f \in {Saved(d) : d \in torn} \union {[st |-> "bad", db |-> EmptyDb]} :
              file' = [file EXCEPT ![wk.key] = f]
          BY <3>1
    <3>3. f.st \in {"none", "ok", "bad"}
      <4>1. CASE f \in {Saved(d) : d \in torn}
            BY <4>1, SavedTyped
      <4>2. CASE f = [st |-> "bad", db |-> EmptyDb]
            BY <4>2
      <4> QED BY <4>1, <4>2
    <3>4. file' = [k \in Keys |-> file'[k]] /\ \A k \in Keys : file'[k] = file[k] \/ file'[k] = f
          BY <2>0, <3>2 DEF FilesTyped
    <3> QED BY <2>0, <3>3, <3>4, FileSet
  <2>2. CASE ~(wk.stage = "writing" /\ wk.persistent)
    <3>1. file' = file
          BY <2>2 DEF Terminate
    <3> QED BY <2>0, <3>1 DEF FilesTyped
  <2> QED BY <2>1, <2>2
<1>2. ProxyTyped' /\ proxy'.ready = "pending" /\ proxy'.waiters = <<>>
  <2>1. /\ proxy' \in [opened : BOOLEAN, ready : {"pending", "resolved", "rejected"}, waiters : Seq(Calls)]
        /\ proxy'.waiters = <<>> /\ proxy'.ready = "pending" /\ proxy'.opened = FALSE
        BY DEF Terminate, NewProxy
  <2> QED BY <2>1 DEF ProxyTyped
<1>3. /\ wk' \in WorkerRecords(wk'.conn) /\ wk'.up = FALSE /\ wk'.queue = <<>> /\ wk'.out = <<>>
      /\ wk'.stage = "idle"
  <2>1. wk' = NoWorker
        BY DEF Terminate
  <2> QED BY <2>1 DEF NoWorker, WorkerRecords
<1>4. CallsTyped' /\ \A c \in Calls : call'[c].st \in Over
  <2>1. call' = [c \in Calls |-> IF call[c].st \in Over THEN call[c] ELSE [NoCall EXCEPT !.st = "err"]]
        BY DEF Terminate, Over
  <2>2. \A c \in Calls : call'[c] \in CallRecords(call'[c].op, call'[c].res) /\ call'[c].st \in Over
    <3> SUFFICES ASSUME NEW c \in Calls
                 PROVE  call'[c] \in CallRecords(call'[c].op, call'[c].res) /\ call'[c].st \in Over
        OBVIOUS
    <3>1. CASE call[c].st \in Over
          BY <2>1, <3>1 DEF StoreInv, CallsTyped
    <3>2. CASE call[c].st \notin Over
      <4> DEFINE r == [NoCall EXCEPT !.st = "err"]
      <4>1. call'[c] = r
            BY <2>1, <3>2
      <4>2. r.st = "err" /\ r \in CallRecords(r.op, r.res)
            BY EndedTyped DEF Statuses, Over
      <4> HIDE DEF r
      <4> QED BY <4>1, <4>2 DEF Over
    <3> QED BY <3>1, <3>2
  <2>3. call' = [c \in Calls |-> call'[c]]
        BY <2>1
  <2> QED BY <2>2, <2>3 DEF CallsTyped
<1>5. WorkerSound'
      BY <1>2, <1>3, EmptyOnce DEF WorkerSound, InitStages
<1>6. CallsSound'
      BY <1>2, <1>3, <1>4, EmptyOnce DEF CallsSound, Waiting, Sent, Served, Over
<1> QED BY <1>1, <1>2, <1>3, <1>4, <1>5, <1>6 DEF StoreInv

-----------------------------------------------------------------------------
(* The theorem *)

LEMMA StoreInductive == StoreInv /\ [Next]_vars => StoreInv'
<1> SUFFICES ASSUME StoreInv, [Next]_vars PROVE StoreInv'
    OBVIOUS
<1>1. CASE UNCHANGED vars
      BY <1>1 DEF vars, StoreInv, FilesTyped, ProxyTyped, CallsTyped, WorkerSound, CallsSound
<1>2. CASE \E k \in Keys : OpenStore(k)
      BY <1>2, OpenStoreKeeps
<1>3. CASE \E c \in Calls : \E o \in Ops[c] : CallStore(c, o)
      BY <1>3, CallStoreKeeps
<1>4. CASE Deliver \/ WorkerError \/ Terminate
      BY <1>4, DeliverKeeps, WorkerErrorKeeps, TerminateKeeps
<1>5. CASE WorkerStep
      BY <1>5, InitKeeps, ServeQueryKeeps, StartWriteKeeps, FinishWriteKeeps DEF WorkerStep
<1> QED BY <1>1, <1>2, <1>3, <1>4, <1>5 DEF Next

\* Whatever fails to load, to open or to be written, and wherever the worker is when the tab
\* is locked: every call that was made is in exactly one place, the proxy's waiters, the
\* worker's queue or the answers on their way, and an INIT that will settle `ready` exists
\* as long as anybody waits for it (StoreProxy.send, onmessage, onerror and terminate).
THEOREM CallsAreNeverForgotten == Spec => []NoCallForgotten
<1>1. StoreInv => NoCallForgotten
  <2> SUFFICES ASSUME StoreInv PROVE NoCallForgotten
      OBVIOUS
  <2> DEFINE tos == [i \in DOMAIN wk.out |-> wk.out[i].to]
  <2>0. /\ WorkerSound /\ CallsSound /\ wk.queue \in Seq(Names) /\ wk.out \in Seq(Answers)
        /\ proxy.waiters \in Seq(Calls)
        BY DEF StoreInv, WorkerRecords, ProxyTyped
  <2>1. /\ Range(wk.queue) = Elems(wk.queue) /\ Range(proxy.waiters) = Elems(proxy.waiters)
        /\ DOMAIN wk.out = 1..Len(wk.out)
        BY <2>0, ElemsIsRange
  <2>2. {wk.out[i].to : i \in DOMAIN wk.out} = Dests(wk.out)
        BY <2>1 DEF Dests
  <2>3. /\ tos \in Seq(Names) /\ Once(tos) /\ Elems(tos) = Dests(wk.out)
    <3>1. Len(wk.out) \in Nat /\ \A i \in 1..Len(wk.out) : wk.out[i].to \in Names
      <4>1. Len(wk.out) \in Nat /\ \A i \in 1..Len(wk.out) : wk.out[i] \in Answers
            BY <2>0
      <4> QED BY <4>1 DEF Answers
    <3>2. /\ tos \in Seq(Names) /\ Len(tos) = Len(wk.out)
          /\ \A i \in 1..Len(wk.out) : tos[i] = wk.out[i].to
          BY <2>1, <3>1
    <3> HIDE DEF tos
    <3>3. Once(tos)
          BY <2>0, <3>2 DEF Once, WorkerSound, DestOnce
    <3>4. Elems(tos) = Dests(wk.out)
          BY <3>2 DEF Elems, Dests
    <3> QED BY <3>2, <3>3, <3>4
  <2>4. IsInjective(wk.queue \o tos)
    <3> HIDE DEF tos
    <3>1. wk.queue \o tos \in Seq(Names) /\ Once(wk.queue \o tos)
          BY <2>0, <2>3, ConcatOnce DEF WorkerSound
    <3>2. DOMAIN (wk.queue \o tos) = 1..Len(wk.queue \o tos)
          BY <3>1, ElemsIsRange
    <3> QED BY <3>1, <3>2 DEF IsInjective, Once
  <2>5. TypeOK
    <3>1. \A c \in Calls : call[c].st \in {"idle", "waiting", "sent", "served", "refused", "cleared", "err"}
          BY DEF StoreInv, CallsTyped, CallRecords, Statuses, Waiting, Sent, Served, Over
    <3>2. /\ wk.key \in Keys \union {NoKey}
          /\ wk.stage \in {"idle", "loading", "opening", "reading", "reopening", "rereading", "schema", "writing"}
          BY DEF StoreInv, WorkerRecords, InitStages
    <3>3. proxy.ready \in {"pending", "resolved", "rejected"} /\ proxy.opened = (proxy.ready = "resolved")
          BY DEF StoreInv, ProxyTyped
    <3> QED BY <3>1, <3>2, <3>3 DEF TypeOK, StoreInv, FilesTyped
  <2>6. \A c \in Calls :
            /\ call[c].st = "sent" => c \in Elems(wk.queue)
            /\ call[c].st \in {"served", "refused", "cleared"} => c \in Dests(wk.out)
            /\ call[c].st = "waiting" => /\ c \in Elems(proxy.waiters)
                                         /\ wk.up => "INIT" \in Elems(wk.queue) \union Dests(wk.out)
            /\ c \in Elems(wk.queue) \union Dests(wk.out) => call[c].st \in {"sent", "served", "refused", "cleared"}
        BY <2>0, EmptyOnce DEF WorkerSound, CallsSound, Waiting, Sent, Served, ProxyTyped
  <2> HIDE DEF tos
  <2> QED BY <2>1, <2>2, <2>4, <2>5, <2>6 DEF NoCallForgotten, tos
<1> QED BY <1>1, StoreInitial, StoreInductive, PTL DEF Spec

-----------------------------------------------------------------------------
(***************************************************************************)
(* Induction.  The library's induction theorems take an operator; what     *)
(* follows from well-foundedness instead is that a set of numbers has a    *)
(* least element: no number is the first at which a statement fails.       *)
(***************************************************************************)
LEMMA Least ==
    ASSUME NEW T \in SUBSET Nat, T # {}
    PROVE  \E x \in T : \A y \in T : x <= y
<1> DEFINE R == {ss \in Nat \X Nat : ss[1] < ss[2]}
<1>1. IsWellFoundedOn(R, Nat)
      BY NatLessThanWellFounded DEF OpToRel
<1> HIDE DEF R
<1>2. \E x \in T : \A y \in T : ~ (<<y, x>> \in R)
      BY <1>1, WFMin
<1>3. \A x, y \in Nat : ~(<<y, x>> \in R) => x <= y
      BY DEF R
<1> QED BY <1>2, <1>3

LEMMA FirstFailure ==
    ASSUME NEW T \in SUBSET Nat, 0 \notin T, \A n \in Nat : n \notin T => n + 1 \notin T
    PROVE  T = {}
<1> SUFFICES ASSUME T # {} PROVE FALSE
    OBVIOUS
<1>1. PICK m \in T : \A y \in T : m <= y
      BY Least
<1>2. m \in Nat /\ m # 0 /\ m - 1 \in Nat /\ (m - 1) + 1 = m /\ ~(m <= m - 1)
      BY <1>1
<1>3. m - 1 \notin T
      BY <1>1, <1>2
<1> QED BY <1>1, <1>2, <1>3

\* The numbers of a finite set have a largest.
LEMMA Largest ==
    ASSUME NEW S \in SUBSET Nat, IsFiniteSet(S), S # {}
    PROVE  Max(S) \in S /\ \A x \in S : x <= Max(S)
<1> DEFINE Bounded(A) == \E b \in Nat : \A x \in A : x <= b
           T == {n \in Nat : \E A \in SUBSET S : IsFiniteSet(A) /\ Cardinality(A) = n /\ ~Bounded(A)}
<1>1. 0 \notin T
  <2>1. \A A \in SUBSET S : IsFiniteSet(A) /\ Cardinality(A) = 0 => A = {}
        BY FS_EmptySet
  <2> QED BY <2>1
<1>2. ASSUME NEW n \in Nat, n \notin T PROVE n + 1 \notin T
  <2> SUFFICES ASSUME NEW A \in SUBSET S, IsFiniteSet(A), Cardinality(A) = n + 1 PROVE Bounded(A)
      OBVIOUS
  <2>1. A # {}
    <3>1. Cardinality({}) = 0
          BY FS_EmptySet
    <3> QED BY <3>1
  <2>2. PICK x \in A : TRUE
        BY <2>1
  <2> DEFINE C == A \ {x}
  <2>3. IsFiniteSet(C) /\ Cardinality(C) = Cardinality(A) - 1
        BY FS_RemoveElement
  <2>4. Cardinality(C) = n
        BY <2>3
  <2>5. Bounded(C)
        BY <1>2, <2>3, <2>4
  <2>6. PICK b \in Nat : \A y \in C : y <= b
        BY <2>5
  <2> DEFINE c == IF b <= x THEN x ELSE b
  <2>7. c \in Nat /\ b <= c /\ x <= c
        BY <2>2
  <2>8. ASSUME NEW y \in A PROVE y <= c
    <3>1. CASE y = x
          BY <2>7, <3>1
    <3>2. CASE y # x
      <4>1. y <= b /\ y \in Nat
            BY <2>6, <3>2
      <4> HIDE DEF c
      <4> QED BY <2>7, <4>1
    <3> QED BY <3>1, <3>2
  <2> HIDE DEF c
  <2> QED BY <2>7, <2>8
<1> DEFINE U == {b \in Nat : \A x \in S : x <= b}
<1>3. U # {}
  <2>1. T = {}
    <3> HIDE DEF T
    <3>1. T \in SUBSET Nat
          BY DEF T
    <3> QED BY <1>1, <1>2, <3>1, FirstFailure
  <2>2. Cardinality(S) \in Nat
        BY FS_CardinalityType
  <2>3. Bounded(S)
        BY <2>1, <2>2
  <2> QED BY <2>3
<1>4. PICK u \in U : \A b \in U : u <= b
      BY <1>3, Least
<1>5. u \in S
  <2> SUFFICES ASSUME u \notin S PROVE FALSE
      OBVIOUS
  <2>1. \A x \in S : x <= u /\ x # u /\ x \in Nat
        BY <1>4
  <2>2. PICK y \in S : TRUE
        OBVIOUS
  <2>3. u \in Nat /\ u # 0
        BY <1>4, <2>1, <2>2
  <2>4. u - 1 \in Nat /\ \A x \in S : x <= u - 1
        BY <2>1, <2>3
  <2> QED BY <1>4, <2>3, <2>4
<1>6. \E m \in S : \A x \in S : m >= x
      BY <1>4, <1>5
<1>7. Max(S) \in S /\ \A x \in S : Max(S) >= x
      BY <1>6 DEF Max
<1> QED BY <1>7

-----------------------------------------------------------------------------
(* Tables and statements *)

\* A database is sound: one index entry per message, one message per row id, every message in
\* a conversation, and conversations that a list can page through.
Indexed(d) ==
    /\ d.fts = {<<d.msgs[m].rowid, d.msgs[m].text>> : m \in DOMAIN d.msgs}
    /\ \A m, n \in DOMAIN d.msgs : d.msgs[m].rowid = d.msgs[n].rowid => m = n
Numbered(d) == IsFiniteSet(DOMAIN d.msgs) /\ \A m \in DOMAIN d.msgs : d.msgs[m].rowid \in Nat
Belong(d) == \A m \in DOMAIN d.msgs : d.msgs[m].conv \in DOMAIN d.convos
Dated(d) ==
    /\ IsFiniteSet(DOMAIN d.convos)
    /\ \A c \in DOMAIN d.convos : c \in Nat /\ d.convos[c].updated \in Nat \ {0}
Shaped(d) == d = [convos |-> d.convos, msgs |-> d.msgs, fts |-> d.fts, vecs |-> d.vecs, rows |-> d.rows]
Sound(d) == Shaped(d) /\ Indexed(d) /\ Numbered(d) /\ Belong(d) /\ Dated(d)

Kinds == {"convo", "msg", "delconvo", "row", "delrow", "delvec", "vec", "clear"}
Statement(s) == s.t \in Kinds /\ (s.t = "convo" => s.conv \in Nat /\ s.updated \in Nat \ {0})

LEMMA PutAt ==
    ASSUME NEW f, NEW k, NEW v
    PROVE  /\ DOMAIN Put(f, k, v) = DOMAIN f \cup {k} /\ Put(f, k, v)[k] = v
           /\ \A x \in DOMAIN f : x # k => Put(f, k, v)[x] = f[x]
BY DEF Put

LEMMA DropAt ==
    ASSUME NEW f, NEW S
    PROVE  /\ DOMAIN Drop(f, S) = DOMAIN f \ S
           /\ \A x \in DOMAIN f \ S : Drop(f, S)[x] = f[x]
BY DEF Drop, Restrict

LEMMA SoundEmpty == Sound(EmptyDb)
<1> DEFINE e == <<>>
<1>1. DOMAIN e = {}
      OBVIOUS
<1> HIDE DEF e
<1>2. /\ EmptyDb.convos = e /\ EmptyDb.msgs = e /\ EmptyDb.fts = {}
      /\ Shaped(EmptyDb)
      BY DEF EmptyDb, e, Shaped
<1>3. IsFiniteSet({})
      BY FS_EmptySet
<1> QED BY <1>1, <1>2, <1>3 DEF Sound, Indexed, Numbered, Belong, Dated

LEMMA FreshRowid ==
    ASSUME NEW d, Numbered(d)
    PROVE  NextRowid(d) \in Nat /\ \A m \in DOMAIN d.msgs : d.msgs[m].rowid < NextRowid(d)
<1> DEFINE R == {d.msgs[m].rowid : m \in DOMAIN d.msgs}
           S == {0} \cup R
<1>1. IsFiniteSet(R) /\ R \in SUBSET Nat
  <2>1. R \in SUBSET Nat /\ IsFiniteSet(DOMAIN d.msgs)
        BY DEF Numbered
  <2> DEFINE g == [m \in DOMAIN d.msgs |-> d.msgs[m].rowid]
  <2>2. g \in Surjection(DOMAIN d.msgs, R)
        BY DEF Surjection
  <2> HIDE DEF g, R
  <2> QED BY <2>1, <2>2, FS_Surjection
<1> HIDE DEF R
<1>2. IsFiniteSet(S) /\ S \in SUBSET Nat /\ S # {}
  <2>1. IsFiniteSet({0})
        BY FS_Singleton
  <2>2. IsFiniteSet({0} \cup R)
        BY <1>1, <2>1, FS_Union, Zenon
  <2> QED BY <1>1, <2>2
<1> DEFINE u == Max(S)
<1>3. u \in S /\ \A x \in S : x <= u
      BY <1>2, Largest
<1>4. NextRowid(d) = 1 + u
      BY DEF NextRowid, R
<1> HIDE DEF u
<1>5. u \in Nat /\ \A x \in R : x <= u /\ x \in Nat
      BY <1>1, <1>2, <1>3
<1>6. \A x \in R : x < 1 + u
      BY <1>5
<1> QED BY <1>4, <1>5, <1>6 DEF R

\* What the triggers do when one message is written.
Writes(d, m, row, old) ==
    \/ m \in DOMAIN d.msgs /\ old = {d.msgs[m]} /\ row.rowid = d.msgs[m].rowid
    \/ m \notin DOMAIN d.msgs /\ old = {} /\ \A n \in DOMAIN d.msgs : d.msgs[n].rowid # row.rowid
Entries(f) == {<<f[n].rowid, f[n].text>> : n \in DOMAIN f}
OneRowid(f) == \A n, k \in DOMAIN f : f[n].rowid = f[k].rowid => n = k

LEMMA SyncOne ==
    ASSUME NEW d, NEW m, NEW row, NEW old, Indexed(d), Writes(d, m, row, old)
    PROVE  /\ FtsSync(d.fts, old, {row}) = Entries(Put(d.msgs, m, row))
           /\ OneRowid(Put(d.msgs, m, row))
<1> DEFINE f == Put(d.msgs, m, row)
           E(g, S) == {<<g[n].rowid, g[n].text>> : n \in S}
           D == DOMAIN d.msgs
<1>1. DOMAIN f = D \cup {m} /\ f[m] = row /\ \A n \in D : n # m => f[n] = d.msgs[n]
      BY DEF Put
<1> HIDE DEF f
<1>2. d.fts = E(d.msgs, D) /\ \A n, k \in D : d.msgs[n].rowid = d.msgs[k].rowid => n = k
      BY DEF Indexed
<1>3. \A n \in D : n # m => d.msgs[n].rowid # row.rowid
      BY <1>2 DEF Writes
<1>4. \A n, k \in DOMAIN f : f[n].rowid = f[k].rowid => n = k
      BY <1>1, <1>2, <1>3
<1>5. FtsSync(d.fts, old, {row}) = (d.fts \ {<<r.rowid, r.text>> : r \in old}) \cup {<<row.rowid, row.text>>}
      BY DEF FtsSync
<1>6. d.fts \ {<<r.rowid, r.text>> : r \in old} = E(d.msgs, D \ {m})
  <2> USE DEF Writes
  <2>1. CASE m \in D /\ old = {d.msgs[m]}
    <3>1. \A n \in D : n # m => d.msgs[n].rowid # d.msgs[m].rowid
          BY <1>2, <2>1
    <3>2. {<<r.rowid, r.text>> : r \in old} = {<<d.msgs[m].rowid, d.msgs[m].text>>}
          BY <2>1
    <3> QED BY <1>2, <2>1, <3>1, <3>2
  <2>2. CASE m \notin D /\ old = {}
        BY <1>2, <2>2
  <2> QED BY <2>1, <2>2
<1>7. E(d.msgs, D \ {m}) \cup {<<row.rowid, row.text>>} = E(f, D \cup {m})
      BY <1>1
<1> QED BY <1>1, <1>4, <1>5, <1>6, <1>7 DEF f, Entries, OneRowid

\* And when some are deleted.
LEMMA SyncGone ==
    ASSUME NEW d, NEW S, Indexed(d), S \subseteq DOMAIN d.msgs
    PROVE  LET f == Drop(d.msgs, S) IN
           /\ FtsSync(d.fts, {d.msgs[m] : m \in S}, {}) = {<<f[n].rowid, f[n].text>> : n \in DOMAIN f}
           /\ \A n, k \in DOMAIN f : f[n].rowid = f[k].rowid => n = k
<1> DEFINE f == Drop(d.msgs, S)
           D == DOMAIN d.msgs
           gone == {<<d.msgs[m].rowid, d.msgs[m].text>> : m \in S}
<1>1. DOMAIN f = D \ S /\ \A n \in D \ S : f[n] = d.msgs[n]
      BY DropAt
<1>2. d.fts = {<<d.msgs[n].rowid, d.msgs[n].text>> : n \in D} /\ \A n, k \in D : d.msgs[n].rowid = d.msgs[k].rowid => n = k
      BY DEF Indexed
<1>3. FtsSync(d.fts, {d.msgs[m] : m \in S}, {}) = d.fts \ gone
      BY DEF FtsSync
<1>4. \A n \in D \ S : <<d.msgs[n].rowid, d.msgs[n].text>> \notin gone
      BY <1>2
<1>5. d.fts \ gone = {<<d.msgs[n].rowid, d.msgs[n].text>> : n \in D \ S}
      BY <1>2, <1>4
<1> HIDE DEF f
<1>6. {<<f[n].rowid, f[n].text>> : n \in DOMAIN f} = {<<d.msgs[n].rowid, d.msgs[n].text>> : n \in D \ S}
      BY <1>1
<1> QED BY <1>1, <1>2, <1>3, <1>5, <1>6 DEF f

LEMMA UpsertConvoSound ==
    ASSUME NEW d, Sound(d), NEW s, s.conv \in Nat, s.updated \in Nat \ {0}
    PROVE  Sound(UpsertConvo(d, s))
<1> DEFINE v == [created |-> IF s.conv \in DOMAIN d.convos THEN d.convos[s.conv].created ELSE s.created,
                 updated |-> s.updated]
           f == Put(d.convos, s.conv, v)
           e == [d EXCEPT !.convos = f]
<1>1. UpsertConvo(d, s) = e
      BY DEF UpsertConvo, Sound, Shaped
<1>2. /\ DOMAIN f = DOMAIN d.convos \cup {s.conv} /\ f[s.conv] = v
      /\ \A x \in DOMAIN d.convos : x # s.conv => f[x] = d.convos[x]
      BY DEF Put
<1>3. v.updated \in Nat \ {0}
      OBVIOUS
<1> HIDE DEF v, f
<1>4. /\ e.convos = f /\ e.msgs = d.msgs /\ e.fts = d.fts /\ Shaped(e)
      BY DEF Sound, Shaped
<1>5. IsFiniteSet(DOMAIN d.convos \cup {s.conv})
  <2>1. IsFiniteSet(DOMAIN d.convos)
        BY DEF Sound, Dated
  <2> QED BY <2>1, FS_AddElement
<1>6. Dated(e)
      BY <1>2, <1>3, <1>4, <1>5 DEF Sound, Dated
<1>7. Belong(e)
      BY <1>2, <1>4 DEF Sound, Belong
<1>8. Indexed(e) /\ Numbered(e)
      BY <1>4 DEF Sound, Indexed, Numbered
<1> HIDE DEF e
<1> QED BY <1>1, <1>4, <1>6, <1>7, <1>8 DEF Sound

Rewrite(d, m, x) == [d EXCEPT !.msgs = m, !.fts = x]
Replace(d, c, m, x) == [d EXCEPT !.convos = c, !.msgs = m, !.fts = x]

LEMMA Rewritten ==
    ASSUME NEW d, Shaped(d), NEW m, NEW x
    PROVE  LET e == Rewrite(d, m, x) IN
           Shaped(e) /\ e.convos = d.convos /\ e.msgs = m /\ e.fts = x
<1>1. ASSUME NEW e, Shaped(e)
      PROVE  LET r == [e EXCEPT !.fts = x] IN
             Shaped(r) /\ r.convos = e.convos /\ r.msgs = e.msgs /\ r.fts = x
      BY <1>1 DEF Shaped
<1>2. ASSUME NEW e, Shaped(e)
      PROVE  LET r == [e EXCEPT !.msgs = m] IN
             Shaped(r) /\ r.convos = e.convos /\ r.msgs = m
      BY <1>2 DEF Shaped
<1> DEFINE v == [d EXCEPT !.msgs = m]
           w == [v EXCEPT !.fts = x]
<1>3. Shaped(v) /\ v.convos = d.convos /\ v.msgs = m
      BY <1>2
<1>4. Rewrite(d, m, x) = w
      BY DEF Rewrite
<1> HIDE DEF v
<1> QED BY <1>1, <1>3, <1>4

LEMMA Replaced ==
    ASSUME NEW d, Shaped(d), NEW c, NEW m, NEW x
    PROVE  LET e == Replace(d, c, m, x) IN
           Shaped(e) /\ e.convos = c /\ e.msgs = m /\ e.fts = x
<1> DEFINE u == [d EXCEPT !.convos = c]
           w == Rewrite(u, m, x)
<1>1. Shaped(u) /\ u.convos = c
      BY DEF Shaped
<1>2. Replace(d, c, m, x) = w
      BY DEF Replace, Rewrite
<1> HIDE DEF u
<1>3. Shaped(w) /\ w.convos = u.convos /\ w.msgs = m /\ w.fts = x
      BY <1>1, Rewritten
<1> QED BY <1>1, <1>2, <1>3

LEMMA UpsertMessageSound ==
    ASSUME NEW d, Sound(d), NEW s, s.conv \in DOMAIN d.convos
    PROVE  Sound(UpsertMessage(d, s))
<1> DEFINE clash == s.id \in DOMAIN d.msgs
           id == s.id
           row == [conv |-> s.conv, parent |-> s.parent, text |-> s.text, user |-> s.user,
                   created |-> IF clash THEN d.msgs[s.id].created ELSE s.created,
                   rowid   |-> IF clash THEN d.msgs[s.id].rowid ELSE NextRowid(d)]
           old == IF clash THEN {d.msgs[id]} ELSE {}
           f == Put(d.msgs, id, row)
           x == FtsSync(d.fts, old, {row})
           e == Rewrite(d, f, x)
<1>1. UpsertMessage(d, s) = e
      BY DEF UpsertMessage, Rewrite, Sound, Shaped
<1>2. row.conv = s.conv /\ row.rowid = IF clash THEN d.msgs[id].rowid ELSE NextRowid(d)
      OBVIOUS
<1>3. /\ DOMAIN f = DOMAIN d.msgs \cup {id} /\ f[id] = row
      /\ \A n \in DOMAIN d.msgs : n # id => f[n] = d.msgs[n]
      BY DEF Put
<1>4. old = IF clash THEN {d.msgs[id]} ELSE {}
      OBVIOUS
<1>5. f = Put(d.msgs, id, row) /\ x = FtsSync(d.fts, old, {row})
      OBVIOUS
<1> HIDE DEF row, f, old, x, id
<1>6. /\ NextRowid(d) \in Nat /\ \A m \in DOMAIN d.msgs : d.msgs[m].rowid < NextRowid(d)
      /\ \A m \in DOMAIN d.msgs : d.msgs[m].rowid \in Nat
      BY FreshRowid DEF Sound, Numbered
<1>7. Writes(d, id, row, old)
  <2>1. CASE id \in DOMAIN d.msgs
        BY <1>2, <1>4, <2>1 DEF id, Writes
  <2>2. CASE id \notin DOMAIN d.msgs
    <3>1. row.rowid = NextRowid(d) /\ old = {}
          BY <1>2, <1>4, <2>2 DEF id
    <3>2. \A n \in DOMAIN d.msgs : d.msgs[n].rowid # NextRowid(d)
          BY <1>6
    <3> QED BY <2>2, <3>1, <3>2 DEF Writes
  <2> QED BY <2>1, <2>2
<1>8. x = Entries(f) /\ OneRowid(f)
  <2>1. Indexed(d)
        BY DEF Sound
  <2>2. FtsSync(d.fts, old, {row}) = Entries(Put(d.msgs, id, row)) /\ OneRowid(Put(d.msgs, id, row))
        BY <1>7, <2>1, SyncOne
  <2> QED BY <1>5, <2>2
<1>9. e.convos = d.convos /\ e.msgs = f /\ e.fts = x /\ Shaped(e)
  <2>1. Shaped(d)
        BY DEF Sound
  <2> QED BY <2>1, Rewritten
<1> HIDE DEF e
<1>10. Indexed(e)
      BY <1>8, <1>9 DEF Indexed, Entries, OneRowid
<1>11. Numbered(e)
  <2>1. IsFiniteSet(DOMAIN d.msgs)
        BY DEF Sound, Numbered
  <2>2. IsFiniteSet(DOMAIN d.msgs \cup {id})
        BY <2>1, FS_AddElement
  <2>3. row.rowid \in Nat
        BY <1>2, <1>6 DEF id
  <2> QED BY <1>3, <1>6, <1>9, <2>2, <2>3 DEF Numbered
<1>12. Belong(e)
      BY <1>2, <1>3, <1>9 DEF Sound, Belong
<1>13. Dated(e)
      BY <1>9 DEF Sound, Dated
<1> QED BY <1>1, <1>9, <1>10, <1>11, <1>12, <1>13 DEF Sound

LEMMA DeleteConvoSound ==
    ASSUME NEW d, Sound(d), NEW s
    PROVE  Sound(DeleteConvo(d, s))
<1> DEFINE S == {m \in DOMAIN d.msgs : d.msgs[m].conv = s.conv}
           f == Drop(d.msgs, S)
           g == Drop(d.convos, {s.conv})
           x == FtsSync(d.fts, {d.msgs[m] : m \in S}, {})
           e == Replace(d, g, f, x)
<1>1. DeleteConvo(d, s) = e
      BY DEF DeleteConvo, Replace, Sound, Shaped
<1>2. /\ DOMAIN f = DOMAIN d.msgs \ S /\ \A n \in DOMAIN d.msgs \ S : f[n] = d.msgs[n]
      /\ DOMAIN g = DOMAIN d.convos \ {s.conv} /\ \A c \in DOMAIN d.convos \ {s.conv} : g[c] = d.convos[c]
      BY DEF Drop, Restrict
<1>3. /\ x = {<<f[n].rowid, f[n].text>> : n \in DOMAIN f}
      /\ \A n, k \in DOMAIN f : f[n].rowid = f[k].rowid => n = k
  <2>1. Indexed(d) /\ S \subseteq DOMAIN d.msgs
        BY DEF Sound
  <2> HIDE DEF S
  <2> QED BY <2>1, SyncGone
<1> HIDE DEF f, g, x
<1>4. e.convos = g /\ e.msgs = f /\ e.fts = x /\ Shaped(e)
  <2>1. Shaped(d)
        BY DEF Sound
  <2> QED BY <2>1, Replaced
<1> HIDE DEF e
<1>5. Indexed(e)
      BY <1>3, <1>4 DEF Indexed
<1>6. Numbered(e)
  <2>1. IsFiniteSet(DOMAIN f)
    <3>1. IsFiniteSet(DOMAIN d.msgs) /\ DOMAIN f \subseteq DOMAIN d.msgs
          BY <1>2 DEF Sound, Numbered
    <3> QED BY <3>1, FS_Subset
  <2> QED BY <1>2, <1>4, <2>1 DEF Sound, Numbered
<1>7. Belong(e)
      BY <1>2, <1>4 DEF Sound, Belong
<1>8. Dated(e)
  <2>1. IsFiniteSet(DOMAIN g)
    <3>1. IsFiniteSet(DOMAIN d.convos) /\ DOMAIN g \subseteq DOMAIN d.convos
          BY <1>2 DEF Sound, Dated
    <3> QED BY <3>1, FS_Subset
  <2> QED BY <1>2, <1>4, <2>1 DEF Sound, Dated
<1> QED BY <1>1, <1>4, <1>5, <1>6, <1>7, <1>8 DEF Sound

\* The other tables have no part in it.
LEMMA OthersSound ==
    ASSUME NEW d, Sound(d), NEW e, Shaped(e), e.convos = d.convos, e.msgs = d.msgs, e.fts = d.fts
    PROVE  Sound(e)
BY DEF Sound, Indexed, Numbered, Belong, Dated

LEMMA RowsKept ==
    ASSUME NEW d, Sound(d), NEW s
    PROVE  Sound(UpsertRow(d, s)) /\ Sound(DeleteRow(d, s))
<1>1. ASSUME NEW r PROVE Sound([d EXCEPT !.rows = r])
  <2> DEFINE e == [d EXCEPT !.rows = r]
  <2>1. Shaped(e) /\ e.convos = d.convos /\ e.msgs = d.msgs /\ e.fts = d.fts
        BY DEF Sound, Shaped
  <2> HIDE DEF e
  <2>2. Sound(e)
        BY <2>1, OthersSound
  <2> QED BY <2>2 DEF e
<1>2. /\ UpsertRow(d, s) = [d EXCEPT !.rows = [d.rows EXCEPT ![s.table] = Put(d.rows[s.table], s.key, s.val)]]
      /\ DeleteRow(d, s) = [d EXCEPT !.rows = [d.rows EXCEPT ![s.table] = Drop(d.rows[s.table], {s.key})]]
      BY DEF UpsertRow, DeleteRow, Sound, Shaped
<1> QED BY <1>1, <1>2

LEMMA VectorsKept ==
    ASSUME NEW d, Sound(d), NEW s
    PROVE  Sound(DeleteVectors(d, s)) /\ Sound(InsertVector(d, s))
<1>1. ASSUME NEW v PROVE Sound([d EXCEPT !.vecs = v])
  <2> DEFINE e == [d EXCEPT !.vecs = v]
  <2>1. Shaped(e) /\ e.convos = d.convos /\ e.msgs = d.msgs /\ e.fts = d.fts
        BY DEF Sound, Shaped
  <2> HIDE DEF e
  <2>2. Sound(e)
        BY <2>1, OthersSound
  <2> QED BY <2>2 DEF e
<1>2. DeleteVectors(d, s) = [d EXCEPT !.vecs = Drop(d.vecs, {s.owner})]
      BY DEF DeleteVectors, Sound, Shaped
<1>3. \E v : InsertVector(d, s) = [d EXCEPT !.vecs = v]
      BY DEF InsertVector, Sound, Shaped
<1> QED BY <1>1, <1>2, <1>3

LEMMA ClearSound ==
    ASSUME NEW d, Sound(d), NEW s
    PROVE  Sound(ClearTables(d, s))
<1> DEFINE x == FtsSync(d.fts, Range(d.msgs), {})
           e == [EmptyDb EXCEPT !.fts = x]
<1>1. x = {}
      BY DEF FtsSync, Range, Sound, Indexed
<1> HIDE DEF x
<1>2. /\ EmptyDb.fts = {} /\ Shaped(EmptyDb)
      BY DEF EmptyDb, Shaped
<1>3. Shaped(e) /\ e.convos = EmptyDb.convos /\ e.msgs = EmptyDb.msgs /\ e.fts = EmptyDb.fts
      BY <1>1, <1>2 DEF Shaped
<1>4. ClearTables(d, s) = e
      BY DEF ClearTables, x
<1> HIDE DEF e
<1> QED BY <1>3, <1>4, SoundEmpty, OthersSound

LEMMA StepSound ==
    ASSUME NEW d, d = Failed \/ Sound(d), NEW s, Statement(s)
    PROVE  Step(d, s) = Failed \/ Sound(Step(d, s))
<1>1. CASE d = Failed
      BY <1>1 DEF Step
<1>2. CASE d # Failed
  <2>1. Sound(d) /\ Step(d, s) = Exec(d, s)
        BY <1>2 DEF Step
  <2>2. Exec(d, s) = Failed \/ Sound(Exec(d, s))
    <3>1. CASE s.t = "convo"
      <4>1. Exec(d, s) = UpsertConvo(d, s) /\ s.conv \in Nat /\ s.updated \in Nat \ {0}
            BY <3>1 DEF Exec, Statement
      <4> QED BY <2>1, <4>1, UpsertConvoSound
    <3>2. CASE s.t = "msg"
      <4>1. Exec(d, s) = UpsertMessage(d, s)
            BY <3>2 DEF Exec
      <4>2. CASE s.conv \in DOMAIN d.convos
            BY <2>1, <4>1, <4>2, UpsertMessageSound
      <4>3. CASE s.conv \notin DOMAIN d.convos
            BY <4>1, <4>3 DEF UpsertMessage
      <4> QED BY <4>2, <4>3
    <3>3. CASE s.t = "delconvo"
          BY <2>1, <3>3, DeleteConvoSound DEF Exec
    <3>4. CASE s.t = "row"
          BY <2>1, <3>4, RowsKept DEF Exec
    <3>5. CASE s.t = "delrow"
          BY <2>1, <3>5, RowsKept DEF Exec
    <3>6. CASE s.t = "delvec"
          BY <2>1, <3>6, VectorsKept DEF Exec
    <3>7. CASE s.t = "vec"
          BY <2>1, <3>7, VectorsKept DEF Exec
    <3>8. CASE s.t = "clear"
          BY <2>1, <3>8, ClearSound DEF Exec
    <3> QED BY <3>1, <3>2, <3>3, <3>4, <3>5, <3>6, <3>7, <3>8 DEF Statement, Kinds
  <2> QED BY <2>1, <2>2
<1> QED BY <1>1, <1>2

-----------------------------------------------------------------------------
(* Sequences of statements *)

\* The contents after each of the statements.
Run(d, s, f, m) == f = [n \in 0..m |-> IF n = 0 THEN d ELSE Step(f[n - 1], s[n])]

LEMMA RunExists ==
    ASSUME NEW d, NEW s, NEW m \in Nat
    PROVE  \E f : Run(d, s, f, m)
<1> DEFINE T == {n \in Nat : ~\E f : Run(d, s, f, n)}
<1>1. 0 \notin T
  <2> DEFINE f == [n \in 0..0 |-> d]
  <2>1. f = [n \in 0..0 |-> IF n = 0 THEN d ELSE Step(f[n - 1], s[n])]
        OBVIOUS
  <2> HIDE DEF f
  <2>2. Run(d, s, f, 0)
        BY <2>1 DEF Run
  <2> QED BY <2>2
<1>2. ASSUME NEW k \in Nat, k \notin T PROVE k + 1 \notin T
  <2>1. PICK f : Run(d, s, f, k)
        BY <1>2
  <2> DEFINE g == [n \in 0..(k + 1) |-> IF n = k + 1 THEN Step(f[k], s[n]) ELSE f[n]]
             h == [n \in 0..(k + 1) |-> IF n = 0 THEN d ELSE Step(g[n - 1], s[n])]
  <2>2. \A n \in 0..k : f[n] = IF n = 0 THEN d ELSE Step(f[n - 1], s[n])
        BY <2>1 DEF Run
  <2>3. ASSUME NEW n \in 0..(k + 1) PROVE g[n] = h[n]
    <3>1. CASE n = k + 1
      <4>1. n # 0 /\ n - 1 = k /\ k \in 0..(k + 1) /\ k # k + 1
            BY <3>1
      <4>2. g[n - 1] = f[k]
            BY <4>1
      <4>3. g[n] = Step(f[k], s[n])
            BY <3>1
      <4>4. h[n] = Step(g[n - 1], s[n])
            BY <4>1
      <4> QED BY <4>2, <4>3, <4>4
    <3>2. CASE n # k + 1
      <4>1. n \in 0..k /\ g[n] = f[n]
            BY <3>2
      <4>2. CASE n = 0
            BY <2>2, <4>1, <4>2
      <4>3. CASE n # 0
        <5>1. n - 1 \in 0..k /\ n - 1 \in 0..(k + 1) /\ n - 1 # k + 1
              BY <4>1, <4>3
        <5>2. g[n - 1] = f[n - 1]
              BY <5>1
        <5>3. h[n] = Step(g[n - 1], s[n])
              BY <4>3
        <5> QED BY <2>2, <4>1, <4>3, <5>2, <5>3
      <4> QED BY <4>2, <4>3
    <3> QED BY <3>1, <3>2
  <2>4. g = h
    <3>1. g = [n \in 0..(k + 1) |-> g[n]] /\ h = [n \in 0..(k + 1) |-> h[n]]
          OBVIOUS
    <3> HIDE DEF g, h
    <3> QED BY <2>3, <3>1
  <2>5. Run(d, s, g, k + 1)
    <3> HIDE DEF g
    <3> QED BY <2>4 DEF Run
  <2> HIDE DEF g
  <2> QED BY <2>5
<1>3. T = {}
  <2> HIDE DEF T
  <2>1. T \in SUBSET Nat
        BY DEF T
  <2> QED BY <1>1, <1>2, <2>1, FirstFailure
<1> QED BY <1>3

\* What a sequence of statements leaves behind is sound, or a statement failed.
LEMMA ExecAllSound ==
    ASSUME NEW d, Sound(d), NEW s, Len(s) \in Nat, \A n \in 1..Len(s) : Statement(s[n])
    PROVE  ExecAll(d, s) = Failed \/ Sound(ExecAll(d, s))
<1> DEFINE f == CHOOSE g : Run(d, s, g, Len(s))
<1>1. ExecAll(d, s) = f[Len(s)]
      BY DEF ExecAll, Run
<1>2. Run(d, s, f, Len(s))
      BY RunExists
<1> HIDE DEF f
<1>3. \A n \in 0..Len(s) : f[n] = IF n = 0 THEN d ELSE Step(f[n - 1], s[n])
      BY <1>2 DEF Run
<1> DEFINE Good(n) == f[n] = Failed \/ Sound(f[n])
           T == {n \in Nat : n \in 0..Len(s) /\ ~Good(n)}
<1>4. 0 \notin T
      BY <1>3
<1>5. ASSUME NEW n \in Nat, n \notin T PROVE n + 1 \notin T
  <2> SUFFICES ASSUME n + 1 \in 0..Len(s) PROVE Good(n + 1)
      OBVIOUS
  <2>1. n \in 0..Len(s) /\ n + 1 # 0 /\ (n + 1) - 1 = n /\ n + 1 \in 1..Len(s)
        OBVIOUS
  <2>2. f[n + 1] = Step(f[n], s[n + 1])
        BY <1>3, <2>1
  <2>3. Good(n) /\ Statement(s[n + 1])
        BY <1>5, <2>1
  <2>4. Step(f[n], s[n + 1]) = Failed \/ Sound(Step(f[n], s[n + 1]))
        BY <2>3, StepSound
  <2> QED BY <2>2, <2>4
<1>6. T = {}
  <2> HIDE DEF T
  <2>1. T \in SUBSET Nat
        BY DEF T
  <2> QED BY <1>4, <1>5, <2>1, FirstFailure
<1>7. Good(Len(s))
      BY <1>6
<1> QED BY <1>1, <1>7

\* A recursive function on the numbers up to m exists, if every step stays in one set.
Iterated(f, m, a, G) == f = [n \in 0..m |-> IF n = 0 THEN a ELSE G[n][f[n - 1]]]

LEMMA Iterates ==
    ASSUME NEW S, NEW a \in S, NEW m \in Nat, NEW G \in [1..m -> [S -> S]]
    PROVE  \E f \in [0..m -> S] : Iterated(f, m, a, G)
<1> DEFINE T == {k \in Nat : k <= m /\ ~\E f \in [0..k -> S] : Iterated(f, k, a, G)}
<1>1. 0 \notin T
  <2> DEFINE f == [n \in 0..0 |-> a]
  <2>1. f = [n \in 0..0 |-> IF n = 0 THEN a ELSE G[n][f[n - 1]]] /\ f \in [0..0 -> S]
        OBVIOUS
  <2> HIDE DEF f
  <2>2. Iterated(f, 0, a, G)
        BY <2>1 DEF Iterated
  <2> QED BY <2>1, <2>2
<1>2. ASSUME NEW k \in Nat, k \notin T PROVE k + 1 \notin T
  <2> SUFFICES ASSUME k + 1 <= m PROVE \E f \in [0..(k + 1) -> S] : Iterated(f, k + 1, a, G)
      OBVIOUS
  <2>1. PICK f \in [0..k -> S] : Iterated(f, k, a, G)
    <3>1. k <= m
          OBVIOUS
    <3> QED BY <1>2, <3>1
  <2>2. \A n \in 0..k : f[n] = (IF n = 0 THEN a ELSE G[n][f[n - 1]]) /\ f[n] \in S
        BY <2>1 DEF Iterated
  <2> DEFINE x == G[k + 1][f[k]]
             g == [n \in 0..(k + 1) |-> IF n = k + 1 THEN x ELSE f[n]]
             h == [n \in 0..(k + 1) |-> IF n = 0 THEN a ELSE G[n][g[n - 1]]]
  <2>3. x \in S
    <3>1. k + 1 \in 1..m /\ k \in 0..k
          OBVIOUS
    <3>2. G[k + 1] \in [S -> S] /\ f[k] \in S
          BY <2>2, <3>1
    <3> QED BY <3>2
  <2>4. ASSUME NEW n \in 0..(k + 1) PROVE g[n] = h[n] /\ g[n] \in S
    <3>1. CASE n = k + 1
      <4>1. n # 0 /\ n - 1 = k /\ k \in 0..(k + 1) /\ k # k + 1
            BY <3>1
      <4>2. g[n - 1] = f[k]
            BY <4>1
      <4>3. g[n] = x
            BY <3>1
      <4>4. h[n] = G[n][g[n - 1]]
            BY <4>1
      <4> QED BY <2>3, <3>1, <4>2, <4>3, <4>4
    <3>2. CASE n # k + 1
      <4>1. n \in 0..k /\ g[n] = f[n]
            BY <3>2
      <4>2. CASE n = 0
            BY <2>2, <4>1, <4>2
      <4>3. CASE n # 0
        <5>1. n - 1 \in 0..k /\ n - 1 \in 0..(k + 1) /\ n - 1 # k + 1
              BY <4>1, <4>3
        <5>2. g[n - 1] = f[n - 1]
              BY <5>1
        <5>3. h[n] = G[n][g[n - 1]]
              BY <4>3
        <5> QED BY <2>2, <4>1, <4>3, <5>2, <5>3
      <4> QED BY <4>2, <4>3
    <3> QED BY <3>1, <3>2
  <2> HIDE DEF x
  <2>5. g = h /\ g \in [0..(k + 1) -> S]
    <3>1. g = [n \in 0..(k + 1) |-> g[n]] /\ h = [n \in 0..(k + 1) |-> h[n]]
          OBVIOUS
    <3> HIDE DEF g, h
    <3> QED BY <2>4, <3>1
  <2>6. Iterated(g, k + 1, a, G)
    <3> HIDE DEF g
    <3> QED BY <2>5 DEF Iterated
  <2> HIDE DEF g
  <2> QED BY <2>5, <2>6
<1>3. T = {}
  <2> HIDE DEF T
  <2>1. T \in SUBSET Nat
        BY DEF T
  <2> QED BY <1>1, <1>2, <2>1, FirstFailure
<1> QED BY <1>3

\* A list of statements.
Stmts(s) == \E S : s \in Seq(S) /\ \A x \in S : Statement(x)

LEMMA StmtsLen ==
    ASSUME NEW s, Stmts(s)
    PROVE  /\ Len(s) \in Nat /\ \A n \in 1..Len(s) : Statement(s[n])
           /\ \A n \in 0..Len(s) : Stmts(SubSeq(s, 1, n))
<1>1. PICK S : s \in Seq(S) /\ \A x \in S : Statement(x)
      BY DEF Stmts
<1>2. Len(s) \in Nat /\ \A n \in 1..Len(s) : s[n] \in S
      BY <1>1
<1>3. ASSUME NEW n \in 0..Len(s) PROVE SubSeq(s, 1, n) \in Seq(S)
      BY <1>1, <1>2
<1> QED BY <1>1, <1>2, <1>3 DEF Stmts

LEMMA StmtsConcat ==
    ASSUME NEW s, NEW u, Stmts(s), Stmts(u)
    PROVE  Stmts(s \o u)
<1>1. PICK S : s \in Seq(S) /\ \A x \in S : Statement(x)
      BY DEF Stmts
<1>2. PICK U : u \in Seq(U) /\ \A x \in U : Statement(x)
      BY DEF Stmts
<1>3. s \in Seq(S \cup U) /\ u \in Seq(S \cup U)
  <2>1. /\ Len(s) \in Nat /\ s = [i \in 1..Len(s) |-> s[i]] /\ \A i \in 1..Len(s) : s[i] \in S
        /\ Len(u) \in Nat /\ u = [i \in 1..Len(u) |-> u[i]] /\ \A i \in 1..Len(u) : u[i] \in U
        BY <1>1, <1>2
  <2>2. [i \in 1..Len(s) |-> s[i]] \in Seq(S \cup U) /\ [i \in 1..Len(u) |-> u[i]] \in Seq(S \cup U)
        BY <2>1
  <2> QED BY <2>1, <2>2
<1>4. s \o u \in Seq(S \cup U)
      BY <1>3
<1> QED BY <1>1, <1>2, <1>4 DEF Stmts

LEMMA StmtsSome ==
    ASSUME NEW n \in Nat, NEW f, f = [i \in 1..n |-> f[i]], \A i \in 1..n : Statement(f[i])
    PROVE  Stmts(f)
<1> DEFINE S == {f[i] : i \in 1..n}
<1>1. [i \in 1..n |-> f[i]] \in Seq(S)
      OBVIOUS
<1>2. f \in Seq(S) /\ \A x \in S : Statement(x)
      BY <1>1
<1> QED BY <1>2 DEF Stmts

LEMMA StmtsOne ==
    ASSUME NEW x, Statement(x)
    PROVE  Stmts(<<x>>)
<1> DEFINE f == <<x>>
<1>1. f = [i \in 1..1 |-> f[i]] /\ \A i \in 1..1 : f[i] = x
      OBVIOUS
<1> HIDE DEF f
<1>2. Stmts(f)
      BY <1>1, StmtsSome
<1> QED BY <1>2 DEF f

LEMMA StmtsNone == Stmts(<<>>)
<1> DEFINE f == <<>>
<1>1. f = [i \in 1..0 |-> f[i]] /\ \A i \in 1..0 : FALSE
      OBVIOUS
<1> HIDE DEF f
<1>2. Stmts(f)
      BY <1>1, StmtsSome
<1> QED BY <1>2 DEF f

\* The recursion of fork ends with a list of messages.
LEMMA LineageSeq ==
    ASSUME NEW d, IsFiniteSet(DOMAIN d.msgs), NEW conv, NEW from
    PROVE  \E S : LineageUp(d, conv, from) \in Seq(S)
<1> DEFINE here == {m \in DOMAIN d.msgs : d.msgs[m].conv = conv}
           N == Cardinality(here)
           a == IF from \in here THEN <<from>> ELSE <<>>
           p(s) == IF s = <<>> THEN Null ELSE d.msgs[Last(s)].parent
           grow(s) == IF p(s) \in here \ Range(s) THEN Append(s, p(s)) ELSE s
           Eq(f) == f = [n \in 0..N |-> IF n = 0 THEN a ELSE grow(f[n - 1])]
           up == CHOOSE f : Eq(f)
<1>1. LineageUp(d, conv, from) = up[N]
      BY DEF LineageUp
<1>2. N \in Nat
  <2>1. IsFiniteSet(here)
        BY FS_Subset
  <2> QED BY <2>1, FS_CardinalityType
<1>3. a \in Seq(here)
  <2> HIDE DEF here
  <2>1. from \in here => <<from>> \in Seq(here)
        OBVIOUS
  <2>2. <<>> \in Seq(here)
        OBVIOUS
  <2> QED BY <2>1, <2>2
<1>4. ASSUME NEW s \in Seq(here) PROVE grow(s) \in Seq(here)
  <2> DEFINE k == p(s)
  <2>1. grow(s) = IF k \in here \ Range(s) THEN Append(s, k) ELSE s
        OBVIOUS
  <2> HIDE DEF k, here
  <2>2. k \in here => Append(s, k) \in Seq(here)
        OBVIOUS
  <2> QED BY <2>1, <2>2
<1> HIDE DEF N, here, a, grow
<1>5. \E f : Eq(f)
  <2> DEFINE G == [n \in 1..N |-> [s \in Seq(here) |-> grow(s)]]
  <2>1. G \in [1..N -> [Seq(here) -> Seq(here)]]
        BY <1>4
  <2>2. \A n \in 1..N : \A s \in Seq(here) : G[n][s] = grow(s)
        OBVIOUS
  <2> HIDE DEF G
  <2>3. PICK f \in [0..N -> Seq(here)] : Iterated(f, N, a, G)
        BY <1>2, <1>3, <2>1, Iterates
  <2>4. ASSUME NEW n \in 0..N PROVE f[n] = IF n = 0 THEN a ELSE grow(f[n - 1])
    <3>1. f[n] = IF n = 0 THEN a ELSE G[n][f[n - 1]]
          BY <2>3 DEF Iterated
    <3>2. n # 0 => n \in 1..N /\ f[n - 1] \in Seq(here)
          BY <1>2
    <3> QED BY <2>2, <3>1, <3>2
  <2>5. Eq(f)
    <3>1. f = [n \in 0..N |-> f[n]]
          OBVIOUS
    <3> QED BY <2>4, <3>1
  <2> QED BY <2>5
<1>6. Eq(up)
      BY <1>5
<1> HIDE DEF up
<1>7. \A n \in 0..N : up[n] = IF n = 0 THEN a ELSE grow(up[n - 1])
      BY <1>6
<1> DEFINE T == {n \in Nat : n <= N /\ up[n] \notin Seq(here)}
<1>8. 0 \notin T
  <2>1. 0 \in 0..N
        BY <1>2
  <2> QED BY <1>3, <1>7, <2>1
<1>9. ASSUME NEW n \in Nat, n \notin T PROVE n + 1 \notin T
  <2> SUFFICES ASSUME n + 1 <= N PROVE up[n + 1] \in Seq(here)
      OBVIOUS
  <2>1. n <= N /\ n + 1 \in 0..N /\ n + 1 # 0 /\ (n + 1) - 1 = n
        BY <1>2
  <2>2. up[n] \in Seq(here) /\ up[n + 1] = grow(up[n])
        BY <1>7, <1>9, <2>1
  <2> QED BY <1>4, <2>2
<1>10. T = {}
  <2> HIDE DEF T
  <2>1. T \in SUBSET Nat
        BY DEF T
  <2> QED BY <1>8, <1>9, <2>1, FirstFailure
<1>11. up[N] \in Seq(here)
      BY <1>2, <1>10
<1> QED BY <1>1, <1>11

LEMMA StmtsFlat ==
    ASSUME NEW q, Len(q) \in Nat, q = [k \in 1..Len(q) |-> q[k]], \A k \in 1..Len(q) : Stmts(q[k])
    PROVE  Stmts(FlattenSeq(q))
<1> DEFINE N == Len(q)
           Eq(f) == f = [i \in 1..N |-> IF i = 1 THEN q[i] ELSE f[i - 1] \o q[i]]
           g == CHOOSE f : Eq(f)
           S == UNION {{q[k][i] : i \in 1..Len(q[k])} : k \in 1..N}
<1>1. CASE N = 0
  <2>1. FlattenSeq(q) = q
        BY <1>1 DEF FlattenSeq
  <2>2. \A k \in 1..N : Statement(q[k])
        BY <1>1
  <2>3. Stmts(q)
        BY <2>2, StmtsSome
  <2> QED BY <2>1, <2>3
<1>2. CASE N # 0
  <2>1. FlattenSeq(q) = g[N]
        BY <1>2 DEF FlattenSeq
  <2>2. ASSUME NEW k \in 1..N PROVE q[k] \in Seq(S)
    <3> DEFINE e == q[k]
    <3>1. PICK U : e \in Seq(U)
          BY DEF Stmts
    <3>2. e = [i \in 1..Len(e) |-> e[i]] /\ Len(e) \in Nat
          BY <3>1
    <3>3. \A i \in 1..Len(e) : e[i] \in S
          OBVIOUS
    <3> HIDE DEF S, e
    <3>4. [i \in 1..Len(e) |-> e[i]] \in Seq(S)
          BY <3>2, <3>3
    <3>5. e \in Seq(S)
          BY <3>2, <3>4
    <3> QED BY <3>5 DEF e
  <2>3. ASSUME NEW x \in S PROVE Statement(x)
    <3>1. PICK k \in 1..N : \E i \in 1..Len(q[k]) : x = q[k][i]
          OBVIOUS
    <3>2. PICK i \in 1..Len(q[k]) : x = q[k][i]
          BY <3>1
    <3> DEFINE e == q[k]
    <3>3. Stmts(e) /\ i \in 1..Len(e) /\ x = e[i]
          BY <3>2
    <3> HIDE DEF e
    <3> QED BY <3>3, StmtsLen
  <2> HIDE DEF S
  <2>4. \E f : Eq(f)
    <3> DEFINE m == N - 1
               G == [n \in 1..m |-> [s \in Seq(S) |-> s \o q[n + 1]]]
               a == q[1]
    <3>1. m \in Nat /\ N = m + 1 /\ a \in Seq(S)
          BY <1>2, <2>2
    <3> HIDE DEF m
    <3>2. G \in [1..m -> [Seq(S) -> Seq(S)]]
      <4>1. \A n \in 1..m : q[n + 1] \in Seq(S)
            BY <2>2, <3>1
      <4>2. \A n \in 1..m : \A s \in Seq(S) : s \o q[n + 1] \in Seq(S)
            BY <4>1
      <4> QED BY <4>2
    <3>3. \A n \in 1..m : \A s \in Seq(S) : G[n][s] = s \o q[n + 1]
          OBVIOUS
    <3> HIDE DEF G
    <3>4. PICK f \in [0..m -> Seq(S)] : Iterated(f, m, a, G)
          BY <3>1, <3>2, Iterates
    <3> DEFINE h == [i \in 1..N |-> f[i - 1]]
    <3>5. ASSUME NEW i \in 1..N PROVE h[i] = IF i = 1 THEN q[i] ELSE h[i - 1] \o q[i]
      <4>1. i - 1 \in 0..m /\ h[i] = f[i - 1]
            BY <3>1
      <4>2. f[i - 1] = IF i - 1 = 0 THEN a ELSE G[i - 1][f[(i - 1) - 1]]
            BY <3>4, <4>1 DEF Iterated
      <4>3. CASE i = 1
            BY <4>1, <4>2, <4>3
      <4>4. CASE i # 1
        <5>1. i - 1 \in 1..m /\ i - 1 \in 1..N /\ (i - 1) - 1 \in 0..m /\ (i - 1) + 1 = i
              BY <3>1, <4>4
        <5>2. f[(i - 1) - 1] \in Seq(S) /\ h[i - 1] = f[(i - 1) - 1]
              BY <5>1
        <5>3. f[i - 1] = G[i - 1][f[(i - 1) - 1]]
              BY <4>2, <5>1
        <5> QED BY <3>3, <4>1, <4>4, <5>1, <5>2, <5>3
      <4> QED BY <4>3, <4>4
    <3>6. h = [i \in 1..N |-> h[i]]
          OBVIOUS
    <3> HIDE DEF h
    <3>7. Eq(h)
          BY <3>5, <3>6
    <3> QED BY <3>7
  <2>5. Eq(g)
        BY <2>4
  <2> HIDE DEF g
  <2>6. \A i \in 1..N : g[i] = IF i = 1 THEN q[i] ELSE g[i - 1] \o q[i]
        BY <2>5
  <2> DEFINE T == {n \in Nat : n + 1 <= N /\ g[n + 1] \notin Seq(S)}
  <2>7. 0 \notin T
    <3>1. 1 \in 1..N /\ 0 + 1 = 1
          BY <1>2
    <3>2. g[1] = q[1]
          BY <2>6, <3>1
    <3> QED BY <2>2, <3>1, <3>2
  <2>8. ASSUME NEW n \in Nat, n \notin T PROVE n + 1 \notin T
    <3> SUFFICES ASSUME (n + 1) + 1 <= N PROVE g[(n + 1) + 1] \in Seq(S)
        OBVIOUS
    <3> DEFINE i == (n + 1) + 1
    <3>1. n + 1 <= N /\ i \in 1..N /\ i # 1 /\ i - 1 = n + 1
          OBVIOUS
    <3> HIDE DEF i
    <3>2. g[n + 1] \in Seq(S) /\ q[i] \in Seq(S)
          BY <2>2, <2>8, <3>1
    <3>3. g[i] = g[n + 1] \o q[i]
          BY <2>6, <3>1
    <3>4. g[i] \in Seq(S)
          BY <3>2, <3>3
    <3> QED BY <3>4 DEF i
  <2>9. T = {}
    <3> HIDE DEF T
    <3>1. T \in SUBSET Nat
          BY DEF T
    <3> QED BY <2>7, <2>8, <3>1, FirstFailure
  <2>10. N - 1 \in Nat /\ (N - 1) + 1 = N
        BY <1>2
  <2>11. g[N] \in Seq(S)
    <3> DEFINE n == N - 1
    <3>1. n \in Nat /\ n + 1 <= N /\ n + 1 = N
          BY <2>10
    <3> HIDE DEF n
    <3>2. n \notin T
          BY <2>9
    <3> QED BY <3>1, <3>2
  <2> QED BY <2>1, <2>3, <2>11 DEF Stmts
<1> QED BY <1>1, <1>2

-----------------------------------------------------------------------------
(* Requests *)

ChatNames == {"PERSIST_TURN", "HYDRATE_CONVO", "LIST_CONVOS", "FORK", "IMPORT", "DELETE_CONVO", "SEARCH",
              "STORE_VECTORS", "HYDRATE_VECTORS", "CLEAR_ALL"}
LibraryNames == {"UPSERT_MEMORY", "DELETE_MEMORY", "LIST_MEMORIES", "UPSERT_AGENT", "GET_AGENT", "LIST_AGENTS",
                 "DELETE_AGENT", "UPSERT_SKILL", "GET_SKILL", "LIST_SKILLS", "DELETE_SKILL"}

LEMMA RequestFields ==
    /\ DOMAIN StoreRequest = ChatNames \cup LibraryNames
    /\ "conv" \in StoreRequest["PERSIST_TURN"] /\ "convos" \in StoreRequest["IMPORT"]
    /\ "chunks" \in StoreRequest["STORE_VECTORS"]
<1>1. DOMAIN ChatRequest = ChatNames
      BY DEF ChatRequest, ChatNames
<1>2. DOMAIN LibraryRequest = LibraryNames
      BY DEF LibraryRequest, LibraryNames
<1>3. /\ "conv" \in ChatRequest["PERSIST_TURN"] /\ "convos" \in ChatRequest["IMPORT"]
      /\ "chunks" \in ChatRequest["STORE_VECTORS"]
      BY DEF ChatRequest
<1>4. "PERSIST_TURN" \in ChatNames /\ "IMPORT" \in ChatNames /\ "STORE_VECTORS" \in ChatNames
      BY DEF ChatNames
<1>5. StoreRequest = [r \in ChatNames \cup LibraryNames |-> IF r \in ChatNames THEN ChatRequest[r] ELSE LibraryRequest[r]]
      BY <1>1, <1>2 DEF StoreRequest
<1> QED BY <1>1, <1>2, <1>3, <1>4, <1>5

LEMMA StmtTypes ==
    /\ \A c, created, updated :
          c \in Nat /\ updated \in Nat \ {0} => Statement(ConvoStmt(c, created, updated))
    /\ \A id, conv, parent, user, text, created : Statement(MessageStmt(id, conv, parent, user, text, created))
    /\ \A table, o : Statement(RowStmt(table, o))
BY DEF Statement, Kinds, ConvoStmt, MessageStmt, RowStmt

LEMMA PersistStmts ==
    ASSUME NEW o, NEW n \in Nat \ {0}, o.conv \in Nat
    PROVE  Stmts(PersistTurn(o, n))
<1> DEFINE a == ConvoStmt(o.conv, n, n)
           b == MessageStmt(o.user, o.conv, o.parent, TRUE, o.text, n)
           c == MessageStmt(o.asst, o.conv, o.user, FALSE, o.text, n)
           f == <<a, b, c>>
<1>1. Statement(a) /\ Statement(b) /\ Statement(c)
      BY StmtTypes
<1>2. PersistTurn(o, n) = f
      BY DEF PersistTurn
<1> HIDE DEF a, b, c
<1>3. f = [i \in 1..3 |-> f[i]] /\ \A i \in 1..3 : Statement(f[i])
      BY <1>1
<1> HIDE DEF f
<1>4. Stmts(f)
      BY <1>3, StmtsSome
<1> QED BY <1>2, <1>4

LEMMA ForkStmts ==
    ASSUME NEW d, IsFiniteSet(DOMAIN d.msgs), NEW o, NEW n \in Nat \ {0}, NEW fresh \in Nat
    PROVE  Stmts(ForkConversation(d, o, n, fresh))
<1> DEFINE lineage == Reverse(LineageUp(d, o.conv, o.from))
           new(m) == fresh + Min({i \in DOMAIN lineage : lineage[i] = m})
           reparent(p) == IF p \in Range(lineage) THEN new(p) ELSE Null
           row(i) == MessageStmt(new(lineage[i]), fresh, reparent(d.msgs[lineage[i]].parent),
                                 d.msgs[lineage[i]].user, d.msgs[lineage[i]].text, d.msgs[lineage[i]].created)
           rows == [i \in DOMAIN lineage |-> row(i)]
           first == ConvoStmt(fresh, n, n)
<1>1. ForkConversation(d, o, n, fresh) = <<first>> \o rows
      BY DEF ForkConversation
<1>2. \E k \in Nat : DOMAIN lineage = 1..k
  <2>1. PICK S : LineageUp(d, o.conv, o.from) \in Seq(S)
        BY LineageSeq
  <2>2. Len(LineageUp(d, o.conv, o.from)) \in Nat
        BY <2>1
  <2> QED BY <2>2 DEF Reverse
<1>3. PICK k \in Nat : DOMAIN lineage = 1..k
      BY <1>2
<1>4. \A i : Statement(row(i))
      BY StmtTypes
<1>5. Statement(first)
      BY StmtTypes
<1> HIDE DEF first, row, lineage
<1>6. Stmts(<<first>>)
      BY <1>5, StmtsOne
<1>7. rows = [i \in 1..k |-> rows[i]] /\ \A i \in 1..k : Statement(rows[i])
      BY <1>3, <1>4
<1> HIDE DEF rows
<1>8. Stmts(rows)
      BY <1>7, StmtsSome
<1>9. Stmts(<<first>> \o rows)
      BY <1>6, <1>8, StmtsConcat
<1> QED BY <1>1, <1>9

LEMMA ImportConvoStmts ==
    ASSUME NEW e, NEW n \in Nat \ {0}, NEW fresh \in Nat, e.conv \in Nat, e.at \in Nat, e.msgs \in Seq(Range(e.msgs))
    PROVE  Stmts(ImportConvo(e, n, fresh))
<1> DEFINE conv == IF e.conv = Null THEN fresh ELSE e.conv
           at == ToMs(e.at, n)
           row(i) == MessageStmt(IF e.msgs[i].id = Null THEN fresh + i ELSE e.msgs[i].id, conv, e.msgs[i].parent,
                                 e.msgs[i].user, e.msgs[i].text, ToMs(e.msgs[i].at, n))
           rows == [i \in DOMAIN e.msgs |-> row(i)]
           first == ConvoStmt(conv, at, at)
           k == Len(e.msgs)
<1>1. ImportConvo(e, n, fresh) = <<first>> \o rows
      BY DEF ImportConvo
<1>2. conv \in Nat /\ at \in Nat \ {0} /\ k \in Nat /\ DOMAIN e.msgs = 1..k
      BY DEF ToMs, Null
<1>3. \A i : Statement(row(i))
      BY StmtTypes
<1> HIDE DEF at, conv
<1>4. Statement(first)
      BY <1>2, StmtTypes
<1> HIDE DEF first, row, k
<1>6. Stmts(<<first>>)
      BY <1>4, StmtsOne
<1>7. rows = [i \in 1..k |-> rows[i]] /\ \A i \in 1..k : Statement(rows[i])
      BY <1>2, <1>3
<1> HIDE DEF rows
<1>8. Stmts(rows)
      BY <1>2, <1>7, StmtsSome
<1>9. Stmts(<<first>> \o rows)
      BY <1>6, <1>8, StmtsConcat
<1> QED BY <1>1, <1>9

LEMMA ImportStmts ==
    ASSUME NEW o, NEW n \in Nat \ {0}, NEW fresh \in Nat, o.convos \in Seq(Range(o.convos)),
           \A e \in Range(o.convos) : e.conv \in Nat /\ e.at \in Nat /\ e.msgs \in Seq(Range(e.msgs))
    PROVE  Stmts(ImportChatExport(o, n, fresh))
<1> DEFINE q == [k \in DOMAIN o.convos |-> ImportConvo(o.convos[k], n, fresh + 3 * (k - 1))]
           N == Len(o.convos)
<1>1. ImportChatExport(o, n, fresh) = FlattenSeq(q)
      BY DEF ImportChatExport
<1>2. N \in Nat /\ DOMAIN o.convos = 1..N
      OBVIOUS
<1>3. \A k \in 1..N : o.convos[k] \in Range(o.convos)
      BY <1>2 DEF Range
<1>4. ASSUME NEW k \in 1..N PROVE Stmts(ImportConvo(o.convos[k], n, fresh + 3 * (k - 1)))
  <2> DEFINE e == o.convos[k]
             fr == fresh + 3 * (k - 1)
  <2>1. e.conv \in Nat /\ e.at \in Nat /\ e.msgs \in Seq(Range(e.msgs))
        BY <1>3
  <2>2. fr \in Nat
        BY <1>2
  <2> HIDE DEF e, fr
  <2>3. Stmts(ImportConvo(e, n, fr))
        BY <2>1, <2>2, ImportConvoStmts
  <2> QED BY <2>3 DEF e, fr
<1>5. q = [k \in 1..N |-> q[k]] /\ \A k \in 1..N : Stmts(q[k])
      BY <1>2, <1>4
<1>6. Len(q) = N
      BY <1>2
<1> HIDE DEF q, N
<1>7. Stmts(FlattenSeq(q))
      BY <1>2, <1>5, <1>6, StmtsFlat
<1> QED BY <1>1, <1>7

LEMMA VectorStmts ==
    ASSUME NEW o, o.chunks \in Seq(Range(o.chunks))
    PROVE  Stmts(StoreVectors(o))
<1> DEFINE first == [t |-> "delvec", owner |-> o.owner]
           rows == [i \in DOMAIN o.chunks |-> [t |-> "vec", owner |-> o.owner, chunk |-> o.chunks[i]]]
           k == Len(o.chunks)
<1>1. StoreVectors(o) = <<first>> \o rows
      BY DEF StoreVectors
<1>2. k \in Nat /\ DOMAIN o.chunks = 1..k
      OBVIOUS
<1>3. Statement(first) /\ \A i \in 1..k : Statement([t |-> "vec", owner |-> o.owner, chunk |-> o.chunks[i]])
      BY DEF Statement, Kinds
<1>4. rows = [i \in 1..k |-> rows[i]] /\ \A i \in 1..k : Statement(rows[i])
      BY <1>2, <1>3
<1> HIDE DEF first, rows, k
<1>5. Stmts(<<first>>) /\ Stmts(rows)
      BY <1>2, <1>3, <1>4, StmtsOne, StmtsSome
<1>6. Stmts(<<first>> \o rows)
      BY <1>5, StmtsConcat
<1> QED BY <1>1, <1>6

LEMMA MemoryStmts ==
    ASSUME NEW o
    PROVE  Stmts(UpsertMemory(o))
<1> DEFINE a == [t |-> "delrow", table |-> "memories", key |-> o.prev]
           b == RowStmt("memories", o)
           c == IF o.prev # Null /\ o.prev # o.key THEN <<a>> ELSE <<>>
<1>1. UpsertMemory(o) = c \o <<b>>
      BY DEF UpsertMemory
<1>2. Statement(a) /\ Statement(b)
      BY DEF Statement, Kinds, RowStmt
<1> HIDE DEF a, b
<1>3. Stmts(<<a>>) /\ Stmts(<<b>>)
      BY <1>2, StmtsOne
<1>4. Stmts(c)
      BY <1>3, StmtsNone
<1> HIDE DEF c
<1>5. Stmts(c \o <<b>>)
      BY <1>3, <1>4, StmtsConcat
<1> QED BY <1>1, <1>5

LEMMA SingleStmts ==
    /\ \A o : Stmts(UpsertAgent(o)) /\ Stmts(UpsertSkill(o))
    /\ \A o : Stmts(DeleteMemory(o)) /\ Stmts(DeleteAgent(o)) /\ Stmts(DeleteSkill(o))
    /\ \A o : Stmts(<< [t |-> "delconvo", conv |-> o.conv] >>)
    /\ Stmts(ClearAll)
<1>1. ASSUME NEW o PROVE Stmts(UpsertAgent(o)) /\ Stmts(UpsertSkill(o))
  <2>1. Statement(RowStmt("agents", o)) /\ Statement(RowStmt("skills", o))
        BY StmtTypes
  <2> QED BY <2>1, StmtsOne DEF UpsertAgent, UpsertSkill
<1>2. \A o, table : Stmts(DeleteFrom(table, o))
  <2> TAKE o, table
  <2>1. Statement([t |-> "delrow", table |-> table, key |-> o.key])
        BY DEF Statement, Kinds
  <2> QED BY <2>1, StmtsOne DEF DeleteFrom
<1>3. ASSUME NEW o PROVE Stmts(<< [t |-> "delconvo", conv |-> o.conv] >>)
  <2>1. Statement([t |-> "delconvo", conv |-> o.conv])
        BY DEF Statement, Kinds
  <2> QED BY <2>1, StmtsOne
<1>4. Stmts(ClearAll)
  <2>1. Statement([t |-> "clear"])
        BY DEF Statement, Kinds
  <2> QED BY <2>1, StmtsOne DEF ClearAll
<1> QED BY <1>1, <1>2, <1>3, <1>4 DEF DeleteMemory, DeleteAgent, DeleteSkill

\* What a write of the contract runs is a list of statements.
LEMMA StatementsOf ==
    ASSUME NEW d, IsFiniteSet(DOMAIN d.msgs), NEW c \in Calls, NEW o \in Ops[c], o.t \notin Queries,
           now \in Nat \ {0}, ids \in Nat
    PROVE  Stmts(Statements(d, o))
<1>1. o.t \in ChatNames \cup LibraryNames /\ DOMAIN o = {"t"} \cup StoreRequest[o.t]
      BY OpsAssumption, RequestFields
<1>2. /\ "conv" \in DOMAIN o => o.conv \in Nat
      /\ "chunks" \in DOMAIN o => o.chunks \in Seq(Range(o.chunks))
      /\ "convos" \in DOMAIN o =>
            /\ o.convos \in Seq(Range(o.convos))
            /\ \A e \in Range(o.convos) : e.conv \in Nat /\ e.at \in Nat /\ e.msgs \in Seq(Range(e.msgs))
      BY FieldsAssumption
<1>3. o.t \in {"PERSIST_TURN", "FORK", "IMPORT", "DELETE_CONVO", "STORE_VECTORS", "UPSERT_MEMORY", "UPSERT_AGENT",
               "UPSERT_SKILL", "DELETE_MEMORY", "DELETE_AGENT", "DELETE_SKILL", "CLEAR_ALL"}
      BY <1>1 DEF Queries, ChatNames, LibraryNames
<1>4. CASE o.t = "PERSIST_TURN"
  <2>1. o.conv \in Nat
        BY <1>1, <1>2, <1>4, RequestFields
  <2>2. Statements(d, o) = PersistTurn(o, now)
        BY <1>4 DEF Statements
  <2> QED BY <2>1, <2>2, PersistStmts
<1>5. CASE o.t = "FORK"
  <2>1. Statements(d, o) = ForkConversation(d, o, now, ids)
        BY <1>5 DEF Statements
  <2> QED BY <2>1, ForkStmts
<1>6. CASE o.t = "IMPORT"
  <2>1. Statements(d, o) = ImportChatExport(o, now, ids)
        BY <1>6 DEF Statements
  <2>2. "convos" \in DOMAIN o
        BY <1>1, <1>6, RequestFields
  <2> QED BY <1>2, <2>1, <2>2, ImportStmts
<1>7. CASE o.t = "STORE_VECTORS"
  <2>1. Statements(d, o) = StoreVectors(o)
        BY <1>7 DEF Statements
  <2>2. "chunks" \in DOMAIN o
        BY <1>1, <1>7, RequestFields
  <2> QED BY <1>2, <2>1, <2>2, VectorStmts
<1>8. CASE o.t = "UPSERT_MEMORY"
  <2>1. Statements(d, o) = UpsertMemory(o)
        BY <1>8 DEF Statements
  <2> QED BY <2>1, MemoryStmts
<1>9. CASE o.t = "DELETE_CONVO"
  <2>1. Statements(d, o) = << [t |-> "delconvo", conv |-> o.conv] >>
        BY <1>9 DEF Statements
  <2> QED BY <2>1, SingleStmts
<1>10. CASE o.t = "UPSERT_AGENT"
  <2>1. Statements(d, o) = UpsertAgent(o)
        BY <1>10 DEF Statements
  <2> QED BY <2>1, SingleStmts
<1>11. CASE o.t = "UPSERT_SKILL"
  <2>1. Statements(d, o) = UpsertSkill(o)
        BY <1>11 DEF Statements
  <2> QED BY <2>1, SingleStmts
<1>12. CASE o.t = "DELETE_MEMORY"
  <2>1. Statements(d, o) = DeleteMemory(o)
        BY <1>12 DEF Statements
  <2> QED BY <2>1, SingleStmts
<1>13. CASE o.t = "DELETE_AGENT"
  <2>1. Statements(d, o) = DeleteAgent(o)
        BY <1>13 DEF Statements
  <2> QED BY <2>1, SingleStmts
<1>14. CASE o.t = "DELETE_SKILL"
  <2>1. Statements(d, o) = DeleteSkill(o)
        BY <1>14 DEF Statements
  <2> QED BY <2>1, SingleStmts
<1>15. CASE o.t = "CLEAR_ALL"
  <2>1. Statements(d, o) = ClearAll
        BY <1>15 DEF Statements
  <2> QED BY <2>1, SingleStmts
<1> QED BY <1>3, <1>4, <1>5, <1>6, <1>7, <1>8, <1>9, <1>10, <1>11, <1>12, <1>13, <1>14, <1>15

-----------------------------------------------------------------------------
(* Pages *)

\* What a page of the list is taken from; keys are negated dates.
Left(key, after) == {x \in DOMAIN key : after = Null \/ key[x] > after}
Keyed(key) ==
    /\ IsFiniteSet(DOMAIN key) /\ DOMAIN key \subseteq Nat
    /\ \A x \in DOMAIN key : key[x] \in Int /\ key[x] < 0

LEMMA LeastKey ==
    ASSUME NEW key, Keyed(key), NEW R \in SUBSET DOMAIN key, R # {}
    PROVE  \E m \in R : \A y \in R : ~(key[y] < key[m] \/ (key[y] = key[m] /\ y < m))
<1> DEFINE U == {-key[x] : x \in R}
           M == {x \in R : -key[x] = Max(U)}
<1>1. IsFiniteSet(R)
      BY FS_Subset DEF Keyed
<1>2. IsFiniteSet(U)
  <2> DEFINE g == [x \in R |-> -key[x]]
  <2>1. g \in [R -> U] /\ \A u \in U : \E x \in R : g[x] = u
        OBVIOUS
  <2>2. g \in Surjection(R, U)
        BY <2>1 DEF Surjection
  <2> HIDE DEF g, U
  <2> QED BY <1>1, <2>2, FS_Surjection
<1>3. U \in SUBSET Nat /\ U # {}
      BY DEF Keyed
<1> HIDE DEF U
<1>4. Max(U) \in U /\ \A u \in U : u <= Max(U)
      BY <1>2, <1>3, Largest
<1>5. M # {} /\ M \in SUBSET Nat
      BY <1>4 DEF U, Keyed
<1>6. PICK m \in M : \A y \in M : m <= y
      BY <1>5, Least
<1>7. m \in R /\ -key[m] = Max(U) /\ key[m] \in Int /\ m \in Nat
      BY <1>6 DEF Keyed
<1>8. ASSUME NEW y \in R PROVE ~(key[y] < key[m] \/ (key[y] = key[m] /\ y < m))
  <2>1. key[y] \in Int /\ y \in Nat /\ -key[y] \in U
        BY DEF U, Keyed
  <2>2. -key[y] <= -key[m]
        BY <1>4, <1>7, <2>1
  <2>3. key[y] = key[m] => m <= y
        BY <1>6, <1>7
  <2> QED BY <1>7, <2>1, <2>2, <2>3
<1> QED BY <1>7, <1>8

LEMMA Listed ==
    ASSUME NEW n \in Nat, NEW f, f = [i \in 1..n |-> f[i]]
    PROVE  f \in Seq({f[i] : i \in 1..n}) /\ Len(f) = n
<1> DEFINE S == {f[i] : i \in 1..n}
<1>1. \A i \in 1..n : f[i] \in S
      OBVIOUS
<1> HIDE DEF S
<1>2. [i \in 1..n |-> f[i]] \in Seq(S) /\ Len([i \in 1..n |-> f[i]]) = n
      BY <1>1
<1>3. f \in Seq(S) /\ Len(f) = n
      BY <1>2
<1> QED BY <1>3 DEF S

LEMMA PageOfOne ==
    ASSUME NEW key, Keyed(key), NEW after \in Int
    PROVE  LET R == Left(key, after)
               p == KeysetPage(key, 1, after)
           IN  /\ R = {} => p.page = <<>> /\ p.next = Null
               /\ R # {} => \E m \in R : /\ p.page = <<m>> /\ \A y \in R : key[m] <= key[y]
                                         /\ p.next = IF Cardinality(R) > 1 THEN key[m] ELSE Null
<1> DEFINE R == Left(key, after)
           N == Cardinality(R)
           below(x) == {y \in R : key[y] < key[x] \/ (key[y] = key[x] /\ y < x)}
           least(k) == CHOOSE x \in R : Cardinality(below(x)) = k
           rows == [i \in 1..N |-> least(i - 1)]
           page == SubSeq(rows, 1, Min({1, Len(rows)}))
           p == KeysetPage(key, 1, after)
<1>1. p = [page |-> page, next |-> IF Len(rows) > 1 THEN key[Last(page)] ELSE Null]
      BY DEF KeysetPage, OrderBy, Left
<1>2. R \in SUBSET DOMAIN key /\ IsFiniteSet(R) /\ N \in Nat /\ (N = 0 <=> R = {})
  <2>1. R \in SUBSET DOMAIN key
        BY DEF Left
  <2> HIDE DEF R
  <2>2. IsFiniteSet(R)
        BY <2>1, FS_Subset DEF Keyed
  <2> QED BY <2>1, <2>2, FS_CardinalityType, FS_EmptySet
<1> HIDE DEF R
<1> DEFINE r == least(0)
<1>3. N # 0 => r \in R /\ \A y \in R : key[r] <= key[y]
  <2> SUFFICES ASSUME N # 0 PROVE r \in R /\ \A y \in R : key[r] <= key[y]
      OBVIOUS
  <2>2. \A x \in R : IsFiniteSet(below(x))
        BY <1>2, FS_Subset
  <2>3. \A x \in R : Cardinality(below(x)) = 0 <=> below(x) = {}
        BY <2>2, FS_EmptySet
  <2>4. \E m \in R : Cardinality(below(m)) = 0
    <3>1. PICK m \in R : \A y \in R : ~(key[y] < key[m] \/ (key[y] = key[m] /\ y < m))
          BY <1>2, LeastKey
    <3>2. below(m) = {}
          BY <3>1
    <3> QED BY <2>3, <3>2
  <2>5. r \in R /\ Cardinality(below(r)) = 0
    <3> HIDE DEF below
    <3> QED BY <2>4
  <2> HIDE DEF r
  <2>6. below(r) = {}
        BY <2>3, <2>5
  <2>7. \A y \in R : key[y] \in Int
        BY <1>2 DEF Keyed
  <2> QED BY <2>5, <2>6, <2>7
<1> HIDE DEF N, least
<1>4. N # 0 => rows[1] = r
  <2> SUFFICES ASSUME N # 0 PROVE rows[1] = r
      OBVIOUS
  <2>1. 1 \in 1..N /\ 1 - 1 = 0
        BY <1>2
  <2>2. rows[1] = least(1 - 1)
        BY <2>1
  <2> HIDE DEF rows
  <2> QED BY <2>1, <2>2
<1>4a. rows \in Seq({rows[i] : i \in 1..N}) /\ Len(rows) = N
  <2>1. rows = [i \in 1..N |-> rows[i]]
        OBVIOUS
  <2> HIDE DEF rows
  <2> QED BY <1>2, <2>1, Listed
<1> HIDE DEF rows, r
<1>5. CASE N = 0
  <2>1. Min({1, Len(rows)}) = 0
    <3>1. \E x \in {1, 0} : \A y \in {1, 0} : x <= y
          OBVIOUS
    <3>2. Min({1, 0}) = 0
          BY <3>1 DEF Min
    <3> QED BY <1>4a, <1>5, <3>2
  <2>2. page = <<>>
        BY <1>4a, <2>1
  <2>3. ~(Len(rows) > 1)
        BY <1>4a, <1>5
  <2> HIDE DEF page, p
  <2>4. p.page = <<>> /\ p.next = Null
        BY <1>1, <2>2, <2>3
  <2> QED BY <1>2, <1>5, <2>4 DEF R, p
<1>6. CASE N # 0
  <2>1. Min({1, Len(rows)}) = 1
    <3>1. \A x \in {1, N} : 1 <= x
          BY <1>2, <1>6
    <3>2. Min({1, N}) = 1
          BY <1>2, <3>1 DEF Min
    <3> QED BY <1>4a, <3>2
  <2>2. page = <<rows[1]>>
    <3> DEFINE S == {rows[i] : i \in 1..N}
    <3>1. rows \in Seq(S) /\ Len(rows) = N /\ N >= 1 /\ N \in Nat
          BY <1>2, <1>4a, <1>6
    <3> HIDE DEF S
    <3>2. Len(SubSeq(rows, 1, 1)) = 1 /\ SubSeq(rows, 1, 1)[1] = rows[1] /\ SubSeq(rows, 1, 1) \in Seq(S)
          BY <3>1
    <3>3. \A q \in Seq(S) : Len(q) = 1 => q = <<q[1]>>
          OBVIOUS
    <3>4. SubSeq(rows, 1, 1) = <<rows[1]>>
          BY <3>2, <3>3
    <3> QED BY <2>1, <3>4
  <2>3. Last(<<rows[1]>>) = rows[1]
    <3> DEFINE a == rows[1]
    <3> HIDE DEF a
    <3>1. Last(<<a>>) = a
          BY DEF Last
    <3> QED BY <3>1 DEF a
  <2> HIDE DEF page, p
  <2>4. p.page = <<r>> /\ p.next = IF N > 1 THEN key[r] ELSE Null
        BY <1>1, <1>4, <1>4a, <1>6, <2>2, <2>3
  <2>5. R # {} /\ r \in R /\ \A y \in R : key[r] <= key[y]
        BY <1>2, <1>3, <1>6
  <2> QED BY <2>4, <2>5 DEF R, p, N
<1> QED BY <1>5, <1>6

\* The reader has seen nothing twice, everything that is left lies after what was seen, and
\* whatever is not left was seen or has a tie that was.
Apart(key, s) == \A i, j \in 1..Len(s) : key[s[i]] = key[s[j]] => i = j
Reached(key, s, x) == \E i \in 1..Len(s) : key[s[i]] = key[x]
Ahead(key, s, R) == \A i \in 1..Len(s) : \A x \in R : key[s[i]] < key[x]
Seen(key, n, w) ==
    /\ w.seen \in Seq(DOMAIN key) /\ w.after \in Int /\ w.more \in BOOLEAN
    /\ Apart(key, w.seen)
    /\ w.more =>
          /\ Ahead(key, w.seen, Left(key, w.after))
          /\ \A x \in DOMAIN key : x \notin Left(key, w.after) => Reached(key, w.seen, x)
          /\ Cardinality(Left(key, w.after)) + n <= Cardinality(DOMAIN key)
    /\ ~w.more => \A x \in DOMAIN key : Reached(key, w.seen, x)

LEMMA SeenAll ==
    ASSUME NEW key, NEW n, NEW w, NEW s, NEW after, w.seen = s, w.after = after, w.more = FALSE,
           s \in Seq(DOMAIN key), after \in Int, Apart(key, s), \A x \in DOMAIN key : Reached(key, s, x)
    PROVE  Seen(key, n, w)
BY DEF Seen

LEMMA SeenMore ==
    ASSUME NEW key, NEW n, NEW w, NEW s, NEW after, w.seen = s, w.after = after, w.more = TRUE,
           s \in Seq(DOMAIN key), after \in Int, Apart(key, s), Ahead(key, s, Left(key, after)),
           \A x \in DOMAIN key : x \notin Left(key, after) => Reached(key, s, x),
           Cardinality(Left(key, after)) + n <= Cardinality(DOMAIN key)
    PROVE  Seen(key, n, w)
BY DEF Seen

NextPage(key, w) ==
    LET p == KeysetPage(key, 1, w.after)
    IN  IF ~w.more THEN w
        ELSE [seen |-> w.seen \o p.page, after |-> p.next, more |-> p.next # Null]

WalkStates(key) == [seen : Seq(DOMAIN key), after : Int, more : BOOLEAN]

LEMMA AddSeen ==
    ASSUME NEW S, NEW s \in Seq(S), NEW m \in S
    PROVE  /\ s \o <<m>> \in Seq(S) /\ Len(s) \in Nat /\ Len(s \o <<m>>) = Len(s) + 1
           /\ \A i \in 1..Len(s) : (s \o <<m>>)[i] = s[i] /\ s[i] \in S
           /\ (s \o <<m>>)[Len(s) + 1] = m
<1>1. <<m>> \in Seq(S) /\ Len(<<m>>) = 1 /\ <<m>>[1] = m
      OBVIOUS
<1>2. Len(s) \in Nat /\ \A i \in 1..Len(s) : s[i] \in S
      OBVIOUS
<1>3. s \o <<m>> \in Seq(S) /\ Len(s \o <<m>>) = Len(s) + 1
      BY <1>1, <1>2
<1>4. \A i \in 1..Len(s) : (s \o <<m>>)[i] = s[i]
      BY <1>1, <1>2
<1>5. (s \o <<m>>)[Len(s) + 1] = m
      BY <1>1, <1>2
<1> QED BY <1>2, <1>3, <1>4, <1>5

LEMMA NextPageSeen ==
    ASSUME NEW key, Keyed(key), NEW n \in Nat, NEW w \in WalkStates(key), Seen(key, n, w)
    PROVE  NextPage(key, w) \in WalkStates(key) /\ Seen(key, n + 1, NextPage(key, w))
<1> DEFINE R == Left(key, w.after)
           p == KeysetPage(key, 1, w.after)
           D == DOMAIN key
           v == NextPage(key, w)
<1>0. w.seen \in Seq(D) /\ w.after \in Int /\ w.more \in BOOLEAN /\ Len(w.seen) \in Nat
      BY DEF WalkStates
<1>1. CASE ~w.more
      BY <1>1 DEF NextPage, Seen
<1>2. CASE w.more
  <2>1. v = [seen |-> w.seen \o p.page, after |-> p.next, more |-> p.next # Null]
        BY <1>2 DEF NextPage
  <2>2. /\ R = {} => p.page = <<>> /\ p.next = Null
        /\ R # {} => \E m \in R : /\ p.page = <<m>> /\ \A y \in R : key[m] <= key[y]
                                  /\ p.next = IF Cardinality(R) > 1 THEN key[m] ELSE Null
        BY <1>0, PageOfOne
  <2>3. R \subseteq D /\ IsFiniteSet(D) /\ IsFiniteSet(R) /\ \A x \in D : key[x] \in Int /\ key[x] < 0
    <3>1. R \subseteq D /\ IsFiniteSet(D)
          BY DEF Left, Keyed
    <3> HIDE DEF R
    <3> QED BY <3>1, FS_Subset DEF Keyed
  <2>4. /\ \A i, j \in 1..Len(w.seen) : key[w.seen[i]] = key[w.seen[j]] => i = j
        /\ \A x \in D : x \notin R => \E i \in 1..Len(w.seen) : key[w.seen[i]] = key[x]
        /\ \A i \in 1..Len(w.seen) : \A x \in R : key[w.seen[i]] < key[x]
        /\ Cardinality(R) + n <= Cardinality(D)
        BY <1>2 DEF Seen, Apart, Reached, Ahead
  <2>4a. \A x \in D : x \in R <=> w.after = Null \/ key[x] > w.after
        BY DEF Left
  <2> HIDE DEF R, p
  <2>5. CASE R = {}
    <3>1. w.seen \o <<>> = w.seen
          BY <1>0
    <3>2. v = [seen |-> w.seen, after |-> 0, more |-> FALSE]
          BY <2>1, <2>2, <2>5, <3>1 DEF Null
    <3> HIDE DEF v
    <3>3. v.seen = w.seen /\ v.after = 0 /\ v.more = FALSE
          BY <3>2
    <3>4. v \in WalkStates(key)
          BY <1>0, <3>2 DEF WalkStates
    <3>5. Apart(key, w.seen) /\ \A x \in D : Reached(key, w.seen, x)
          BY <2>4, <2>5 DEF Apart, Reached
    <3>6. Seen(key, n + 1, v)
      <4> DEFINE n1 == n + 1
                 s == w.seen
                 a == 0
      <4>1. v.seen = s /\ v.after = a
            BY <3>3
      <4>2. v.more = FALSE
            BY <3>3
      <4>3. s \in Seq(DOMAIN key)
            BY <1>0
      <4>3a. a \in Int
            OBVIOUS
      <4>4. Apart(key, s)
            BY <3>5
      <4>5. \A x \in DOMAIN key : Reached(key, s, x)
            BY <3>5
      <4> HIDE DEF n1, s, a
      <4>6. Seen(key, n1, v)
            BY <4>1, <4>2, <4>3, <4>3a, <4>4, <4>5, SeenAll
      <4> QED BY <4>6 DEF n1
    <3> QED BY <3>4, <3>6 DEF v
  <2>6. CASE R # {}
    <3>1. PICK m \in R : /\ p.page = <<m>> /\ \A y \in R : key[m] <= key[y]
                         /\ p.next = IF Cardinality(R) > 1 THEN key[m] ELSE Null
          BY <2>2, <2>6
    <3> DEFINE s == w.seen \o <<m>>
               next == p.next
    <3>2. v = [seen |-> s, after |-> next, more |-> next # Null]
          BY <2>1, <3>1
    <3>3. m \in D /\ key[m] \in Int /\ key[m] < 0
          BY <2>3
    <3>4. /\ s \in Seq(D) /\ Len(s) = Len(w.seen) + 1
          /\ \A i \in 1..Len(w.seen) : s[i] = w.seen[i] /\ w.seen[i] \in D
          /\ s[Len(w.seen) + 1] = m
          BY <1>0, <3>3, AddSeen
    <3> HIDE DEF s, v
    <3>5. next \in Int /\ (next # Null <=> Cardinality(R) > 1) /\ (next # Null => next = key[m])
          BY <3>1, <3>3 DEF Null
    <3> HIDE DEF next
    <3>6. v \in WalkStates(key) /\ v.seen = s /\ v.after = next /\ v.more = (next # Null)
          BY <3>2, <3>4, <3>5 DEF WalkStates
    <3>7. \A i \in 1..Len(s) : i \in 1..Len(w.seen) \/ i = Len(w.seen) + 1
          BY <1>0, <3>4
    <3>7a. \A i \in 1..Len(w.seen) : i \in 1..Len(s)
          BY <1>0, <3>4
    <3>7b. Len(w.seen) + 1 \in 1..Len(s)
          BY <1>0, <3>4
    <3>8. \A i \in 1..Len(w.seen) : key[s[i]] < key[m] /\ key[s[i]] \in Int
          BY <2>3, <2>4, <3>4
    <3>9. ASSUME NEW i \in 1..Len(s), NEW j \in 1..Len(s), key[s[i]] = key[s[j]] PROVE i = j
      <4>1. CASE i \in 1..Len(w.seen) /\ j \in 1..Len(w.seen)
            BY <2>4, <3>4, <3>9, <4>1
      <4>2. CASE i \in 1..Len(w.seen) /\ j = Len(w.seen) + 1
            BY <3>3, <3>4, <3>8, <3>9, <4>2
      <4>3. CASE i = Len(w.seen) + 1 /\ j \in 1..Len(w.seen)
            BY <3>3, <3>4, <3>8, <3>9, <4>3
      <4>4. CASE i = Len(w.seen) + 1 /\ j = Len(w.seen) + 1
            BY <4>4
      <4> QED BY <3>7, <4>1, <4>2, <4>3, <4>4
    <3>9a. Apart(key, s)
          BY <3>9 DEF Apart
    <3>10. Cardinality(R) \in Nat /\ Cardinality(R) >= 1
      <4>1. Cardinality(R) \in Nat /\ (Cardinality(R) = 0 <=> R = {})
            BY <2>3, FS_CardinalityType, FS_EmptySet
      <4> QED BY <2>6, <4>1
    <3>11. \A x \in D : x \notin R => \E i \in 1..Len(s) : key[s[i]] = key[x]
      <4> TAKE x \in D
      <4> HAVE x \notin R
      <4>1. PICK i \in 1..Len(w.seen) : key[w.seen[i]] = key[x]
            BY <2>4
      <4> QED BY <3>4, <3>7a, <4>1
    <3>12. CASE next # Null
      <4> DEFINE Q == Left(key, next)
      <4>1. \A x : x \in Q <=> x \in D /\ key[x] > key[m]
            BY <3>5, <3>12 DEF Left
      <4> HIDE DEF Q
      <4>2. Q \subseteq R \ {m}
        <5> SUFFICES ASSUME NEW x \in Q PROVE x \in R \ {m}
            OBVIOUS
        <5>1. x \in D /\ key[x] > key[m] /\ key[x] \in Int
              BY <2>3, <4>1
        <5>2. w.after = Null \/ key[m] > w.after
              BY <2>4a, <3>3
        <5>3. w.after = Null \/ key[x] > w.after
              BY <1>0, <3>3, <5>1, <5>2
        <5> QED BY <2>4a, <3>3, <5>1, <5>3
      <4>3. Cardinality(Q) \in Nat /\ Cardinality(Q) <= Cardinality(R) - 1
        <5>1. IsFiniteSet(R \ {m}) /\ Cardinality(R \ {m}) = Cardinality(R) - 1
              BY <2>3, FS_RemoveElement
        <5>2. IsFiniteSet(Q) /\ Cardinality(Q) <= Cardinality(R \ {m})
              BY <4>2, <5>1, FS_Subset
        <5> QED BY <5>1, <5>2, FS_CardinalityType
      <4>4. Cardinality(Q) + (n + 1) <= Cardinality(D)
        <5>1. Cardinality(D) \in Nat
              BY <2>3, FS_CardinalityType
        <5> QED BY <2>4, <3>10, <4>3, <5>1
      <4>5. ASSUME NEW i \in 1..Len(s), NEW x \in Q PROVE key[s[i]] < key[x]
        <5>1. x \in D /\ key[m] < key[x] /\ key[x] \in Int
              BY <2>3, <4>1
        <5>2. CASE i \in 1..Len(w.seen)
              BY <3>3, <3>8, <5>1, <5>2
        <5>3. CASE i = Len(w.seen) + 1
              BY <3>4, <5>1, <5>3
        <5> QED BY <3>7, <5>2, <5>3
      <4>6. ASSUME NEW x \in D, x \notin Q PROVE \E i \in 1..Len(s) : key[s[i]] = key[x]
        <5>1. CASE x \notin R
              BY <3>11, <5>1
        <5>2. CASE x \in R
          <6>1. key[m] <= key[x] /\ ~(key[x] > key[m]) /\ key[x] \in Int
                BY <2>3, <3>1, <4>1, <4>6, <5>2
          <6>2. key[m] = key[x]
                BY <3>3, <6>1
          <6> QED BY <3>4, <3>7b, <6>2
        <5> QED BY <5>1, <5>2
      <4>7. v.more = TRUE /\ Q = Left(key, v.after)
            BY <3>6, <3>12 DEF Q
      <4>8. Ahead(key, s, Q) /\ \A x \in D : x \notin Q => Reached(key, s, x)
            BY <4>5, <4>6 DEF Ahead, Reached
      <4> DEFINE n1 == n + 1
      <4>9. Cardinality(Q) + n1 <= Cardinality(D)
            BY <4>4
      <4>10. v.seen = s /\ v.after = next /\ v.more = TRUE
            BY <3>6, <4>7
      <4>11. s \in Seq(DOMAIN key) /\ next \in Int /\ Apart(key, s)
            BY <3>4, <3>5, <3>9a
      <4>12. Ahead(key, s, Left(key, next))
            BY <4>8 DEF Q
      <4>13. \A x \in DOMAIN key : x \notin Left(key, next) => Reached(key, s, x)
            BY <4>8 DEF Q
      <4>14. Cardinality(Left(key, next)) + n1 <= Cardinality(DOMAIN key)
            BY <4>9 DEF Q
      <4> HIDE DEF n1
      <4>15. Seen(key, n1, v)
            BY <4>10, <4>11, <4>12, <4>13, <4>14, SeenMore
      <4> QED BY <3>6, <4>15 DEF n1, v
    <3>13. CASE next = Null
      <4>1. Cardinality(R) = 1
            BY <3>5, <3>10, <3>13
      <4>2. R = {m}
        <5>1. IsFiniteSet(R \ {m}) /\ Cardinality(R \ {m}) = Cardinality(R) - 1
              BY <2>3, FS_RemoveElement
        <5>2. Cardinality(R \ {m}) = 0
              BY <4>1, <5>1
        <5>3. R \ {m} = {}
              BY <5>1, <5>2, FS_EmptySet
        <5> QED BY <5>3
      <4>3. ASSUME NEW x \in D PROVE \E i \in 1..Len(s) : key[s[i]] = key[x]
        <5>1. CASE x \notin R
              BY <3>11, <5>1
        <5>2. CASE x = m
              BY <3>4, <3>7b, <5>2
        <5> QED BY <4>2, <5>1, <5>2
      <4>4. v.more = FALSE
            BY <3>6, <3>13
      <4>5. \A x \in D : Reached(key, s, x)
            BY <4>3 DEF Reached
      <4> DEFINE n1 == n + 1
      <4>6. v.seen = s /\ v.after = next
            BY <3>6
      <4>7. s \in Seq(DOMAIN key) /\ next \in Int /\ Apart(key, s)
            BY <3>4, <3>5, <3>9a
      <4>8. \A x \in DOMAIN key : Reached(key, s, x)
            BY <4>5
      <4> HIDE DEF n1
      <4>9. Seen(key, n1, v)
            BY <4>4, <4>6, <4>7, <4>8, SeenAll
      <4> QED BY <3>6, <4>9 DEF n1, v
    <3> QED BY <3>12, <3>13 DEF v
  <2> QED BY <2>5, <2>6
<1> QED BY <1>0, <1>1, <1>2

\* The reader who follows the cursors sees every key, and none twice.
LEMMA WalkSees ==
    ASSUME NEW key, Keyed(key)
    PROVE  LET seen == Walk(key, 1)
           IN  seen \in Seq(DOMAIN key) /\ Apart(key, seen) /\ \A x \in DOMAIN key : Reached(key, seen, x)
<1> DEFINE N == Cardinality(DOMAIN key)
           start == [seen |-> <<>>, after |-> Null, more |-> TRUE]
           Eq(f) == f = [n \in 0..N |-> IF n = 0 THEN start ELSE NextPage(key, f[n - 1])]
           w == CHOOSE f : Eq(f)
           S == {x \in WalkStates(key) : \E n \in Nat : Seen(key, n, x)}
           G == [n \in 1..N |-> [x \in S |-> NextPage(key, x)]]
<1>1. Walk(key, 1) = w[N].seen
      BY DEF Walk, NextPage
<1>2. N \in Nat /\ IsFiniteSet(DOMAIN key)
      BY FS_CardinalityType DEF Keyed
<1>3. start \in WalkStates(key) /\ Seen(key, 0, start)
  <2>1. /\ start.seen = <<>> /\ start.after = 0 /\ start.more = TRUE
        BY DEF Null
  <2>2. <<>> \in Seq(DOMAIN key) /\ 0 \in Int
        OBVIOUS
  <2>3. Left(key, 0) = DOMAIN key
        BY DEF Left, Null
  <2>4. Apart(key, <<>>) /\ Ahead(key, <<>>, Left(key, 0))
        BY DEF Apart, Ahead
  <2>5. start \in WalkStates(key)
        BY <2>2 DEF WalkStates, Null
  <2>6. Cardinality(Left(key, 0)) + 0 <= Cardinality(DOMAIN key)
        BY <1>2, <2>3
  <2> DEFINE e == <<>>
             z == 0
  <2>7. /\ start.seen = e /\ start.after = z /\ start.more = TRUE /\ e \in Seq(DOMAIN key) /\ z \in Int
        /\ Apart(key, e) /\ Ahead(key, e, Left(key, z))
        /\ \A x \in DOMAIN key : x \notin Left(key, z) => Reached(key, e, x)
        /\ Cardinality(Left(key, z)) + z <= Cardinality(DOMAIN key)
        BY <2>1, <2>2, <2>3, <2>4, <2>6
  <2> HIDE DEF start, e, z
  <2>8. Seen(key, z, start)
        BY <2>7, SeenMore
  <2> QED BY <2>5, <2>8 DEF z
<1>4. \A x \in S : NextPage(key, x) \in S
      BY NextPageSeen
<1>5. start \in S
      BY <1>3
<1> HIDE DEF N, start, S
<1>6. G \in [1..N -> [S -> S]] /\ \A n \in 1..N : \A x \in S : G[n][x] = NextPage(key, x)
      BY <1>4
<1> HIDE DEF G
<1>7. \E f : Eq(f)
  <2>1. PICK f \in [0..N -> S] : Iterated(f, N, start, G)
        BY <1>2, <1>5, <1>6, Iterates
  <2>2. ASSUME NEW n \in 0..N PROVE f[n] = IF n = 0 THEN start ELSE NextPage(key, f[n - 1])
    <3>1. f[n] = IF n = 0 THEN start ELSE G[n][f[n - 1]]
          BY <2>1 DEF Iterated
    <3>2. n # 0 => n \in 1..N /\ f[n - 1] \in S
          BY <1>2
    <3> QED BY <1>6, <3>1, <3>2
  <2>3. f = [n \in 0..N |-> f[n]]
        OBVIOUS
  <2>4. Eq(f)
        BY <2>2, <2>3
  <2> QED BY <2>4
<1>8. Eq(w)
      BY <1>7
<1> HIDE DEF w
<1>9. \A n \in 0..N : w[n] = IF n = 0 THEN start ELSE NextPage(key, w[n - 1])
      BY <1>8
<1> DEFINE Good(n) == w[n] \in WalkStates(key) /\ Seen(key, n, w[n])
           T == {n \in Nat : n <= N /\ ~Good(n)}
<1>10. 0 \notin T
  <2>1. 0 \in 0..N
        BY <1>2
  <2> QED BY <1>3, <1>9, <2>1
<1>11. ASSUME NEW n \in Nat, n \notin T PROVE n + 1 \notin T
  <2> SUFFICES ASSUME n + 1 <= N PROVE Good(n + 1)
      OBVIOUS
  <2>1. n <= N /\ n + 1 \in 0..N /\ n + 1 # 0 /\ (n + 1) - 1 = n
        BY <1>2
  <2>2. Good(n) /\ w[n + 1] = NextPage(key, w[n])
        BY <1>9, <1>11, <2>1
  <2> QED BY <2>2, NextPageSeen
<1>12. T = {}
  <2> HIDE DEF T
  <2>1. T \in SUBSET Nat
        BY DEF T
  <2> QED BY <1>10, <1>11, <2>1, FirstFailure
<1>13. Good(N)
      BY <1>2, <1>12
<1> DEFINE u == w[N]
<1>14. u.seen \in Seq(DOMAIN key) /\ Apart(key, u.seen)
      BY <1>13 DEF Seen
<1>15. \A x \in DOMAIN key : Reached(key, u.seen, x)
  <2>1. CASE ~u.more
        BY <1>13, <2>1 DEF Seen
  <2>2. CASE u.more
    <3> DEFINE R == Left(key, u.after)
    <3>1. Cardinality(R) + N <= N /\ \A x \in DOMAIN key : x \notin R => Reached(key, u.seen, x)
          BY <1>13, <2>2 DEF Seen, N
    <3>2. R \subseteq DOMAIN key
          BY DEF Left
    <3> HIDE DEF R
    <3>3. IsFiniteSet(R)
          BY <1>2, <3>2, FS_Subset
    <3>4. Cardinality(R) \in Nat /\ (Cardinality(R) = 0 <=> R = {})
          BY <3>3, FS_CardinalityType, FS_EmptySet
    <3>5. R = {}
          BY <1>2, <3>1, <3>4
    <3> QED BY <3>1, <3>5
  <2> QED BY <2>1, <2>2
<1> QED BY <1>1, <1>14, <1>15

\* The pages of the conversations of a sound database.
LEMMA PagesSound ==
    ASSUME NEW d, Sound(d)
    PROVE  LET key == [c \in DOMAIN d.convos |-> -d.convos[c].updated]
               seen == Walk(key, 1)
           IN  /\ IsInjective(seen)
               /\ \A c \in DOMAIN key \ Range(seen) : \E b \in Range(seen) : key[b] = key[c]
<1> DEFINE key == [c \in DOMAIN d.convos |-> -d.convos[c].updated]
           seen == Walk(key, 1)
<1>1. Keyed(key)
  <2>1. DOMAIN key = DOMAIN d.convos /\ \A x \in DOMAIN key : key[x] = -d.convos[x].updated
        OBVIOUS
  <2>2. IsFiniteSet(DOMAIN d.convos) /\ \A c \in DOMAIN d.convos : c \in Nat /\ d.convos[c].updated \in Nat \ {0}
        BY DEF Sound, Dated
  <2> HIDE DEF key
  <2> QED BY <2>1, <2>2 DEF Keyed
<1> HIDE DEF key
<1>2. seen \in Seq(DOMAIN key) /\ Apart(key, seen) /\ \A x \in DOMAIN key : Reached(key, seen, x)
      BY <1>1, WalkSees
<1> HIDE DEF seen
<1>3. DOMAIN seen = 1..Len(seen)
      BY <1>2
<1>4. IsInjective(seen)
      BY <1>2, <1>3 DEF IsInjective, Apart
<1>5. ASSUME NEW c \in DOMAIN key PROVE \E b \in Range(seen) : key[b] = key[c]
  <2>1. PICK i \in 1..Len(seen) : key[seen[i]] = key[c]
        BY <1>2 DEF Reached
  <2>2. seen[i] \in Range(seen)
        BY <1>3 DEF Range
  <2> QED BY <2>1, <2>2
<1> QED BY <1>4, <1>5 DEF seen, key

-----------------------------------------------------------------------------
(* The contents *)

LEMMA RunSound ==
    ASSUME NEW d, Sound(d), NEW s, Stmts(s)
    PROVE  /\ ExecAll(d, s) = Failed \/ Sound(ExecAll(d, s))
           /\ Len(s) \in Nat
           /\ \A n \in 0..Len(s) : LET u == SubSeq(s, 1, n) IN ExecAll(d, u) = Failed \/ Sound(ExecAll(d, u))
<1>1. Len(s) \in Nat /\ \A n \in 1..Len(s) : Statement(s[n])
      BY StmtsLen
<1>2. ExecAll(d, s) = Failed \/ Sound(ExecAll(d, s))
      BY <1>1, ExecAllSound
<1>3. ASSUME NEW n \in 0..Len(s)
      PROVE  ExecAll(d, SubSeq(s, 1, n)) = Failed \/ Sound(ExecAll(d, SubSeq(s, 1, n)))
  <2> DEFINE u == SubSeq(s, 1, n)
  <2>1. Stmts(u)
        BY StmtsLen
  <2> HIDE DEF u
  <2>2. Len(u) \in Nat /\ \A i \in 1..Len(u) : Statement(u[i])
        BY <2>1, StmtsLen
  <2>3. ExecAll(d, u) = Failed \/ Sound(ExecAll(d, u))
        BY <2>2, ExecAllSound
  <2> QED BY <2>3 DEF u
<1> QED BY <1>1, <1>2, <1>3

\* What is open and what is saved is sound; requests are of the contract and dates are numbers.
FilesSound == \A k \in Keys : Sound(file[k].db)
ClockSet == now \in Nat \ {0} /\ ids \in Nat
KeyKnown == wk.up => wk.key \in Keys
OpsKnown == \A c \in Calls : call[c].st \in Waiting \cup Sent => call[c].op \in Ops[c]
WritesOnly == wk.stage = "writing" => call[Head(wk.queue)].op.t \notin Queries
TablesInv == Sound(wk.conn) /\ FilesSound /\ ClockSet /\ KeyKnown /\ OpsKnown /\ WritesOnly

\* A request that is being written runs a list of statements.
LEMMA WritingStmts ==
    ASSUME StoreInv, TablesInv, wk.stage = "writing"
    PROVE  /\ Stmts(Statements(wk.conn, Op)) /\ wk.key \in Keys
           /\ wk.queue # <<>> /\ Head(wk.queue) \in Calls
<1>1. wk.up /\ wk.queue # <<>> /\ Head(wk.queue) \in Calls
      BY DEF StoreInv, WorkerSound
<1>2. wk.queue \in Seq(Names) /\ Once(wk.queue)
      BY DEF StoreInv, WorkerRecords, WorkerSound
<1>3. Head(wk.queue) \in Elems(wk.queue)
      BY <1>1, <1>2, TailOnce
<1> DEFINE c == Head(wk.queue)
<1>4. c \in Calls /\ c \in Elems(wk.queue)
      BY <1>1, <1>3
<1>5. Op = call[c].op
      BY DEF Op
<1>5a. call[c].op.t \notin Queries
      BY DEF TablesInv, WritesOnly
<1> HIDE DEF c
<1>6. call[c].st \in Sent
      BY <1>4 DEF StoreInv, CallsSound
<1>7. call[c].op \in Ops[c]
      BY <1>4, <1>6 DEF TablesInv, OpsKnown
<1>8. IsFiniteSet(DOMAIN wk.conn.msgs) /\ now \in Nat \ {0} /\ ids \in Nat
      BY DEF TablesInv, ClockSet, Sound, Numbered
<1>9. Stmts(Statements(wk.conn, call[c].op))
      BY <1>4, <1>5a, <1>7, <1>8, StatementsOf
<1> QED BY <1>1, <1>5, <1>9 DEF TablesInv, KeyKnown

LEMMA SavedDb == (\A d : Saved(d).db = d) /\ NoFile.db = EmptyDb
BY DEF Saved, NoFile

\* At most one file gets new contents.
LEMMA FileSound ==
    ASSUME FilesTyped, FilesSound, NEW f, Sound(f.db), file' = [file EXCEPT ![wk.key] = f]
    PROVE  FilesSound'
<1>1. \A k \in Keys : file'[k] = file[k] \/ file'[k] = f
      BY DEF FilesTyped
<1> QED BY <1>1 DEF FilesSound

\* The calls that wait or are sent are the ones that did, with what they asked for.
LEMMA OpsStay ==
    ASSUME OpsKnown,
           \A c \in Calls : call'[c].st \in Waiting \cup Sent => call[c].st \in Waiting \cup Sent /\ call'[c].op = call[c].op
    PROVE  OpsKnown'
BY DEF OpsKnown

\* The request that is being written stays the first of the queue.
LEMMA WriteStays ==
    ASSUME StoreInv, TablesInv, wk'.stage = wk.stage, wk.queue # <<>> => Head(wk'.queue) = Head(wk.queue),
           \A b \in Calls : call[b].st \in Sent => call'[b].op = call[b].op
    PROVE  WritesOnly'
<1> SUFFICES ASSUME wk.stage = "writing" PROVE call'[Head(wk'.queue)].op.t \notin Queries
    BY DEF WritesOnly
<1>1. wk.queue # <<>> /\ Head(wk.queue) \in Calls
      BY DEF StoreInv, WorkerSound
<1>2. wk.queue \in Seq(Names) /\ Once(wk.queue)
      BY DEF StoreInv, WorkerRecords, WorkerSound
<1>3. Head(wk.queue) \in Elems(wk.queue)
      BY <1>1, <1>2, TailOnce
<1> DEFINE h == Head(wk.queue)
<1>4. h \in Calls /\ h \in Elems(wk.queue) /\ Head(wk'.queue) = h
      BY <1>1, <1>3
<1>5. call[h].op.t \notin Queries
      BY DEF TablesInv, WritesOnly
<1> HIDE DEF h
<1>6. call[h].st \in Sent
      BY <1>4 DEF StoreInv, CallsSound
<1> QED BY <1>4, <1>5, <1>6

LEMMA TablesInitial == Init => TablesInv
<1> SUFFICES ASSUME Init PROVE TablesInv
    OBVIOUS
<1>1. wk.conn = EmptyDb /\ wk.stage = "idle" /\ wk.up = FALSE
      BY DEF Init, NoWorker
<1>2. \A k \in Keys : file[k].db = EmptyDb
      BY DEF Init, NoFile
<1>3. \A c \in Calls : call[c].st = "idle"
      BY DEF Init, NoCall
<1>4. now \in Nat \ {0} /\ ids \in Nat
      BY DEF Init
<1> QED BY <1>1, <1>2, <1>3, <1>4, SoundEmpty
        DEF TablesInv, FilesSound, ClockSet, KeyKnown, OpsKnown, WritesOnly, Waiting, Sent

\* A fresh worker has nothing open.
LEMMA OpenStoreTables == ASSUME StoreInv, TablesInv, NEW k \in Keys, OpenStore(k) PROVE TablesInv'
<1>1. /\ wk' = [NoWorker EXCEPT !.up = TRUE, !.key = k, !.queue = <<"INIT">>]
      /\ UNCHANGED <<file, call, now, ids>>
      BY DEF OpenStore
<1>2. wk'.conn = EmptyDb /\ wk'.key = k /\ wk'.stage = "idle"
      BY <1>1 DEF NoWorker
<1> QED BY <1>1, <1>2, SoundEmpty DEF TablesInv, FilesSound, ClockSet, KeyKnown, OpsKnown, WritesOnly

LEMMA CallStoreTables ==
    ASSUME StoreInv, TablesInv, NEW c \in Calls, NEW o \in Ops[c], CallStore(c, o) PROVE TablesInv'
<1>0. CallsTyped /\ wk \in WorkerRecords(wk.conn) /\ wk.queue \in Seq(Names) /\ Once(wk.queue)
      BY DEF StoreInv, WorkerRecords, WorkerSound
<1>1. UNCHANGED <<file, now, ids>> /\ call[c].st \in Over
      BY DEF CallStore, Over
<1>2. c \notin Elems(wk.queue)
      BY <1>1 DEF StoreInv, CallsSound, Sent, Over
<1>3. PICK st \in {"waiting", "sent"} : call' = [call EXCEPT ![c] = [st |-> st, op |-> o, res |-> <<>>]]
      BY DEF CallStore
<1>4. call'[c].op = o /\ \A b \in Calls \ {c} : call'[b] = call[b]
      BY <1>0, <1>3 DEF CallsTyped
<1>5. OpsKnown'
  <2> SUFFICES ASSUME NEW b \in Calls, call'[b].st \in Waiting \cup Sent PROVE call'[b].op \in Ops[b]
      BY DEF OpsKnown
  <2>1. CASE b = c
        BY <1>4, <2>1
  <2>2. CASE b # c
        BY <1>4, <2>2 DEF TablesInv, OpsKnown
  <2> QED BY <2>1, <2>2
<1>6. /\ wk'.conn = wk.conn /\ wk'.key = wk.key /\ wk'.up = wk.up /\ wk'.stage = wk.stage
      /\ wk.queue # <<>> => Head(wk'.queue) = Head(wk.queue)
  <2>1. CASE wk' = wk
        BY <2>1
  <2>2. CASE wk' = [wk EXCEPT !.queue = Append(@, c)]
    <3> DEFINE q == Append(wk.queue, c)
    <3>1. wk.queue # <<>> => Head(q) = Head(wk.queue)
          BY <1>0, <1>2, AppendOnce DEF Names
    <3> HIDE DEF q
    <3>2. wk' = [wk EXCEPT !.queue = q]
          BY <2>2 DEF q
    <3>3. wk'.conn = wk.conn /\ wk'.key = wk.key /\ wk'.up = wk.up /\ wk'.stage = wk.stage /\ wk'.queue = q
          BY <1>0, <3>2 DEF WorkerRecords
    <3> QED BY <3>1, <3>3
  <2> QED BY <2>1, <2>2 DEF CallStore
<1>7. WritesOnly'
  <2>1. \A b \in Calls : call[b].st \in Sent => call'[b].op = call[b].op
        BY <1>1, <1>4 DEF Sent, Over
  <2> QED BY <1>6, <2>1, WriteStays
<1> QED BY <1>1, <1>5, <1>6, <1>7 DEF TablesInv, FilesSound, ClockSet, KeyKnown

LEMMA WokenOps ==
    ASSUME StoreInv, OpsKnown, NEW ok \in BOOLEAN, call' = Woken(ok)
    PROVE  OpsKnown' /\ \A b \in Calls : call[b].st \in Sent => call'[b].op = call[b].op
<1>0. proxy.waiters \in Seq(Calls)
      BY DEF StoreInv, ProxyTyped
<1>1. Range(proxy.waiters) = Elems(proxy.waiters)
      BY <1>0, ElemsIsRange
<1>2. ASSUME NEW c \in Calls
      PROVE  /\ c \notin Elems(proxy.waiters) => call'[c] = call[c]
             /\ c \in Elems(proxy.waiters) =>
                   /\ call[c].st \in Waiting
                   /\ ok => call'[c].op = call[c].op
                   /\ ~ok => call'[c].st = "err"
  <2>1. call'[c] = IF c \notin Elems(proxy.waiters) THEN call[c]
                   ELSE IF ok THEN [call[c] EXCEPT !.st = "sent"] ELSE [NoCall EXCEPT !.st = "err"]
        BY <1>1 DEF Woken
  <2>2. [NoCall EXCEPT !.st = "err"].st = "err"
        BY DEF NoCall
  <2>3. [call[c] EXCEPT !.st = "sent"].op = call[c].op
        BY DEF StoreInv, CallsTyped, CallRecords
  <2>4. c \in Elems(proxy.waiters) => call[c].st \in Waiting
        BY DEF StoreInv, CallsSound
  <2> QED BY <2>1, <2>2, <2>3, <2>4
<1>3. \A c \in Calls : call'[c].st \in Waiting \cup Sent => call[c].st \in Waiting \cup Sent /\ call'[c].op = call[c].op
      BY <1>2 DEF Waiting, Sent
<1>4. OpsKnown'
      BY <1>3, OpsStay
<1> QED BY <1>2, <1>4 DEF Waiting, Sent

LEMMA DeliverTables == ASSUME StoreInv, TablesInv, Deliver PROVE TablesInv'
<1> DEFINE r == Head(wk.out)
           o == Tail(wk.out)
           rest == [wk EXCEPT !.out = o]
<1>0. /\ CallsTyped /\ wk \in WorkerRecords(wk.conn)
      /\ proxy.waiters \in Seq(Calls) /\ wk.queue \in Seq(Names) /\ wk.out \in Seq(Answers)
      BY DEF StoreInv, ProxyTyped, WorkerRecords
<1>1. UNCHANGED <<file, now, ids>> /\ wk.out # <<>>
      BY DEF Deliver
<1>2. r.to \in Dests(wk.out) /\ r \in Answers
      BY <1>0, <1>1, TailDest DEF StoreInv, WorkerSound
<1>3. r.to \in Names /\ r.ok \in BOOLEAN
      BY <1>2 DEF Answers
<1>4. /\ rest.conn = wk.conn /\ rest.key = wk.key /\ rest.up = wk.up /\ rest.stage = wk.stage
      /\ rest.queue = wk.queue /\ DOMAIN rest = DOMAIN wk /\ rest = [x \in DOMAIN wk |-> rest[x]]
      /\ "queue" \in DOMAIN wk
      BY <1>0 DEF WorkerRecords
<1>5. CASE /\ r.to = "INIT" /\ call' = Woken(r.ok)
           /\ wk' = IF r.ok THEN [rest EXCEPT !.queue = @ \o proxy.waiters] ELSE rest
  <2>1. OpsKnown' /\ \A b \in Calls : call[b].st \in Sent => call'[b].op = call[b].op
        BY <1>3, <1>5, WokenOps DEF TablesInv
  <2> DEFINE q == wk.queue \o proxy.waiters
  <2>2. wk.queue # <<>> => Head(q) = Head(wk.queue)
    <3> SUFFICES ASSUME wk.queue # <<>> PROVE Head(q) = Head(wk.queue)
        OBVIOUS
    <3>1. wk.queue \in Seq(Names) /\ proxy.waiters \in Seq(Names)
      <4>1. proxy.waiters = [i \in 1..Len(proxy.waiters) |-> proxy.waiters[i]] /\ Len(proxy.waiters) \in Nat
            /\ \A i \in 1..Len(proxy.waiters) : proxy.waiters[i] \in Names
            BY <1>0 DEF Names
      <4>2. [i \in 1..Len(proxy.waiters) |-> proxy.waiters[i]] \in Seq(Names)
            BY <4>1
      <4> QED BY <1>0, <4>1, <4>2
    <3>2. Elems(wk.queue) \cap Elems(proxy.waiters) = {}
      <4>1. Elems(proxy.waiters) \subseteq Calls
            BY <1>0, ElemsIsRange
      <4>2. \A c \in Calls : ~(call[c].st \in Waiting /\ call[c].st \in Sent)
            BY DEF Waiting, Sent
      <4> QED BY <4>1, <4>2 DEF StoreInv, CallsSound
    <3>3. Once(wk.queue) /\ Once(proxy.waiters)
          BY DEF StoreInv, WorkerSound, CallsSound
    <3> QED BY <3>1, <3>2, <3>3, ConcatOnce
  <2> HIDE DEF rest, q
  <2>3. /\ wk'.conn = wk.conn /\ wk'.key = wk.key /\ wk'.up = wk.up /\ wk'.stage = wk.stage
        /\ wk.queue # <<>> => Head(wk'.queue) = Head(wk.queue)
    <3>1. CASE r.ok
      <4>1. wk' = [rest EXCEPT !.queue = q]
            BY <1>4, <1>5, <3>1 DEF q
      <4>2. wk'.conn = rest.conn /\ wk'.key = rest.key /\ wk'.up = rest.up /\ wk'.stage = rest.stage /\ wk'.queue = q
            BY <1>4, <4>1
      <4> QED BY <1>4, <2>2, <4>2
    <3>2. CASE ~r.ok
          BY <1>4, <1>5, <3>2
    <3> QED BY <3>1, <3>2
  <2>4. WritesOnly'
        BY <2>1, <2>3, WriteStays
  <2> QED BY <1>1, <2>1, <2>3, <2>4 DEF TablesInv, FilesSound, ClockSet, KeyKnown
<1>6. CASE /\ r.to # "INIT" /\ wk' = rest
           /\ call' = [call EXCEPT ![r.to] = [NoCall EXCEPT !.st = IF r.ok THEN "idle" ELSE "err"]]
  <2> DEFINE st == IF r.ok THEN "idle" ELSE "err"
             e == [NoCall EXCEPT !.st = st]
  <2>1. e.st \notin Waiting \cup Sent
        BY DEF NoCall, Waiting, Sent
  <2>2. r.to \in Calls /\ call[r.to].st \in Served
        BY <1>2, <1>3, <1>6 DEF Names, StoreInv, CallsSound
  <2>3. call'[r.to] = e /\ \A b \in Calls \ {r.to} : call'[b] = call[b]
        BY <1>0, <1>6, <2>2 DEF CallsTyped
  <2> HIDE DEF e, rest
  <2>4. \A c \in Calls : call'[c].st \in Waiting \cup Sent => call[c].st \in Waiting \cup Sent /\ call'[c].op = call[c].op
    <3> TAKE c \in Calls
    <3>1. CASE c = r.to
      <4>1. call'[c].st \notin Waiting \cup Sent
            BY <2>1, <2>3, <3>1
      <4> QED BY <4>1
    <3>2. CASE c # r.to
      <4>1. call'[c] = call[c] /\ call[c].st \in Statuses
            BY <2>3, <3>2 DEF StoreInv, CallsTyped, CallRecords
      <4> QED BY <4>1
    <3> QED BY <3>1, <3>2
  <2>5. OpsKnown'
        BY <2>4, OpsStay DEF TablesInv
  <2>6. \A b \in Calls : call[b].st \in Sent => call'[b].op = call[b].op
        BY <2>2, <2>3 DEF Sent, Served
  <2>7. WritesOnly'
        BY <1>4, <1>6, <2>6, WriteStays
  <2> QED BY <1>1, <1>4, <1>6, <2>5, <2>7 DEF TablesInv, FilesSound, ClockSet, KeyKnown
<1> QED BY <1>5, <1>6 DEF Deliver

LEMMA WorkerErrorTables == ASSUME StoreInv, TablesInv, WorkerError PROVE TablesInv'
<1>1. call' = Woken(FALSE) /\ UNCHANGED <<file, now, ids>> /\ wk.stage = "idle" /\ wk' = [wk EXCEPT !.queue = <<>>]
      BY DEF WorkerError
<1>2. OpsKnown'
      BY <1>1, WokenOps DEF TablesInv
<1>3. wk'.conn = wk.conn /\ wk'.key = wk.key /\ wk'.up = wk.up /\ wk'.stage = "idle"
      BY <1>1 DEF StoreInv, WorkerRecords
<1> QED BY <1>1, <1>2, <1>3 DEF TablesInv, FilesSound, ClockSet, KeyKnown, WritesOnly

\* A step of the worker that is no write: it may open another database.
LEMMA StepTables ==
    ASSUME StoreInv, TablesInv, NEW d, Sound(d), wk'.conn = d, wk'.key = wk.key, wk'.up = wk.up, wk'.stage # "writing",
           FilesSound', ClockSet', UNCHANGED call
    PROVE  TablesInv'
BY DEF TablesInv, KeyKnown, OpsKnown, WritesOnly

LEMMA InitTables ==
    ASSUME StoreInv, TablesInv, StartInit \/ InitLoad \/ InitOpen \/ InitRead \/ InitReopen \/ InitReread \/ InitSchema
    PROVE  TablesInv'
<1>0. FilesTyped /\ wk \in WorkerRecords(wk.conn) /\ Sound(wk.conn) /\ FilesSound /\ ClockSet
      BY DEF StoreInv, TablesInv
<1>1. UNCHANGED <<call, now, ids>> /\ ClockSet'
      BY <1>0 DEF StartInit, InitLoad, InitOpen, InitRead, InitReopen, InitReread, InitSchema, ClockSet
<1>2. UNCHANGED file => FilesSound'
      BY <1>0 DEF FilesSound
<1>3. ASSUME NEW st
      PROVE  LET w == [wk EXCEPT !.stage = st] IN
             w.conn = wk.conn /\ w.key = wk.key /\ w.up = wk.up /\ w.stage = st
      BY <1>0 DEF WorkerRecords
<1>4. ASSUME NEW ok
      PROVE  LET w == Reply(wk, ok) IN
             w.conn = wk.conn /\ w.key = wk.key /\ w.up = wk.up /\ w.stage = "idle"
      BY <1>0 DEF WorkerRecords, Reply
<1>5. ASSUME NEW b, NEW p, NEW d, NEW st
      PROVE  LET w == [wk EXCEPT !.db = b, !.persistent = p, !.conn = d, !.stage = st] IN
             w.conn = d /\ w.key = wk.key /\ w.up = wk.up /\ w.stage = st
      BY <1>0 DEF WorkerRecords
<1>6. ASSUME NEW st, st # "writing", NEW d, Sound(d), wk' \in OpenDb(st, d), UNCHANGED file
      PROVE  TablesInv'
  <2>1. CASE wk' = [wk EXCEPT !.db = TRUE, !.persistent = TRUE, !.conn = d, !.stage = st]
    <3>1. wk'.conn = d /\ wk'.key = wk.key /\ wk'.up = wk.up /\ wk'.stage # "writing"
          BY <1>5, <1>6, <2>1
    <3> QED BY <1>1, <1>2, <1>6, <3>1, StepTables
  <2>2. CASE wk' = [wk EXCEPT !.db = TRUE, !.persistent = FALSE, !.conn = EmptyDb, !.stage = "schema"]
    <3>1. wk'.conn = EmptyDb /\ wk'.key = wk.key /\ wk'.up = wk.up /\ wk'.stage # "writing"
          BY <1>5, <2>2
    <3> QED BY <1>1, <1>2, <1>6, <3>1, SoundEmpty, StepTables
  <2> QED BY <1>6, <2>1, <2>2 DEF OpenDb
<1>7. CASE StartInit
  <2>1. wk' = [wk EXCEPT !.stage = "loading"] /\ UNCHANGED file
        BY <1>7 DEF StartInit
  <2>2. wk'.conn = wk.conn /\ wk'.key = wk.key /\ wk'.up = wk.up /\ wk'.stage # "writing"
        BY <1>3, <2>1
  <2> QED BY <1>0, <1>1, <1>2, <2>1, <2>2, StepTables
<1>8. CASE InitLoad
  <2>1. UNCHANGED file /\ (wk' = [wk EXCEPT !.stage = "opening"] \/ wk' = Reply(wk, FALSE))
        BY <1>8 DEF InitLoad
  <2>2. wk'.conn = wk.conn /\ wk'.key = wk.key /\ wk'.up = wk.up /\ wk'.stage # "writing"
    <3>1. CASE wk' = [wk EXCEPT !.stage = "opening"]
          BY <1>3, <3>1
    <3>2. CASE wk' = Reply(wk, FALSE)
          BY <1>4, <3>2
    <3> QED BY <2>1, <3>1, <3>2
  <2> QED BY <1>0, <1>1, <1>2, <2>1, <2>2, StepTables
<1>9. CASE InitOpen
  <2>1. UNCHANGED file /\ wk' \in OpenDb("reading", file[wk.key].db) /\ wk.stage = "opening"
        BY <1>9 DEF InitOpen
  <2>2. wk.key \in Keys
        BY <2>1 DEF StoreInv, WorkerSound, TablesInv, KeyKnown
  <2>3. Sound(file[wk.key].db)
        BY <1>0, <2>2 DEF FilesSound
  <2> QED BY <1>6, <2>1, <2>3
<1>10. CASE InitRead
  <2>1. CASE wk' = [wk EXCEPT !.stage = "schema"] /\ UNCHANGED file
    <3>1. wk'.conn = wk.conn /\ wk'.key = wk.key /\ wk'.up = wk.up /\ wk'.stage # "writing"
          BY <1>3, <2>1
    <3> QED BY <1>0, <1>1, <1>2, <2>1, <3>1, StepTables
  <2>2. CASE /\ wk' = [wk EXCEPT !.stage = "reopening", !.db = FALSE, !.conn = EmptyDb]
             /\ file' \in {file, [file EXCEPT ![wk.key] = NoFile]}
    <3>1. wk'.conn = EmptyDb /\ wk'.key = wk.key /\ wk'.up = wk.up /\ wk'.stage # "writing"
          BY <1>0, <2>2 DEF WorkerRecords
    <3>2. FilesSound'
          BY <1>0, <1>2, <2>2, SavedDb, SoundEmpty, FileSound
    <3> QED BY <1>1, <3>1, <3>2, SoundEmpty, StepTables
  <2> QED BY <1>10, <2>1, <2>2 DEF InitRead
<1>11. CASE InitReopen
  <2>1. UNCHANGED file /\ wk' \in OpenDb("rereading", file[wk.key].db) /\ wk.stage = "reopening"
        BY <1>11 DEF InitReopen
  <2>2. wk.key \in Keys
        BY <2>1 DEF StoreInv, WorkerSound, TablesInv, KeyKnown
  <2>3. Sound(file[wk.key].db)
        BY <1>0, <2>2 DEF FilesSound
  <2> QED BY <1>6, <2>1, <2>3
<1>12. CASE InitSchema
  <2>1. wk' = Reply(wk, TRUE) \/ wk' = Reply(wk, FALSE)
        BY <1>12 DEF InitSchema
  <2>2. wk'.conn = wk.conn /\ wk'.key = wk.key /\ wk'.up = wk.up /\ wk'.stage # "writing"
        BY <1>4, <2>1
  <2>3. UNCHANGED file \/ file' = [file EXCEPT ![wk.key] = Saved(wk.conn)]
        BY <1>12 DEF InitSchema
  <2>4. FilesSound'
        BY <1>0, <1>2, <2>3, SavedDb, FileSound
  <2> QED BY <1>0, <1>1, <2>2, <2>4, StepTables
<1>13. CASE InitReread
  <2>1. UNCHANGED file /\ (wk' = [wk EXCEPT !.stage = "schema"] \/ wk' = Reply(wk, FALSE))
        BY <1>13 DEF InitReread
  <2>2. wk'.conn = wk.conn /\ wk'.key = wk.key /\ wk'.up = wk.up /\ wk'.stage # "writing"
    <3>1. CASE wk' = [wk EXCEPT !.stage = "schema"]
          BY <1>3, <3>1
    <3>2. CASE wk' = Reply(wk, FALSE)
          BY <1>4, <3>2
    <3> QED BY <2>1, <3>1, <3>2
  <2> QED BY <1>0, <1>1, <1>2, <2>1, <2>2, StepTables
<1> QED BY <1>7, <1>8, <1>9, <1>10, <1>11, <1>12, <1>13

\* A call gets a status and an answer, and keeps what it asks for.
LEMMA CallOps ==
    ASSUME CallsTyped, OpsKnown, NEW c \in Calls, NEW st, st \notin Waiting \cup Sent, NEW res,
           call' = [call EXCEPT ![c].st = st, ![c].res = res]
    PROVE  OpsKnown'
<1> DEFINE r == [call[c] EXCEPT !.st = st, !.res = res]
<1>1. call'[c] = r /\ \A b \in Calls \ {c} : call'[b] = call[b]
      BY DEF CallsTyped
<1>2. r.st = st
      BY DEF CallsTyped, CallRecords
<1> HIDE DEF r
<1>3. \A b \in Calls : call'[b].st \in Waiting \cup Sent => call[b].st \in Waiting \cup Sent /\ call'[b].op = call[b].op
  <2> TAKE b \in Calls
  <2>1. CASE b = c
    <3>1. call'[b].st \notin Waiting \cup Sent
          BY <1>1, <1>2, <2>1
    <3> QED BY <3>1
  <2>2. CASE b # c
        BY <1>1, <2>2
  <2> QED BY <2>1, <2>2
<1> QED BY <1>3, OpsStay

LEMMA ServeQueryTables == ASSUME StoreInv, TablesInv, NEW c \in Calls, ServeQuery(c) PROVE TablesInv'
<1> DEFINE st == IF wk.db THEN "served" ELSE "refused"
           res == IF wk.db THEN Query(wk.conn, call[c].op) ELSE <<>>
           w == Reply(wk, wk.db)
<1>1. /\ wk' = w /\ UNCHANGED <<file, now, ids>>
      /\ call' = [call EXCEPT ![c].st = st, ![c].res = res]
      BY DEF ServeQuery
<1>2. w.conn = wk.conn /\ w.key = wk.key /\ w.up = wk.up /\ w.stage = "idle"
      BY DEF StoreInv, WorkerRecords, Reply
<1>3. st \notin Waiting \cup Sent
      BY DEF Waiting, Sent
<1> HIDE DEF st, res, w
<1>4. OpsKnown'
      BY <1>1, <1>3, CallOps DEF StoreInv, TablesInv
<1> QED BY <1>1, <1>2, <1>4 DEF TablesInv, FilesSound, ClockSet, KeyKnown, WritesOnly

LEMMA StartWriteTables == ASSUME StoreInv, TablesInv, NEW c \in Calls, StartWrite(c) PROVE TablesInv'
<1>1. /\ Head(wk.queue) = c /\ wk' = [wk EXCEPT !.stage = "writing"] /\ call[c].op.t \notin Queries
      /\ UNCHANGED <<file, call, ids>>
      BY DEF StartWrite, Serving
<1>2. now' \in {now, now + 1}
      BY DEF StartWrite
<1>3. ClockSet'
      BY <1>1, <1>2 DEF TablesInv, ClockSet
<1>4. wk'.conn = wk.conn /\ wk'.key = wk.key /\ wk'.up = wk.up /\ wk'.queue = wk.queue
      BY <1>1 DEF StoreInv, WorkerRecords
<1> QED BY <1>1, <1>3, <1>4 DEF TablesInv, FilesSound, KeyKnown, OpsKnown, WritesOnly

LEMMA FinishWriteTables == ASSUME StoreInv, TablesInv, NEW c \in Calls, FinishWrite(c) PROVE TablesInv'
<1> DEFINE stmts == Statements(wk.conn, Op)
           D == ExecAll(wk.conn, stmts)
<1>1. /\ wk.stage = "writing" /\ c = Head(wk.queue) /\ ids' = NextIds /\ UNCHANGED now
      BY DEF FinishWrite
<1>2. D = Failed \/ Sound(D)
      BY <1>1, WritingStmts, RunSound DEF TablesInv
<1>3. PICK ok \in BOOLEAN, late \in BOOLEAN :
          /\ D = Failed => ~ok
          /\ LET after == Tx(wk.conn, stmts, ok)
             IN  /\ wk' = [Reply(wk, ok /\ ~late) EXCEPT !.conn = after]
                 /\ file' = IF wk.persistent THEN [file EXCEPT ![wk.key] = Saved(after)] ELSE file
                 /\ call' = [call EXCEPT
                               ![c].st = IF late THEN "cleared" ELSE IF ok THEN "served" ELSE "refused",
                               ![c].res = IF ok /\ Op.t = "FORK" THEN ids ELSE <<>>]
  <2> DEFINE A(ok, late) ==
                LET after == Tx(wk.conn, stmts, ok)
                IN  /\ wk' = [Reply(wk, ok /\ ~late) EXCEPT !.conn = after]
                    /\ file' = IF wk.persistent THEN [file EXCEPT ![wk.key] = Saved(after)] ELSE file
                    /\ call' = [call EXCEPT
                                  ![c].st = IF late THEN "cleared" ELSE IF ok THEN "served" ELSE "refused",
                                  ![c].res = IF ok /\ Op.t = "FORK" THEN ids ELSE <<>>]
  <2>1. \E ok \in IF D = Failed THEN {FALSE} ELSE BOOLEAN :
        \E late \in IF ok /\ Op.t = "CLEAR_ALL" THEN BOOLEAN ELSE {FALSE} : A(ok, late)
        BY DEF FinishWrite
  <2> HIDE DEF A, D
  <2>2. \E ok \in BOOLEAN, late \in BOOLEAN : (D = Failed => ~ok) /\ A(ok, late)
        BY <2>1
  <2> QED BY <2>2 DEF A
<1> DEFINE after == Tx(wk.conn, stmts, ok)
           v == Reply(wk, ok /\ ~late)
           st == IF late THEN "cleared" ELSE IF ok THEN "served" ELSE "refused"
           res == IF ok /\ Op.t = "FORK" THEN ids ELSE <<>>
<1>4. Sound(after)
  <2>1. after = IF ok THEN D ELSE wk.conn
        BY DEF Tx
  <2> HIDE DEF D, after
  <2> QED BY <1>2, <1>3, <2>1 DEF TablesInv
<1>5. /\ wk' = [v EXCEPT !.conn = after] /\ call' = [call EXCEPT ![c].st = st, ![c].res = res]
      /\ file' = IF wk.persistent THEN [file EXCEPT ![wk.key] = Saved(after)] ELSE file
      BY <1>3
<1>6. st \notin Waiting \cup Sent
      BY DEF Waiting, Sent
<1>7. /\ v.key = wk.key /\ v.up = wk.up /\ v.stage = "idle" /\ v = [x \in DOMAIN v |-> v[x]]
      /\ DOMAIN v = DOMAIN wk
      BY DEF StoreInv, WorkerRecords, Reply
<1>8. "conn" \in DOMAIN wk
      BY DEF StoreInv, WorkerRecords
<1> HIDE DEF after, v, st, res
<1>9. wk'.conn = after /\ wk'.key = wk.key /\ wk'.up = wk.up /\ wk'.stage = "idle"
      BY <1>5, <1>7, <1>8
<1>10. OpsKnown'
      BY <1>5, <1>6, CallOps DEF StoreInv, TablesInv
<1>11. FilesSound'
  <2>1. FilesTyped /\ FilesSound
        BY DEF StoreInv, TablesInv
  <2>2. CASE wk.persistent
        BY <1>4, <1>5, <2>1, <2>2, SavedDb, FileSound
  <2>3. CASE ~wk.persistent
        BY <1>5, <2>1, <2>3 DEF FilesSound
  <2> QED BY <2>2, <2>3
<1>12. ClockSet'
      BY <1>1 DEF TablesInv, ClockSet, NextIds
<1> QED BY <1>4, <1>9, <1>10, <1>11, <1>12 DEF TablesInv, KeyKnown, WritesOnly

\* What a write leaves that was cut short is what its first statements made, or nothing.
LEMMA TerminateTables == ASSUME StoreInv, TablesInv, Terminate PROVE TablesInv'
<1>1. wk' = NoWorker /\ UNCHANGED now
      BY DEF Terminate
<1>2. wk'.conn = EmptyDb /\ wk'.up = FALSE /\ wk'.stage = "idle"
      BY <1>1 DEF NoWorker
<1>3. ClockSet'
      BY <1>1 DEF TablesInv, ClockSet, NextIds, Terminate
<1>4. OpsKnown'
  <2>1. call' = [c \in Calls |-> IF call[c].st \in Over THEN call[c] ELSE [NoCall EXCEPT !.st = "err"]]
        BY DEF Terminate, Over
  <2>2. [NoCall EXCEPT !.st = "err"].st = "err"
        BY DEF NoCall
  <2>3. \A c \in Calls : call'[c].st \in Over
        BY <2>1, <2>2 DEF Over
  <2> QED BY <2>3 DEF OpsKnown, Over, Waiting, Sent
<1>5. FilesSound'
  <2>0. FilesTyped /\ FilesSound /\ Sound(wk.conn)
        BY DEF StoreInv, TablesInv
  <2>1. CASE wk.stage = "writing" /\ wk.persistent
    <3> DEFINE stmts == Statements(wk.conn, Op)
               torn == {ExecAll(wk.conn, SubSeq(stmts, 1, n)) : n \in 0..Len(stmts)} \ {Failed}
    <3>1. \E f \in {Saved(d) : d \in torn} \union {[st |-> "bad", db |-> EmptyDb]} :
              file' = [file EXCEPT ![wk.key] = f]
          BY <2>1 DEF Terminate
    <3>2. Stmts(stmts)
          BY <2>1, WritingStmts
    <3>3. ASSUME NEW d \in torn PROVE Sound(d)
      <4> HIDE DEF stmts
      <4>1. \A n \in 0..Len(stmts) : LET u == SubSeq(stmts, 1, n) IN
                ExecAll(wk.conn, u) = Failed \/ Sound(ExecAll(wk.conn, u))
            BY <2>0, <3>2, RunSound
      <4> QED BY <4>1
    <3> HIDE DEF torn
    <3>4. PICK f \in {Saved(d) : d \in torn} \union {[st |-> "bad", db |-> EmptyDb]} :
              file' = [file EXCEPT ![wk.key] = f]
          BY <3>1
    <3>5. Sound(f.db)
      <4>1. CASE f \in {Saved(d) : d \in torn}
            BY <3>3, <4>1, SavedDb
      <4>2. CASE f = [st |-> "bad", db |-> EmptyDb]
            BY <4>2, SoundEmpty
      <4> QED BY <3>4, <4>1, <4>2
    <3> QED BY <2>0, <3>4, <3>5, FileSound
  <2>2. CASE ~(wk.stage = "writing" /\ wk.persistent)
    <3>1. file' = file
          BY <2>2 DEF Terminate
    <3> QED BY <2>0, <3>1 DEF FilesSound
  <2> QED BY <2>1, <2>2
<1> QED BY <1>2, <1>3, <1>4, <1>5, SoundEmpty DEF TablesInv, KeyKnown, WritesOnly

LEMMA TablesInductive == StoreInv /\ TablesInv /\ [Next]_vars => TablesInv'
<1> SUFFICES ASSUME StoreInv, TablesInv, [Next]_vars PROVE TablesInv'
    OBVIOUS
<1>1. CASE UNCHANGED vars
      BY <1>1 DEF vars, TablesInv, FilesSound, ClockSet, KeyKnown, OpsKnown, WritesOnly
<1>2. CASE \E k \in Keys : OpenStore(k)
      BY <1>2, OpenStoreTables
<1>3. CASE \E c \in Calls : \E o \in Ops[c] : CallStore(c, o)
      BY <1>3, CallStoreTables
<1>4. CASE Deliver \/ WorkerError \/ Terminate
      BY <1>4, DeliverTables, WorkerErrorTables, TerminateTables
<1>5. CASE WorkerStep
      BY <1>5, InitTables, ServeQueryTables, StartWriteTables, FinishWriteTables DEF WorkerStep
<1> QED BY <1>1, <1>2, <1>3, <1>4, <1>5 DEF Next

\* Whatever is inserted, rewritten, moved to another conversation or cascaded away, and
\* wherever a write is cut short: in every database that can be opened the full-text index
\* has one entry for each message, with its text, no message is without its conversation, and
\* a reader who follows the cursors of the list sees every conversation once, except those
\* with the date of another (the triggers and the foreign key of schema.sql.ts, listConvos).
THEOREM TablesStaySound == Spec => []TablesSound
<1>1. StoreInv /\ TablesInv => TablesSound
  <2> SUFFICES ASSUME TablesInv PROVE TablesSound
      OBVIOUS
  <2>1. \A d \in Databases : Sound(d)
        BY DEF TablesInv, FilesSound, Databases
  <2>2. IndexMatchesMessages
        BY <2>1 DEF IndexMatchesMessages, Sound, Indexed
  <2>3. MessagesHaveConversation
        BY <2>1 DEF MessagesHaveConversation, Sound, Belong
  <2>4. PagesMissOnlyTies
    <3>1. ASSUME NEW d \in Databases
          PROVE  LET key == [c \in DOMAIN d.convos |-> -d.convos[c].updated]
                     seen == Walk(key, 1)
                 IN  /\ IsInjective(seen)
                     /\ \A c \in DOMAIN key \ Range(seen) : \E b \in Range(seen) : key[b] = key[c]
      <4>1. Sound(d)
            BY <2>1
      <4> QED BY <4>1, PagesSound
    <3> QED BY <3>1, Zenon DEF PagesMissOnlyTies
  <2> QED BY <2>2, <2>3, <2>4 DEF TablesSound
<1> QED BY <1>1, StoreInitial, StoreInductive, TablesInitial, TablesInductive, PTL DEF Spec
=============================================================================
