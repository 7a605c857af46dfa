---------------------------- MODULE ChatTurnProofs ----------------------------
(***************************************************************************)
(* Proofs about ChatTurn for every set of seeds and turns, replies of any  *)
(* length and any number of unlocks.                                       *)
(***************************************************************************)
EXTENDS ChatTurn, TLAPS

-----------------------------------------------------------------------------
(* The inductive invariant *)

Deltas == {"token", "tool"}
Endings == {"done", "error", "unauthorized"}
EventRecords == [ev : Deltas \cup Endings \cup {"receipt"}, n : Nat, i : Nat, key : Nat, cut : BOOLEAN]

TurnRecords ==
    [st : {"idle", "gathering", "streaming", "closed"}, by : Seeds \cup {None}, temp : BOOLEAN,
     cancelled : BOOLEAN, sess : Nat, streams : Nat, retries : Nat,
     net : Seq(EventRecords), chunk : Seq(EventRecords), chain : Seq(EventRecords),
     done : BOOLEAN, resign : BOOLEAN, sent : Seq(EventRecords), acc : Seq(EventRecords),
     shows : {"nothing", "text", "final", "error", "late"}]

\* What is still to come of a stream: deltas of that stream, and one end, which is last.  A
\* 401 is the whole answer.
EventsSound(n, s) ==
    /\ \A i \in 1..Len(s) : s[i].ev \in Deltas => s[i].n = n
    /\ \A i \in 1..Len(s) : s[i].ev \in Endings => i = Len(s)
    /\ \A i \in 1..Len(s) : s[i].ev = "unauthorized" => i = 1

\* The deltas of s are in order, and those of a come before those of b.
Ordered(s) ==
    \A i, j \in 1..Len(s) : i < j /\ s[i].ev \in Deltas /\ s[j].ev \in Deltas => s[i].i < s[j].i
Follows(a, b) ==
    \A i \in 1..Len(a), j \in 1..Len(b) : a[i].ev \in Deltas /\ b[j].ev \in Deltas => a[i].i < b[j].i

\* s has deltas of stream n.
DeltasOf(n, s) == \A i \in 1..Len(s) : s[i].n = n /\ s[i].ev \in Deltas

\* What was opened comes before what waits to be, that before what is dispatched next, and
\* that before what is still to be received.
InOrder(r) ==
    /\ Ordered(r.acc) /\ Ordered(r.chain) /\ Ordered(r.chunk) /\ Ordered(r.net)
    /\ Follows(r.acc, r.chain) /\ Follows(r.acc, r.chunk) /\ Follows(r.acc, r.net)
    /\ Follows(r.chain, r.chunk) /\ Follows(r.chain, r.net) /\ Follows(r.chunk, r.net)

\* The tail of the stream belongs to it.
StreamSound(r) ==
    /\ EventsSound(r.streams, r.chunk) /\ EventsSound(r.streams, r.net)
    /\ \A i \in 1..Len(r.chunk) : r.chunk[i].ev \in Endings => r.net = <<>>
    /\ \A i \in 1..Len(r.chunk) : r.chunk[i].ev = "unauthorized" => r.sent = <<>>
    /\ \A i \in 1..Len(r.net) : r.net[i].ev = "unauthorized" => r.chunk = <<>> /\ r.sent = <<>>
    /\ DeltasOf(r.streams, r.acc) /\ DeltasOf(r.streams, r.chain)
    /\ InOrder(r)

\* Where the control of a submission is.
ControlSound(r) ==
    /\ r.retries <= MAX401Retries /\ r.streams <= r.retries + 1
    /\ r.st \in {"idle", "gathering"} => /\ r.streams = 0 /\ r.retries = 0 /\ r.net = <<>>
                                         /\ ~Busy(r) /\ r.sent = <<>> /\ r.acc = <<>>
    /\ r.st = "idle" => ~r.cancelled
    /\ r.resign => /\ r.chunk = <<>> /\ r.net = <<>> /\ r.sent = <<>> /\ ~r.done /\ r.st = "closed"
                   /\ r.streams <= r.retries
    /\ r.done => r.chunk = <<>> /\ r.net = <<>> /\ r.st = "closed"
    /\ r.sent = <<>> => r.acc = <<>> /\ r.chain = <<>>
    /\ r.streams = 0 => r.net = <<>> /\ ~Busy(r) /\ r.sent = <<>>

\* Every delta that was dispatched and opens is opened or waits in the chain.
OpenedSound(r) == Range(r.acc) \cup {e \in Range(r.chain) : e.key = r.sess /\ ~e.cut} = Openable(r)

\* Whose it is: until it is cleaned up the tab is its author's or locked, and no delta that
\* opens is lost; after that it does nothing.
OwnerSound(r) ==
    /\ r.st # "idle" => r.by \in Seeds
    /\ r.st # "idle" /\ ~r.cancelled /\ ident # None => ident = r.by
    /\ r.st # "idle" /\ ~r.cancelled /\ r.streams # 0 => r.sess = sess
    /\ ~r.cancelled /\ ident # None => OpenedSound(r)
    /\ r.cancelled => ~Busy(r) /\ r.net = <<>> /\ r.st \in {"gathering", "closed"}

TurnSound(r) == StreamSound(r) /\ ControlSound(r) /\ OwnerSound(r)

\* A text that has what could be opened of the last stream, in order.
TextSound(text, r) ==
    /\ Range(text) = Openable(r) /\ DOMAIN text = 1..Len(text)
    /\ DeltasOf(r.streams, text) /\ Ordered(text)

\* A row has the reply of a turn that is over.
RowSound(row) ==
    /\ row.turn \in Turns
    /\ LET r == turn[row.turn] IN
       /\ r.st = "closed" /\ ~Busy(r) /\ r.net = <<>>
       /\ TextSound(row.text, r) /\ row.file = r.by /\ ~r.temp

ChatInv ==
    /\ ident \in Seeds \cup {None} /\ sess \in 0..MaxUnlocks
    /\ store.owner \in {ident, None} /\ store.waiting = {}
    /\ submitting \in BOOLEAN
    /\ turn \in [Turns -> TurnRecords]
    /\ \A t \in Turns : TurnSound(turn[t])
    /\ \A row \in rows : RowSound(row)

-----------------------------------------------------------------------------
(* Sequences *)

LEMMA RangeAppend ==
    ASSUME NEW s \in Seq(EventRecords), NEW e \in EventRecords
    PROVE  Range(Append(s, e)) = Range(s) \cup {e}
<1>1. /\ DOMAIN s = 1..Len(s) /\ Len(s) \in Nat
      /\ DOMAIN Append(s, e) = 1..(Len(s) + 1)
      /\ \A i \in 1..Len(s) : Append(s, e)[i] = s[i] /\ i \in 1..(Len(s) + 1)
      /\ Append(s, e)[Len(s) + 1] = e
      OBVIOUS
<1>2. \A i \in 1..(Len(s) + 1) : i \in 1..Len(s) \/ i = Len(s) + 1
      BY <1>1
<1>3. Len(s) + 1 \in 1..(Len(s) + 1)
      BY <1>1
<1> DEFINE a == Append(s, e)
<1> HIDE DEF a
<1>4. /\ DOMAIN a = 1..(Len(s) + 1) /\ \A i \in 1..Len(s) : a[i] = s[i] /\ i \in 1..(Len(s) + 1)
      /\ a[Len(s) + 1] = e
      BY <1>1 DEF a
<1>5. Range(a) \subseteq Range(s) \cup {e}
      BY <1>1, <1>2, <1>4 DEF Range
<1>6. Range(s) \cup {e} \subseteq Range(a)
      BY <1>1, <1>3, <1>4 DEF Range
<1> QED BY <1>5, <1>6 DEF a

LEMMA RangeHead ==
    ASSUME NEW s \in Seq(EventRecords), s # <<>>
    PROVE  /\ Head(s) \in EventRecords /\ Tail(s) \in Seq(EventRecords)
           /\ Head(s) = s[1] /\ 1 \in 1..Len(s)
           /\ \A i \in 1..Len(Tail(s)) : i + 1 \in 1..Len(s) /\ Tail(s)[i] = s[i + 1] /\ 1 < i + 1
           /\ Range(s) = {Head(s)} \cup Range(Tail(s))
<1> DEFINE h == Head(s)
           c == Tail(s)
<1>1. Len(s) \in Nat /\ Len(s) >= 1 /\ h \in EventRecords /\ h = s[1] /\ DOMAIN s = 1..Len(s)
      OBVIOUS
<1>2. c \in Seq(EventRecords) /\ Len(c) = Len(s) - 1 /\ DOMAIN c = 1..(Len(s) - 1)
      OBVIOUS
<1>3. \A i \in 1..(Len(s) - 1) : i + 1 \in 1..Len(s) /\ c[i] = s[i + 1] /\ 1 < i + 1
      OBVIOUS
<1>4. \A i \in 1..Len(s) : i = 1 \/ (i - 1 \in 1..(Len(s) - 1) /\ (i - 1) + 1 = i)
      BY <1>1
<1> HIDE DEF h, c
<1>5. Range(s) \subseteq {h} \cup Range(c)
  <2> SUFFICES ASSUME NEW i \in 1..Len(s) PROVE s[i] \in {h} \cup Range(c)
      BY <1>1 DEF Range
  <2>1. CASE i = 1
        BY <1>1, <2>1
  <2>2. CASE i # 1
        BY <1>2, <1>3, <1>4, <2>2 DEF Range
  <2> QED BY <2>1, <2>2
<1>6. {h} \cup Range(c) \subseteq Range(s)
  <2>1. 1 \in 1..Len(s)
        BY <1>1
  <2>2. h \in Range(s)
        BY <1>1, <2>1 DEF Range
  <2>3. \A i \in 1..(Len(s) - 1) : c[i] \in Range(s)
    <3> SUFFICES ASSUME NEW i \in 1..(Len(s) - 1) PROVE c[i] \in Range(s)
        OBVIOUS
    <3>1. i + 1 \in DOMAIN s /\ c[i] = s[i + 1]
          BY <1>1, <1>3
    <3> QED BY <3>1 DEF Range
  <2>4. Range(c) \subseteq Range(s)
        BY <1>2, <2>3 DEF Range
  <2> QED BY <2>2, <2>4
<1>7. 1 \in 1..Len(s)
      BY <1>1
<1> QED BY <1>1, <1>2, <1>3, <1>5, <1>6, <1>7 DEF h, c

\* The head of c goes from the front of c to the end of a.
LEMMA OrderMoves ==
    ASSUME NEW a \in Seq(EventRecords), NEW c \in Seq(EventRecords), c # <<>>,
           Ordered(a), Ordered(c), Follows(a, c)
    PROVE  /\ Append(a, Head(c)) \in Seq(EventRecords)
           /\ Ordered(Append(a, Head(c))) /\ Ordered(Tail(c)) /\ Follows(a, Tail(c))
           /\ Follows(Append(a, Head(c)), Tail(c))
           /\ \A b : Follows(a, b) /\ Follows(c, b) => Follows(Append(a, Head(c)), b) /\ Follows(Tail(c), b)
           /\ \A b : Follows(b, a) /\ Follows(b, c) => Follows(b, Append(a, Head(c))) /\ Follows(b, Tail(c))
<1> DEFINE h == Head(c)
           t == Tail(c)
           x == Append(a, h)
<1>1. /\ h \in EventRecords /\ t \in Seq(EventRecords) /\ h = c[1] /\ 1 \in 1..Len(c)
      /\ \A i \in 1..Len(t) : i + 1 \in 1..Len(c) /\ t[i] = c[i + 1] /\ 1 < i + 1
      BY RangeHead
<1> HIDE DEF h, t
<1>2. /\ x \in Seq(EventRecords) /\ Len(x) = Len(a) + 1 /\ Len(a) \in Nat
      /\ \A i \in 1..Len(a) : x[i] = a[i]
      /\ x[Len(a) + 1] = h
      BY <1>1
<1> HIDE DEF x
<1>3. \A i \in 1..Len(x) : (i \in 1..Len(a) /\ x[i] = a[i]) \/ (i = Len(a) + 1 /\ x[i] = h)
      BY <1>2
<1>4. Len(t) \in Nat
      BY <1>1
<1>5. Ordered(x)
  <2> SUFFICES ASSUME NEW i \in 1..Len(x), NEW j \in 1..Len(x), i < j,
                      x[i].ev \in Deltas, x[j].ev \in Deltas
               PROVE  x[i].i < x[j].i
      BY DEF Ordered
  <2>1. i \in 1..Len(a) /\ x[i] = a[i]
        BY <1>2, <1>3
  <2>2. CASE j \in 1..Len(a) /\ x[j] = a[j]
        BY <2>1, <2>2 DEF Ordered
  <2>3. CASE x[j] = h
        BY <1>1, <2>1, <2>3 DEF Follows
  <2> QED BY <1>3, <2>2, <2>3
<1>6. Ordered(t)
  <2> SUFFICES ASSUME NEW i \in 1..Len(t), NEW j \in 1..Len(t), i < j,
                      t[i].ev \in Deltas, t[j].ev \in Deltas
               PROVE  t[i].i < t[j].i
      BY DEF Ordered
  <2>1. i + 1 < j + 1
        BY <1>4
  <2> QED BY <1>1, <2>1 DEF Ordered
<1>7. Follows(a, t)
      BY <1>1 DEF Follows
<1>8. Follows(x, t)
  <2> SUFFICES ASSUME NEW i \in 1..Len(x), NEW j \in 1..Len(t), x[i].ev \in Deltas, t[j].ev \in Deltas
               PROVE  x[i].i < t[j].i
      BY DEF Follows
  <2>1. CASE i \in 1..Len(a) /\ x[i] = a[i]
        BY <1>7, <2>1 DEF Follows
  <2>2. CASE x[i] = h
        BY <1>1, <2>2 DEF Ordered
  <2> QED BY <1>3, <2>1, <2>2
<1>9. ASSUME NEW b, Follows(a, b), Follows(c, b) PROVE Follows(x, b) /\ Follows(t, b)
  <2>1. Follows(t, b)
        BY <1>1, <1>9 DEF Follows
  <2>2. Follows(x, b)
        BY <1>1, <1>3, <1>9 DEF Follows
  <2> QED BY <2>1, <2>2
<1>10. ASSUME NEW b, Follows(b, a), Follows(b, c) PROVE Follows(b, x) /\ Follows(b, t)
  <2>1. Follows(b, t)
        BY <1>1, <1>10 DEF Follows
  <2>2. Follows(b, x)
        BY <1>1, <1>3, <1>10 DEF Follows
  <2> QED BY <2>1, <2>2
<1> QED BY <1>2, <1>5, <1>6, <1>7, <1>8, <1>9, <1>10 DEF h, t, x

LEMMA DeltasMove ==
    ASSUME NEW n, NEW s \in Seq(EventRecords), DeltasOf(n, s)
    PROVE  /\ \A e \in EventRecords : e.n = n /\ e.ev \in Deltas => DeltasOf(n, Append(s, e))
           /\ s # <<>> => DeltasOf(n, Tail(s)) /\ Head(s).n = n /\ Head(s).ev \in Deltas
<1>1. ASSUME NEW e \in EventRecords, e.n = n, e.ev \in Deltas
      PROVE  DeltasOf(n, Append(s, e))
  <2> DEFINE x == Append(s, e)
  <2>1. \A i \in 1..Len(x) : (i \in 1..Len(s) /\ x[i] = s[i]) \/ x[i] = e
        OBVIOUS
  <2> HIDE DEF x
  <2>2. DeltasOf(n, x)
        BY <1>1, <2>1 DEF DeltasOf
  <2> QED BY <2>2 DEF x
<1>2. ASSUME s # <<>> PROVE DeltasOf(n, Tail(s)) /\ Head(s).n = n /\ Head(s).ev \in Deltas
      BY <1>2, RangeHead DEF DeltasOf
<1> QED BY <1>1, <1>2

\* The first event is taken off what is to come.
LEMMA TailSound ==
    ASSUME NEW n, NEW s \in Seq(EventRecords), s # <<>>, EventsSound(n, s)
    PROVE  /\ Tail(s) \in Seq(EventRecords) /\ Head(s) \in EventRecords /\ Head(s) = s[1] /\ 1 \in 1..Len(s)
           /\ EventsSound(n, Tail(s))
           /\ \A i \in 1..Len(Tail(s)) : i + 1 \in 1..Len(s) /\ Tail(s)[i] = s[i + 1]
           /\ \A i \in 1..Len(Tail(s)) : Tail(s)[i].ev # "unauthorized"
           /\ Head(s).ev \in Endings => Tail(s) = <<>>
           /\ Head(s).ev \in Deltas => Head(s).n = n
<1>1. Tail(s) \in Seq(EventRecords) /\ Head(s) \in EventRecords /\ Head(s) = s[1] /\ 1 \in 1..Len(s)
      /\ Len(Tail(s)) = Len(s) - 1 /\ Len(s) \in Nat
      OBVIOUS
<1>1a. Len(s) \in Nat /\ Len(s) >= 1 /\ Len(Tail(s)) = Len(s) - 1
      BY <1>1
<1>1b. \A i \in 1..(Len(s) - 1) : i + 1 \in 1..Len(s) /\ Tail(s)[i] = s[i + 1] /\ i + 1 # 1
      OBVIOUS
<1>2. \A i \in 1..Len(Tail(s)) : i + 1 \in 1..Len(s) /\ Tail(s)[i] = s[i + 1] /\ i + 1 # 1
      BY <1>1a, <1>1b
<1>3. EventsSound(n, Tail(s))
  <2>1. \A i \in 1..Len(Tail(s)) : i + 1 = Len(s) => i = Len(Tail(s))
    <3>1. \A L \in Nat : \A i \in 1..(L - 1) : i + 1 = L => i = L - 1
          OBVIOUS
    <3> QED BY <1>1a, <3>1
  <2> QED BY <1>1a, <1>2, <2>1 DEF EventsSound
<1>4. \A i \in 1..Len(Tail(s)) : Tail(s)[i].ev # "unauthorized"
      BY <1>2 DEF EventsSound
<1>5. Head(s).ev \in Endings => Tail(s) = <<>>
  <2>1. Head(s).ev \in Endings => Len(s) = 1
        BY <1>1 DEF EventsSound
  <2>2. \A q \in Seq(EventRecords) : Len(q) = 0 => q = <<>>
        OBVIOUS
  <2> QED BY <1>1, <1>1a, <2>1, <2>2
<1>6. Head(s).ev \in Deltas => Head(s).n = n
      BY <1>1 DEF EventsSound
<1> QED BY <1>1, <1>2, <1>3, <1>4, <1>5, <1>6

\* A chunk is a prefix; the rest is what the gateway still sends.
LEMMA SplitSound ==
    ASSUME NEW n, NEW s \in Seq(EventRecords), EventsSound(n, s), Ordered(s), NEW k \in 1..Len(s)
    PROVE  LET a == SubSeq(s, 1, k)
               b == SubSeq(s, k + 1, Len(s)) IN
           /\ a \in Seq(EventRecords) /\ b \in Seq(EventRecords) /\ a # <<>>
           /\ EventsSound(n, a) /\ EventsSound(n, b)
           /\ \A i \in 1..Len(a) : a[i].ev \in Endings => b = <<>>
           /\ \A i \in 1..Len(b) : b[i].ev # "unauthorized"
           /\ \A i \in 1..Len(a) : i \in 1..Len(s) /\ a[i] = s[i]
           /\ Ordered(a) /\ Ordered(b) /\ Follows(a, b)
           /\ \A z : Follows(z, s) => Follows(z, a) /\ Follows(z, b)
<1> DEFINE a == SubSeq(s, 1, k)
           b == SubSeq(s, k + 1, Len(s))
<1>1. Len(s) \in Nat /\ k \in Nat /\ k <= Len(s) /\ 1 <= k
      OBVIOUS
<1>2. a \in Seq(EventRecords) /\ Len(a) = k /\ \A i \in 1..k : a[i] = s[i] /\ i \in 1..Len(s)
      BY <1>1
<1>3. b \in Seq(EventRecords) /\ Len(b) = Len(s) - k
      /\ \A i \in 1..(Len(s) - k) : b[i] = s[k + i] /\ k + i \in 1..Len(s) /\ k + i # 1
      BY <1>1
<1>4. a # <<>> /\ (Len(b) = 0 => b = <<>>)
      BY <1>1, <1>2, <1>3
<1> HIDE DEF a, b
<1>5. EventsSound(n, a)
      BY <1>1, <1>2 DEF EventsSound
<1>6. EventsSound(n, b)
  <2>1. \A i \in 1..(Len(s) - k) : k + i = Len(s) => i = Len(s) - k
        BY <1>1
  <2> QED BY <1>3, <2>1 DEF EventsSound
<1>7. \A i \in 1..Len(a) : a[i].ev \in Endings => b = <<>>
  <2>1. \A i \in 1..k : i = Len(s) => Len(s) - k = 0
        BY <1>1
  <2> QED BY <1>2, <1>3, <1>4, <2>1 DEF EventsSound
<1>8. \A i \in 1..Len(b) : b[i].ev # "unauthorized"
      BY <1>3 DEF EventsSound
<1>9. Ordered(a) /\ \A z : Follows(z, s) => Follows(z, a)
  <2>1. Ordered(a)
        BY <1>2 DEF Ordered
  <2>2. \A z : Follows(z, s) => Follows(z, a)
        BY <1>2 DEF Follows
  <2> QED BY <2>1, <2>2
<1>10. Ordered(b)
  <2> SUFFICES ASSUME NEW i \in 1..Len(b), NEW j \in 1..Len(b), i < j,
                      b[i].ev \in Deltas, b[j].ev \in Deltas
               PROVE  b[i].i < b[j].i
      BY DEF Ordered
  <2>1. k + i < k + j
        BY <1>1, <1>3
  <2> QED BY <1>3, <2>1 DEF Ordered
<1>11. Follows(a, b)
  <2> SUFFICES ASSUME NEW i \in 1..Len(a), NEW j \in 1..Len(b), a[i].ev \in Deltas, b[j].ev \in Deltas
               PROVE  a[i].i < b[j].i
      BY DEF Follows
  <2>1. i < k + j
        BY <1>1, <1>2, <1>3
  <2> QED BY <1>2, <1>3, <2>1 DEF Ordered
<1>12. \A z : Follows(z, s) => Follows(z, b)
      BY <1>3 DEF Follows
<1> QED BY <1>2, <1>3, <1>4, <1>5, <1>6, <1>7, <1>8, <1>9, <1>10, <1>11, <1>12 DEF a, b

\* What the gateway answers.
LEMMA RepliesSound ==
    ASSUME NEW n \in Nat, NEW k \in Nat, NEW reply \in Replies(n, k)
    PROVE  reply \in Seq(EventRecords) /\ EventsSound(n, reply) /\ Ordered(reply) /\ reply # <<>>
<1>1. CASE reply = <<Ev("unauthorized")>>
  <2>1. Ev("unauthorized") \in EventRecords /\ Ev("unauthorized").ev = "unauthorized"
        BY DEF Ev, EventRecords, Endings
  <2>2. reply \in Seq(EventRecords) /\ reply # <<>> /\ Len(reply) = 1 /\ reply[1].ev = "unauthorized"
        BY <1>1, <2>1
  <2> QED BY <2>2 DEF EventsSound, Ordered, Deltas, Endings
<1>2. ASSUME NEW sh \in Shapes, reply = Reply(n, k, sh)
      PROVE  reply \in Seq(EventRecords) /\ EventsSound(n, reply) /\ Ordered(reply) /\ reply # <<>>
  <2> DEFINE m == sh.deltas
             d == [i \in 1..m |-> Delta(n, k, sh, i)]
             end == IF sh.end = "done" THEN <<Ev("receipt"), Ev("done")>> ELSE <<Ev("error")>>
  <2>0. m \in Nat
        BY BoundsAssumption DEF Shapes
  <2>1. \A i \in 1..m : d[i] \in EventRecords /\ d[i].ev \in Deltas /\ d[i].n = n /\ d[i].i = i
        BY <2>0 DEF Delta, EventRecords, Deltas
  <2>1a. d \in [1..m -> EventRecords]
        BY <2>1
  <2>2. d \in Seq(EventRecords) /\ Len(d) = m
    <3> HIDE DEF d, m
    <3> QED BY <2>0, <2>1a
  <2>3. Ev("receipt") \in EventRecords /\ Ev("done") \in EventRecords /\ Ev("error") \in EventRecords
        /\ Ev("receipt").ev = "receipt" /\ Ev("done").ev = "done" /\ Ev("error").ev = "error"
        BY DEF Ev, EventRecords, Endings
  <2>4. PICK q \in {1, 2} : /\ end \in Seq(EventRecords) /\ Len(end) = q
                            /\ end[q].ev \in {"done", "error"} /\ (q = 2 => end[1].ev = "receipt")
    <3>1. CASE sh.end = "done"
          BY <2>3, <3>1
    <3>2. CASE sh.end # "done"
          BY <2>3, <3>2
    <3> QED BY <3>1, <3>2
  <2>4a. reply = d \o end
        BY <1>2 DEF Reply
  <2> HIDE DEF d, end, m
  <2>5. /\ reply \in Seq(EventRecords) /\ Len(reply) = m + q /\ reply # <<>>
        /\ \A i \in 1..m : reply[i] = d[i]
        /\ \A i \in 1..q : reply[m + i] = end[i]
        BY <2>0, <2>2, <2>4, <2>4a
  <2>6. \A i \in 1..(m + q) : i \in 1..m \/ (q = 2 /\ i = m + 1) \/ i = m + q
        BY <2>0
  <2>7. reply[m + q].ev \in {"done", "error"} /\ (q = 2 => reply[m + 1].ev = "receipt")
        BY <2>4, <2>5
  <2>8. \A i \in 1..(m + q) : reply[i].ev \in Deltas => reply[i].n = n /\ reply[i].i = i
        BY <2>1, <2>5, <2>6, <2>7 DEF Deltas
  <2>9. \A i \in 1..(m + q) : reply[i].ev \in Endings => i = m + q
        BY <2>1, <2>5, <2>6, <2>7 DEF Deltas, Endings
  <2>10. \A i \in 1..(m + q) : reply[i].ev # "unauthorized"
        BY <2>1, <2>5, <2>6, <2>7 DEF Deltas
  <2>11. EventsSound(n, reply)
        BY <2>5, <2>8, <2>9, <2>10 DEF EventsSound
  <2>12. Ordered(reply)
        BY <2>5, <2>8 DEF Ordered
  <2> QED BY <2>5, <2>11, <2>12
<1>3. reply = <<Ev("unauthorized")>> \/ \E sh \in Shapes : reply = Reply(n, k, sh)
      BY DEF Replies
<1> QED BY <1>1, <1>2, <1>3

LEMMA EmptySound ==
    /\ <<>> \in Seq(EventRecords) /\ Range(<<>>) = {}
    /\ \A n : EventsSound(n, <<>>) /\ DeltasOf(n, <<>>)
    /\ Ordered(<<>>) /\ \A b : Follows(<<>>, b) /\ Follows(b, <<>>)
<1>1. <<>> \in Seq(EventRecords) /\ Len(<<>>) = 0 /\ DOMAIN <<>> = {}
      OBVIOUS
<1>2. Range(<<>>) = {}
      BY <1>1 DEF Range
<1>3. \A n : EventsSound(n, <<>>) /\ DeltasOf(n, <<>>)
      BY <1>1 DEF EventsSound, DeltasOf
<1>4. Ordered(<<>>)
      BY <1>1 DEF Ordered
<1>5. \A b : Follows(<<>>, b) /\ Follows(b, <<>>)
      BY <1>1 DEF Follows
<1> QED BY <1>1, <1>2, <1>3, <1>4, <1>5

\* A turn without deltas has none that could be opened.
LEMMA NothingSent ==
    ASSUME NEW r, r.acc = <<>>, r.chain = <<>>, r.sent = <<>>
    PROVE  OpenedSound(r)
BY EmptySound DEF OpenedSound, Openable

-----------------------------------------------------------------------------
(* One turn moves *)

LEMMA ChatInitial == Init => ChatInv
<1> SUFFICES ASSUME Init PROVE ChatInv
    OBVIOUS
<1>1. NoTurn \in TurnRecords
      BY EmptySound DEF NoTurn, TurnRecords
<1>2. /\ NoTurn.st = "idle" /\ NoTurn.cancelled = FALSE /\ NoTurn.streams = 0 /\ NoTurn.retries = 0
      /\ NoTurn.net = <<>> /\ NoTurn.chunk = <<>> /\ NoTurn.chain = <<>> /\ NoTurn.done = FALSE
      /\ NoTurn.resign = FALSE /\ NoTurn.sent = <<>> /\ NoTurn.acc = <<>>
      BY DEF NoTurn
<1>3. StreamSound(NoTurn)
      BY <1>2, EmptySound DEF StreamSound, InOrder
<1>4. ControlSound(NoTurn)
      BY <1>2 DEF ControlSound, Busy, MAX401Retries
<1>5. OwnerSound(NoTurn)
      BY <1>2, NothingSent DEF OwnerSound, Busy
<1>6. submitting \in BOOLEAN /\ rows = {}
      BY DEF Init
<1>7. /\ ident = None /\ sess \in 0..MaxUnlocks /\ store.owner = None /\ store.waiting = {}
      /\ turn = [t \in Turns |-> NoTurn]
      BY BoundsAssumption DEF Init, ClosedStore
<1> QED BY <1>1, <1>3, <1>4, <1>5, <1>6, <1>7 DEF ChatInv, TurnSound

\* A turn with a row is over.
LEMMA NoRowYet ==
    ASSUME ChatInv, NEW t \in Turns, turn[t].st # "closed" \/ Busy(turn[t]) \/ turn[t].net # <<>>
    PROVE  \A row \in rows : row.turn # t
BY DEF ChatInv, RowSound

\* Only the record of one turn changes, and the rows of that turn stay sound.
LEMMA TurnMoves ==
    ASSUME ChatInv, NEW t \in Turns, NEW r \in TurnRecords,
           turn' = [turn EXCEPT ![t] = r],
           ident' = ident, sess' = sess, store' = store, submitting' \in BOOLEAN,
           \A row \in rows' : \/ row \in rows /\ row.turn # t
                              \/ /\ row.turn = t /\ r.st = "closed" /\ ~Busy(r) /\ r.net = <<>>
                                 /\ TextSound(row.text, r) /\ row.file = r.by /\ ~r.temp,
           StreamSound(r), ControlSound(r), OwnerSound(r)
    PROVE  ChatInv'
<1>1. turn' \in [Turns -> TurnRecords] /\ turn'[t] = r /\ \A u \in Turns \ {t} : turn'[u] = turn[u]
      BY DEF ChatInv
<1>2. \A u \in Turns : TurnSound(turn[u])'
  <2> SUFFICES ASSUME NEW u \in Turns PROVE TurnSound(turn[u])'
      OBVIOUS
  <2>1. TurnSound(turn[u]) /\ TurnSound(r)
        BY DEF ChatInv, TurnSound
  <2>2. StreamSound(turn[u])' /\ ControlSound(turn[u])'
        BY <1>1, <2>1 DEF TurnSound
  <2>3. OwnerSound(turn[u])'
        BY <1>1, <2>1 DEF TurnSound, OwnerSound, Busy
  <2> QED BY <2>2, <2>3 DEF TurnSound
<1>3. \A row \in rows' : RowSound(row)'
  <2> SUFFICES ASSUME NEW row \in rows' PROVE RowSound(row)'
      OBVIOUS
  <2>1. CASE row \in rows /\ row.turn # t
    <3>1. RowSound(row)
          BY <2>1 DEF ChatInv
    <3> QED BY <1>1, <2>1, <3>1 DEF RowSound, Busy
  <2>2. CASE row.turn = t /\ r.st = "closed" /\ ~Busy(r) /\ r.net = <<>>
             /\ TextSound(row.text, r) /\ row.file = r.by /\ ~r.temp
        BY <1>1, <2>2 DEF RowSound, Busy
  <2> QED BY <2>1, <2>2
<1> QED BY <1>1, <1>2, <1>3 DEF ChatInv
-----------------------------------------------------------------------------
(* The tab *)

LEMMA LockKeeps == ChatInv /\ Lock => ChatInv'
<1> SUFFICES ASSUME ChatInv, Lock PROVE ChatInv'
    OBVIOUS
<1>1. \A t \in Turns : TurnSound(turn[t])'
  <2> SUFFICES ASSUME NEW t \in Turns PROVE TurnSound(turn[t])'
      OBVIOUS
  <2>1. TurnSound(turn[t]) /\ turn' = turn /\ ident' = None /\ sess' = sess
        BY DEF ChatInv, Lock
  <2>2. StreamSound(turn[t])' /\ ControlSound(turn[t])'
        BY <2>1 DEF TurnSound
  <2>3. OwnerSound(turn[t])'
        BY <2>1 DEF TurnSound, OwnerSound, Busy
  <2> QED BY <2>2, <2>3 DEF TurnSound
<1>2. \A row \in rows' : RowSound(row)'
      BY DEF ChatInv, Lock, RowSound, Busy
<1> QED BY <1>1, <1>2 DEF ChatInv, Lock, ClosedStore

\* Every submission is idle or cleaned up: none of them is the new identity's.
LEMMA UnlockKeeps == ASSUME ChatInv, NEW s \in Seeds, Unlock(s) PROVE ChatInv'
<1>0. turn' = turn /\ ident' = s /\ sess' = sess + 1 /\ sess' \in 0..MaxUnlocks
      /\ store'.owner \in {s, None} /\ store'.waiting = {}
      BY BoundsAssumption DEF ChatInv, Unlock, ClosedStore
<1>1. \A t \in Turns : TurnSound(turn[t])'
  <2> SUFFICES ASSUME NEW t \in Turns PROVE TurnSound(turn[t])'
      OBVIOUS
  <2>1. TurnSound(turn[t])
        BY DEF ChatInv
  <2>2. StreamSound(turn[t])' /\ ControlSound(turn[t])'
        BY <1>0, <2>1 DEF TurnSound
  <2>3. turn[t].cancelled \/ turn[t].st = "idle"
        BY DEF Unlock
  <2>4. turn[t].st = "idle" => turn[t].acc = <<>> /\ turn[t].chain = <<>> /\ turn[t].sent = <<>>
        BY <2>1 DEF TurnSound, ControlSound, Busy
  <2>4a. turn[t].st = "idle" => OpenedSound(turn[t])
        BY <2>4, NothingSent
  <2>5. OwnerSound(turn[t])'
        BY <1>0, <2>1, <2>3, <2>4a DEF TurnSound, OwnerSound, Busy
  <2> QED BY <2>2, <2>5 DEF TurnSound
<1>2. rows' = rows
      BY DEF ChatInv, Unlock
<1>3. \A row \in rows' : RowSound(row)'
      BY <1>0, <1>2 DEF ChatInv, RowSound, Busy
<1>4. submitting' \in BOOLEAN
      BY DEF ChatInv, Unlock
<1> QED BY <1>0, <1>1, <1>3, <1>4 DEF ChatInv

\* What the invariant says of one turn.
LEMMA TurnFacts ==
    ASSUME ChatInv, NEW t \in Turns
    PROVE  /\ turn[t] \in TurnRecords
           /\ StreamSound(turn[t]) /\ ControlSound(turn[t]) /\ OwnerSound(turn[t])
           /\ sess \in Nat /\ turn[t].streams \in Nat /\ turn[t].retries \in Nat
BY BoundsAssumption DEF ChatInv, TurnSound, TurnRecords

LEMMA SubmitKeeps == ASSUME ChatInv, NEW t \in Turns, Submit(t) PROVE ChatInv'
<1>1. PICK temp \in BOOLEAN :
          turn' = [turn EXCEPT ![t] = [NoTurn EXCEPT !.st = "gathering", !.by = ident, !.temp = temp]]
      BY DEF Submit
<1> DEFINE r == [NoTurn EXCEPT !.st = "gathering", !.by = ident, !.temp = temp]
<1>2. ident \in Seeds /\ turn[t].st = "idle" /\ submitting' \in BOOLEAN /\ ident' = ident /\ sess' = sess /\ store' = store /\ rows' = rows
      BY DEF ChatInv, Submit
<1>3. /\ r.st = "gathering" /\ r.by = ident /\ r.cancelled = FALSE /\ r.streams = 0 /\ r.retries = 0
      /\ r.net = <<>> /\ r.chunk = <<>> /\ r.chain = <<>> /\ r.done = FALSE
      /\ r.resign = FALSE /\ r.sent = <<>> /\ r.acc = <<>>
      BY DEF NoTurn
<1>4. r \in TurnRecords
      BY <1>2, EmptySound DEF NoTurn, TurnRecords
<1>5. turn' = [turn EXCEPT ![t] = r]
      BY <1>1
<1> HIDE DEF r
<1>6. StreamSound(r)
      BY <1>3, EmptySound DEF StreamSound, InOrder
<1>7. ControlSound(r)
      BY <1>3 DEF ControlSound, Busy, MAX401Retries
<1>8. OwnerSound(r)
      BY <1>2, <1>3, NothingSent DEF OwnerSound
<1>9. \A row \in rows : row.turn # t
      BY <1>2, NoRowYet
<1> QED BY <1>2, <1>4, <1>5, <1>6, <1>7, <1>8, <1>9, TurnMoves

LEMMA CleanupKeeps == ASSUME ChatInv, NEW t \in Turns, Cleanup(t) PROVE ChatInv'
<1> DEFINE tr == turn[t]
           st == IF tr.st = "gathering" THEN tr.st ELSE "closed"
           r == [tr EXCEPT !.cancelled = TRUE, !.net = <<>>, !.st = st]
<1>0. /\ tr \in TurnRecords /\ StreamSound(tr) /\ ControlSound(tr) /\ OwnerSound(tr)
      BY TurnFacts
<1>1. ~Busy(tr) /\ tr.st # "idle" /\ ident' = ident /\ sess' = sess /\ store' = store /\ rows' = rows
      /\ submitting' \in BOOLEAN
      BY DEF Cleanup, Quiet
<1>2. turn' = [turn EXCEPT ![t] = r]
      BY DEF Cleanup
<1>3. st = (IF tr.st = "gathering" THEN "gathering" ELSE "closed")
      OBVIOUS
<1>4. /\ r \in TurnRecords /\ r.st = st /\ r.cancelled = TRUE /\ r.net = <<>>
      /\ r.by = tr.by /\ r.temp = tr.temp /\ r.sess = tr.sess /\ r.streams = tr.streams /\ r.retries = tr.retries
      /\ r.chunk = tr.chunk /\ r.chain = tr.chain /\ r.done = tr.done /\ r.resign = tr.resign
      /\ r.sent = tr.sent /\ r.acc = tr.acc
      BY <1>0, EmptySound DEF TurnRecords
<1> HIDE DEF r, st, tr
<1>5. StreamSound(r)
      BY <1>0, <1>1, <1>4, EmptySound DEF StreamSound, InOrder, Busy
<1>6. ControlSound(r)
      BY <1>0, <1>1, <1>3, <1>4 DEF ControlSound, Busy
<1>7. OwnerSound(r)
      BY <1>0, <1>1, <1>3, <1>4 DEF OwnerSound, OpenedSound, Openable, Busy
<1>7a. \A text : TextSound(text, tr) => TextSound(text, r)
      BY <1>4 DEF TextSound, Openable
<1>8. \A row \in rows' : \/ row \in rows /\ row.turn # t
                         \/ /\ row.turn = t /\ r.st = "closed" /\ ~Busy(r) /\ r.net = <<>>
                            /\ TextSound(row.text, r) /\ row.file = r.by /\ ~r.temp
      BY <1>1, <1>3, <1>4, <1>7a DEF ChatInv, RowSound, Busy, tr
<1> QED BY <1>1, <1>2, <1>4, <1>5, <1>6, <1>7, <1>8, TurnMoves
-----------------------------------------------------------------------------
(* The stream *)

LEMMA ErroredSound ==
    ASSUME NEW tr \in TurnRecords, StreamSound(tr), ControlSound(tr), OwnerSound(tr), tr.st # "idle"
    PROVE  LET r == Errored(tr) IN
           r \in TurnRecords /\ StreamSound(r) /\ ControlSound(r) /\ OwnerSound(r)
<1> DEFINE r == Errored(tr)
<1>1. /\ r \in TurnRecords /\ r.st = "closed" /\ r.net = <<>>
      /\ r.by = tr.by /\ r.temp = tr.temp /\ r.cancelled = tr.cancelled /\ r.sess = tr.sess
      /\ r.streams = tr.streams /\ r.retries = tr.retries
      /\ r.chunk = tr.chunk /\ r.chain = tr.chain /\ r.done = tr.done /\ r.resign = tr.resign
      /\ r.sent = tr.sent /\ r.acc = tr.acc
      BY EmptySound DEF TurnRecords, Errored
<1> HIDE DEF r
<1>2. StreamSound(r)
      BY <1>1, EmptySound DEF StreamSound, InOrder
<1>3. ControlSound(r)
      BY <1>1 DEF ControlSound, Busy
<1>4. OwnerSound(r)
      BY <1>1 DEF OwnerSound, OpenedSound, Openable, Busy
<1> QED BY <1>1, <1>2, <1>3, <1>4 DEF r

\* A new stream of a turn that has no other and is not cleaned up.
LEMMA StreamedSound ==
    ASSUME NEW tr \in TurnRecords, NEW k \in Nat, NEW reply \in Replies(tr.streams + 1, k),
           OwnerSound(tr), ident \in Seeds, sess \in Nat,
           ~tr.cancelled, ~Busy(tr), tr.by = ident, tr.by \in Seeds, tr.acc = <<>>, tr.sent = <<>>,
           tr.retries <= MAX401Retries, tr.streams <= tr.retries
    PROVE  LET r == [Streamed(tr, reply) EXCEPT !.sess = sess] IN
           r \in TurnRecords /\ StreamSound(r) /\ ControlSound(r) /\ OwnerSound(r)
<1> DEFINE x == Streamed(tr, reply)
           r == [x EXCEPT !.sess = sess]
<1>0. tr.streams \in Nat /\ tr.retries \in Nat /\ tr.streams + 1 \in Nat
      BY DEF TurnRecords
<1>1. reply \in Seq(EventRecords) /\ EventsSound(tr.streams + 1, reply) /\ Ordered(reply) /\ reply # <<>>
      BY <1>0, RepliesSound
<1>2. /\ x \in TurnRecords /\ x.st = "streaming" /\ x.net = reply /\ x.streams = tr.streams + 1
      /\ x.by = tr.by /\ x.temp = tr.temp /\ x.cancelled = tr.cancelled /\ x.retries = tr.retries
      /\ x.chunk = tr.chunk /\ x.chain = tr.chain /\ x.done = tr.done /\ x.resign = tr.resign
      /\ x.sent = tr.sent /\ x.acc = tr.acc
  <2> DEFINE m == tr.streams + 1
             y == [tr EXCEPT !.st = "streaming", !.streams = m, !.net = reply]
  <2>1. x = y
        BY DEF Streamed
  <2>2. m \in Nat
        BY <1>0
  <2> HIDE DEF m, x
  <2>3. /\ y \in TurnRecords /\ y.st = "streaming" /\ y.net = reply /\ y.streams = m
        /\ y.by = tr.by /\ y.temp = tr.temp /\ y.cancelled = tr.cancelled /\ y.retries = tr.retries
        /\ y.chunk = tr.chunk /\ y.chain = tr.chain /\ y.done = tr.done /\ y.resign = tr.resign
        /\ y.sent = tr.sent /\ y.acc = tr.acc
        BY <1>1, <2>2 DEF TurnRecords
  <2> HIDE DEF y
  <2> QED BY <2>1, <2>3 DEF m
<1> HIDE DEF x
<1>3. /\ r \in TurnRecords /\ r.st = "streaming" /\ r.net = reply /\ r.streams = tr.streams + 1
      /\ r.by = tr.by /\ r.temp = tr.temp /\ r.cancelled = tr.cancelled /\ r.retries = tr.retries
      /\ r.chunk = tr.chunk /\ r.chain = tr.chain /\ r.done = tr.done /\ r.resign = tr.resign
      /\ r.sent = tr.sent /\ r.acc = tr.acc /\ r.sess = sess
      BY <1>2 DEF TurnRecords
<1> HIDE DEF r
<1>4. StreamSound(r)
      BY <1>0, <1>1, <1>3, EmptySound DEF StreamSound, InOrder, Busy
<1>5. ControlSound(r)
      BY <1>0, <1>3 DEF ControlSound, Busy
<1>6. OwnerSound(r)
      BY <1>3, NothingSent DEF OwnerSound, Busy
<1> QED BY <1>3, <1>4, <1>5, <1>6 DEF r, x

LEMMA SendKeeps == ASSUME ChatInv, NEW t \in Turns, Send(t) PROVE ChatInv'
<1> DEFINE tr == turn[t]
<1>0. /\ tr \in TurnRecords /\ StreamSound(tr) /\ ControlSound(tr) /\ OwnerSound(tr) /\ sess \in Nat
      BY TurnFacts
<1>1. /\ ~Busy(tr) /\ tr.st = "gathering"
      /\ ident' = ident /\ sess' = sess /\ store' = store /\ rows' = rows
      /\ submitting' \in BOOLEAN
      BY DEF Send, Quiet, ChatInv
<1>2. \A row \in rows : row.turn # t
      BY <1>1, NoRowYet
<1>3. CASE ident = None
  <2>1. turn' = [turn EXCEPT ![t] = Errored(tr)]
        BY <1>3 DEF Send
  <2>2. /\ Errored(tr) \in TurnRecords /\ StreamSound(Errored(tr))
        /\ ControlSound(Errored(tr)) /\ OwnerSound(Errored(tr))
        BY <1>0, <1>1, ErroredSound
  <2> HIDE DEF tr
  <2> QED BY <1>1, <1>2, <2>1, <2>2, TurnMoves
<1>4. CASE ident # None /\ tr.cancelled
  <2> DEFINE r == [tr EXCEPT !.st = "closed"]
  <2>1. turn' = [turn EXCEPT ![t] = r]
        BY <1>4 DEF Send
  <2>2. /\ r \in TurnRecords /\ r.st = "closed" /\ r.net = tr.net
        /\ r.by = tr.by /\ r.temp = tr.temp /\ r.cancelled = tr.cancelled /\ r.sess = tr.sess
        /\ r.streams = tr.streams /\ r.retries = tr.retries
        /\ r.chunk = tr.chunk /\ r.chain = tr.chain /\ r.done = tr.done /\ r.resign = tr.resign
        /\ r.sent = tr.sent /\ r.acc = tr.acc
        BY <1>0 DEF TurnRecords
  <2> HIDE DEF r, tr
  <2>3. StreamSound(r)
        BY <1>0, <2>2 DEF StreamSound, InOrder
  <2>4. ControlSound(r)
        BY <1>0, <1>1, <2>2 DEF ControlSound, Busy
  <2>5. OwnerSound(r)
        BY <1>0, <1>1, <1>4, <2>2 DEF OwnerSound, Busy
  <2> QED BY <1>1, <1>2, <2>1, <2>2, <2>3, <2>4, <2>5, TurnMoves
<1>5. CASE ident # None /\ ~tr.cancelled
  <2>1. PICK reply \in Replies(1, sess) :
            turn' = [turn EXCEPT ![t] = [Streamed(tr, reply) EXCEPT !.sess = sess]]
        BY <1>5 DEF Send
  <2>2. ident \in Seeds /\ tr.by = ident /\ tr.by \in Seeds
        BY <1>0, <1>1, <1>5 DEF ChatInv, OwnerSound
  <2>3. tr.acc = <<>> /\ tr.sent = <<>> /\ tr.retries = 0 /\ tr.streams = 0 /\ tr.retries <= MAX401Retries
        BY <1>0, <1>1 DEF ControlSound
  <2>4. 1 = tr.streams + 1 /\ tr.streams <= tr.retries
        BY <2>3
  <2> DEFINE r == [Streamed(tr, reply) EXCEPT !.sess = sess]
  <2>5. r \in TurnRecords /\ StreamSound(r) /\ ControlSound(r) /\ OwnerSound(r)
        BY <1>0, <1>1, <1>5, <2>2, <2>3, <2>4, StreamedSound
  <2>6. turn' = [turn EXCEPT ![t] = r]
        BY <2>1
  <2> HIDE DEF r, tr
  <2> QED BY <1>1, <1>2, <2>5, <2>6, TurnMoves
<1> QED BY <1>3, <1>4, <1>5

LEMMA BrokenKeeps == ASSUME ChatInv, NEW t \in Turns, Broken(t) PROVE ChatInv'
<1> DEFINE tr == turn[t]
           r == Errored(tr)
<1>1. turn' = [turn EXCEPT ![t] = r] /\ tr.st = "streaming" /\ submitting' \in BOOLEAN
      /\ ident' = ident /\ sess' = sess /\ store' = store /\ rows' = rows
      BY DEF Broken
<1>2. r \in TurnRecords /\ StreamSound(r) /\ ControlSound(r) /\ OwnerSound(r)
      BY <1>1, TurnFacts, ErroredSound
<1>3. \A row \in rows : row.turn # t
      BY <1>1, NoRowYet
<1> HIDE DEF r
<1> QED BY <1>1, <1>2, <1>3, TurnMoves

LEMMA ChunkKeeps == ASSUME ChatInv, NEW t \in Turns, Chunk(t) PROVE ChatInv'
<1> DEFINE tr == turn[t]
<1>0. /\ tr \in TurnRecords /\ StreamSound(tr) /\ ControlSound(tr) /\ OwnerSound(tr)
      BY TurnFacts
<1>1. /\ ~Busy(tr) /\ tr.net # <<>>
      /\ ident' = ident /\ sess' = sess /\ store' = store /\ rows' = rows /\ submitting' \in BOOLEAN
      BY DEF Chunk, Quiet, ChatInv
<1>2. PICK n \in 1..Len(tr.net) :
          turn' = [turn EXCEPT ![t].chunk = SubSeq(turn[t].net, 1, n),
                               ![t].net = SubSeq(turn[t].net, n + 1, Len(turn[t].net))]
      BY DEF Chunk
<1> DEFINE a == SubSeq(tr.net, 1, n)
           b == SubSeq(tr.net, n + 1, Len(tr.net))
           r == [tr EXCEPT !.chunk = a, !.net = b]
<1>3. turn' = [turn EXCEPT ![t] = r]
      BY <1>2
<1>4. tr.net \in Seq(EventRecords) /\ EventsSound(tr.streams, tr.net) /\ Ordered(tr.net)
      BY <1>0 DEF TurnRecords, StreamSound, InOrder
<1>5. /\ a \in Seq(EventRecords) /\ b \in Seq(EventRecords) /\ a # <<>>
      /\ EventsSound(tr.streams, a) /\ EventsSound(tr.streams, b)
      /\ \A i \in 1..Len(a) : a[i].ev \in Endings => b = <<>>
      /\ \A i \in 1..Len(b) : b[i].ev # "unauthorized"
      /\ \A i \in 1..Len(a) : i \in 1..Len(tr.net) /\ a[i] = tr.net[i]
      /\ Ordered(a) /\ Ordered(b) /\ Follows(a, b)
      /\ \A z : Follows(z, tr.net) => Follows(z, a) /\ Follows(z, b)
      BY <1>4, SplitSound
<1> HIDE DEF a, b
<1>6. /\ r \in TurnRecords /\ r.st = tr.st /\ r.net = b /\ r.chunk = a
      /\ r.by = tr.by /\ r.temp = tr.temp /\ r.cancelled = tr.cancelled /\ r.sess = tr.sess
      /\ r.streams = tr.streams /\ r.retries = tr.retries
      /\ r.chain = tr.chain /\ r.done = tr.done /\ r.resign = tr.resign
      /\ r.sent = tr.sent /\ r.acc = tr.acc
      BY <1>0, <1>5 DEF TurnRecords
<1> HIDE DEF r, tr
<1>7. StreamSound(r)
  <2>1. InOrder(r)
        BY <1>0, <1>5, <1>6 DEF StreamSound, InOrder
  <2> QED BY <1>0, <1>5, <1>6, <2>1 DEF StreamSound
<1>8. ControlSound(r)
      BY <1>0, <1>1, <1>6 DEF ControlSound, Busy
<1>9. OwnerSound(r)
      BY <1>0, <1>1, <1>6 DEF OwnerSound, OpenedSound, Openable
<1>10. \A row \in rows : row.turn # t
      BY <1>1, NoRowYet DEF tr
<1> QED BY <1>1, <1>3, <1>6, <1>7, <1>8, <1>9, <1>10, TurnMoves

\* Where an event stands that joins the chain.
Joins(x, e) ==
    /\ Ordered(Append(x.chain, e)) /\ Follows(x.acc, Append(x.chain, e))
    /\ Follows(Append(x.chain, e), x.chunk) /\ Follows(Append(x.chain, e), x.net)

\* The event is taken off the chunk.
LEMMA TakenSound ==
    ASSUME NEW tr \in TurnRecords, StreamSound(tr), ControlSound(tr), OwnerSound(tr), tr.chunk # <<>>
    PROVE  LET x == [tr EXCEPT !.chunk = Tail(@)]
               e == Head(tr.chunk) IN
           /\ x \in TurnRecords /\ StreamSound(x) /\ ControlSound(x) /\ OwnerSound(x)
           /\ x.streams # 0 /\ ~x.cancelled /\ x.st \notin {"idle", "gathering"} /\ ~x.done /\ ~x.resign
           /\ e \in EventRecords /\ (e.ev \in Endings => x.chunk = <<>>)
           /\ (e.ev \in Deltas => e.n = x.streams) /\ (e.ev = "unauthorized" => x.sent = <<>>)
           /\ Joins(x, e)
           /\ \A i \in 1..Len(x.chunk) : x.chunk[i].ev # "unauthorized"
           /\ \A i \in 1..Len(x.net) : x.net[i].ev # "unauthorized"
<1> DEFINE c == Tail(tr.chunk)
           e == Head(tr.chunk)
           x == [tr EXCEPT !.chunk = c]
<1>1. tr.chunk \in Seq(EventRecords) /\ tr.chain \in Seq(EventRecords) /\ EventsSound(tr.streams, tr.chunk)
      BY DEF TurnRecords, StreamSound
<1>2. /\ c \in Seq(EventRecords) /\ e \in EventRecords /\ e = tr.chunk[1] /\ 1 \in 1..Len(tr.chunk)
      /\ EventsSound(tr.streams, c)
      /\ \A i \in 1..Len(c) : i + 1 \in 1..Len(tr.chunk) /\ c[i] = tr.chunk[i + 1]
      /\ \A i \in 1..Len(c) : c[i].ev # "unauthorized"
      /\ e.ev \in Endings => c = <<>>
      /\ e.ev \in Deltas => e.n = tr.streams
      BY <1>1, TailSound
<1>2a. InOrder(tr)
      BY DEF StreamSound
<1>2b. /\ Ordered(Append(tr.chain, e)) /\ Ordered(c) /\ Follows(tr.chain, c)
       /\ Follows(Append(tr.chain, e), c)
       /\ Follows(Append(tr.chain, e), tr.net) /\ Follows(c, tr.net)
       /\ Follows(tr.acc, Append(tr.chain, e)) /\ Follows(tr.acc, c)
      BY <1>1, <1>2a, OrderMoves DEF InOrder
<1> HIDE DEF c, e
<1>3. /\ x \in TurnRecords /\ x.st = tr.st /\ x.net = tr.net /\ x.chunk = c
      /\ x.by = tr.by /\ x.temp = tr.temp /\ x.cancelled = tr.cancelled /\ x.sess = tr.sess
      /\ x.streams = tr.streams /\ x.retries = tr.retries
      /\ x.chain = tr.chain /\ x.done = tr.done /\ x.resign = tr.resign
      /\ x.sent = tr.sent /\ x.acc = tr.acc
      BY <1>2 DEF TurnRecords
<1> HIDE DEF x
<1>4. StreamSound(x)
  <2>1. InOrder(x)
        BY <1>2a, <1>2b, <1>3 DEF InOrder
  <2> QED BY <1>2, <1>3, <2>1 DEF StreamSound
<1>4a. Joins(x, e)
      BY <1>2b, <1>3 DEF Joins
<1>5. /\ tr.streams # 0 /\ ~tr.cancelled /\ tr.st \notin {"idle", "gathering"} /\ ~tr.done /\ ~tr.resign
      BY DEF ControlSound, OwnerSound, Busy
<1>6. ControlSound(x)
      BY <1>3, <1>5 DEF ControlSound
<1>7. OwnerSound(x)
      BY <1>3, <1>5 DEF OwnerSound, OpenedSound, Openable
<1>8. e.ev = "unauthorized" => x.sent = <<>>
      BY <1>2, <1>3 DEF StreamSound
<1>9. \A i \in 1..Len(x.net) : x.net[i].ev # "unauthorized"
      BY <1>3 DEF StreamSound
<1> QED BY <1>2, <1>3, <1>4, <1>4a, <1>5, <1>6, <1>7, <1>8, <1>9 DEF c, e, x

\* A delta joins the chain, and what was dispatched, of its stream.
LEMMA SealedDeltaSound ==
    ASSUME NEW x \in TurnRecords, StreamSound(x), ControlSound(x), OwnerSound(x),
           x.streams # 0, ~x.cancelled, x.st \notin {"idle", "gathering"}, ~x.done, ~x.resign,
           \A i \in 1..Len(x.chunk) : x.chunk[i].ev # "unauthorized",
           \A i \in 1..Len(x.net) : x.net[i].ev # "unauthorized",
           NEW e \in EventRecords, e.n = x.streams, e.ev \in Deltas, Joins(x, e)
    PROVE  LET r == OnSealedDelta(x, e) IN
           r \in TurnRecords /\ StreamSound(r) /\ ControlSound(r) /\ OwnerSound(r)
<1> DEFINE chain == Append(x.chain, e)
           sent == Append(x.sent, e)
           r == [x EXCEPT !.chain = chain, !.sent = sent]
<1>1. x.chain \in Seq(EventRecords) /\ x.sent \in Seq(EventRecords) /\ x.acc \in Seq(EventRecords)
      BY DEF TurnRecords
<1>2. /\ chain \in Seq(EventRecords) /\ sent \in Seq(EventRecords) /\ sent # <<>>
  <2>1. chain \in Seq(EventRecords) /\ sent \in Seq(EventRecords)
        BY <1>1
  <2>2. \A s \in Seq(EventRecords) : Append(s, e) # <<>>
        OBVIOUS
  <2> QED BY <1>1, <2>1, <2>2
<1>3. Range(chain) = Range(x.chain) \cup {e} /\ Range(sent) = Range(x.sent) \cup {e}
      BY <1>1, RangeAppend
<1>4. r = OnSealedDelta(x, e)
      BY DEF OnSealedDelta
<1>5. DeltasOf(x.streams, chain)
      BY <1>1, DeltasMove DEF StreamSound
<1>5a. Ordered(chain) /\ Follows(x.acc, chain) /\ Follows(chain, x.chunk) /\ Follows(chain, x.net)
      BY DEF Joins
<1> HIDE DEF chain, sent
<1>6. /\ r \in TurnRecords /\ r.st = x.st /\ r.net = x.net /\ r.chunk = x.chunk
      /\ r.by = x.by /\ r.temp = x.temp /\ r.cancelled = x.cancelled /\ r.sess = x.sess
      /\ r.streams = x.streams /\ r.retries = x.retries
      /\ r.chain = chain /\ r.done = x.done /\ r.resign = x.resign
      /\ r.sent = sent /\ r.acc = x.acc
      BY <1>2 DEF TurnRecords
<1> HIDE DEF r
<1>7. StreamSound(r)
  <2>1. InOrder(r)
        BY <1>5a, <1>6 DEF StreamSound, InOrder
  <2> QED BY <1>2, <1>5, <1>6, <2>1 DEF StreamSound
<1>8. ControlSound(r)
      BY <1>2, <1>6 DEF ControlSound
<1>9. OwnerSound(r)
  <2>1. OpenedSound(x) => OpenedSound(r)
        BY <1>3, <1>6 DEF OpenedSound, Openable
  <2> QED BY <1>6, <2>1 DEF OwnerSound
<1> QED BY <1>4, <1>6, <1>7, <1>8, <1>9

\* The end of the stream: nothing is to come.
LEMMA DoneSound ==
    ASSUME NEW x \in TurnRecords, StreamSound(x), ControlSound(x), OwnerSound(x),
           x.streams # 0, ~x.cancelled, x.st \notin {"idle", "gathering"}, ~x.resign, x.chunk = <<>>
    PROVE  LET r == OnDone(x) IN
           r \in TurnRecords /\ StreamSound(r) /\ ControlSound(r) /\ OwnerSound(r)
<1> DEFINE r == OnDone(x)
<1>1. /\ r \in TurnRecords /\ r.st = "closed" /\ r.net = <<>> /\ r.chunk = x.chunk
      /\ r.by = x.by /\ r.temp = x.temp /\ r.cancelled = x.cancelled /\ r.sess = x.sess
      /\ r.streams = x.streams /\ r.retries = x.retries
      /\ r.chain = x.chain /\ r.done = TRUE /\ r.resign = x.resign
      /\ r.sent = x.sent /\ r.acc = x.acc
      BY EmptySound DEF TurnRecords, OnDone
<1> HIDE DEF r
<1>2. StreamSound(r)
      BY <1>1, EmptySound DEF StreamSound, InOrder
<1>3. ControlSound(r)
      BY <1>1 DEF ControlSound
<1>4. OwnerSound(r)
      BY <1>1 DEF OwnerSound, OpenedSound, Openable
<1> QED BY <1>1, <1>2, <1>3, <1>4 DEF r

\* A 401, which is the whole answer, is signed again at most once.
LEMMA OnErrorSound ==
    ASSUME NEW x \in TurnRecords, StreamSound(x), ControlSound(x), OwnerSound(x),
           x.streams # 0, ~x.cancelled, x.st \notin {"idle", "gathering"}, ~x.done, x.chunk = <<>>,
           NEW e \in EventRecords, e.ev = "unauthorized" => x.sent = <<>>
    PROVE  LET r == OnError(x, e) IN
           r \in TurnRecords /\ StreamSound(r) /\ ControlSound(r) /\ OwnerSound(r)
<1>1. CASE e.ev = "unauthorized" /\ x.retries < MAX401Retries
  <2> DEFINE m == x.retries + 1
             r == [x EXCEPT !.resign = TRUE, !.retries = m, !.net = <<>>, !.st = "closed"]
  <2>1. r = OnError(x, e)
        BY <1>1 DEF OnError, Resigns
  <2>2. m \in Nat /\ x.retries \in Nat /\ x.streams \in Nat /\ m <= MAX401Retries /\ x.streams <= m
        BY <1>1 DEF TurnRecords, ControlSound, MAX401Retries
  <2>3. m = x.retries + 1
        OBVIOUS
  <2> HIDE DEF m
  <2>4. /\ r \in TurnRecords /\ r.st = "closed" /\ r.net = <<>> /\ r.chunk = x.chunk
        /\ r.by = x.by /\ r.temp = x.temp /\ r.cancelled = x.cancelled /\ r.sess = x.sess
        /\ r.streams = x.streams /\ r.retries = m
        /\ r.chain = x.chain /\ r.done = x.done /\ r.resign = TRUE
        /\ r.sent = x.sent /\ r.acc = x.acc
        BY <2>2, EmptySound DEF TurnRecords
  <2> HIDE DEF r
  <2>5. StreamSound(r)
        BY <2>4, EmptySound DEF StreamSound, InOrder
  <2>6. ControlSound(r)
        BY <1>1, <2>2, <2>4 DEF ControlSound
  <2>7. OwnerSound(r)
        BY <2>4 DEF OwnerSound, OpenedSound, Openable
  <2> QED BY <2>1, <2>4, <2>5, <2>6, <2>7
<1>2. CASE ~(e.ev = "unauthorized" /\ x.retries < MAX401Retries)
  <2>1. OnError(x, e) = Errored(x)
        BY <1>2 DEF OnError, Resigns
  <2> QED BY <2>1, ErroredSound
<1> QED BY <1>1, <1>2

LEMMA ListenerKeeps == ASSUME ChatInv, NEW t \in Turns, Listener(t) PROVE ChatInv'
<1> DEFINE tr == turn[t]
           x == [tr EXCEPT !.chunk = Tail(@)]
           e == Head(tr.chunk)
           r == Dispatch(x, e)
<1>1. /\ tr.chunk # <<>> /\ turn' = [turn EXCEPT ![t] = r]
      /\ ident' = ident /\ sess' = sess /\ store' = store /\ rows' = rows /\ submitting' \in BOOLEAN
      BY DEF Listener
<1>2. tr \in TurnRecords /\ StreamSound(tr) /\ ControlSound(tr) /\ OwnerSound(tr)
      BY TurnFacts
<1>3. /\ x \in TurnRecords /\ StreamSound(x) /\ ControlSound(x) /\ OwnerSound(x)
      /\ x.streams # 0 /\ ~x.cancelled /\ x.st \notin {"idle", "gathering"} /\ ~x.done /\ ~x.resign
      /\ e \in EventRecords /\ (e.ev \in Endings => x.chunk = <<>>)
      /\ (e.ev \in Deltas => e.n = x.streams) /\ (e.ev = "unauthorized" => x.sent = <<>>)
      /\ Joins(x, e)
      /\ \A i \in 1..Len(x.chunk) : x.chunk[i].ev # "unauthorized"
      /\ \A i \in 1..Len(x.net) : x.net[i].ev # "unauthorized"
      BY <1>1, <1>2, TakenSound
<1>4. \A row \in rows : row.turn # t
  <2>1. Busy(turn[t])
        BY <1>1 DEF Busy
  <2> QED BY <2>1, NoRowYet
<1> HIDE DEF x, e
<1>5. r \in TurnRecords /\ StreamSound(r) /\ ControlSound(r) /\ OwnerSound(r)
  <2>1. CASE e.ev \in {"token", "tool"}
    <3>1. r = OnSealedDelta(x, e) /\ e.n = x.streams /\ e.ev \in Deltas
          BY <1>3, <2>1 DEF Dispatch, Deltas
    <3> QED BY <1>3, <3>1, SealedDeltaSound
  <2>2. CASE e.ev = "receipt"
    <3>1. r = x
          BY <2>2 DEF Dispatch
    <3> QED BY <1>3, <3>1
  <2>3. CASE e.ev = "done"
    <3>1. r = OnDone(x) /\ x.chunk = <<>>
          BY <1>3, <2>3 DEF Dispatch, Endings
    <3> QED BY <1>3, <3>1, DoneSound
  <2>4. CASE e.ev \in {"error", "unauthorized"}
    <3>1. r = OnError(x, e) /\ x.chunk = <<>>
          BY <1>3, <2>4 DEF Dispatch, Endings
    <3> QED BY <1>3, <3>1, OnErrorSound
  <2>5. e.ev \in Deltas \cup Endings \cup {"receipt"}
        BY <1>3 DEF EventRecords
  <2> QED BY <2>1, <2>2, <2>3, <2>4, <2>5 DEF Deltas, Endings
<1> HIDE DEF r
<1> QED BY <1>1, <1>4, <1>5, TurnMoves
-----------------------------------------------------------------------------
(* Microtasks *)

LEMMA OpenDeltaKeeps == ASSUME ChatInv, NEW t \in Turns, OpenDelta(t) PROVE ChatInv'
<1> DEFINE tr == turn[t]
           e == Head(tr.chain)
           rest == Tail(tr.chain)
           acc == Append(tr.acc, e)
<1>0. tr \in TurnRecords /\ StreamSound(tr) /\ ControlSound(tr) /\ OwnerSound(tr)
      BY TurnFacts
<1>1. /\ tr.chunk = <<>> /\ tr.chain # <<>>
      /\ ident' = ident /\ sess' = sess /\ store' = store /\ rows' = rows /\ submitting' \in BOOLEAN
      BY DEF OpenDelta, ChatInv
<1>2. /\ Busy(tr) /\ tr.streams # 0 /\ ~tr.cancelled /\ tr.st \notin {"idle", "gathering"}
      /\ tr.sess = sess /\ tr.sent # <<>> /\ ~tr.resign
      BY <1>0, <1>1 DEF ControlSound, OwnerSound, Busy
<1>3. \A row \in rows : row.turn # t
      BY <1>2, NoRowYet
<1>4. tr.chain \in Seq(EventRecords) /\ tr.acc \in Seq(EventRecords)
      BY <1>0 DEF TurnRecords
<1>5. /\ e \in EventRecords /\ rest \in Seq(EventRecords) /\ Range(tr.chain) = {e} \cup Range(rest)
      BY <1>1, <1>4, RangeHead
<1>6. /\ acc \in Seq(EventRecords) /\ Range(acc) = Range(tr.acc) \cup {e}
  <2> HIDE DEF e
  <2> QED BY <1>4, <1>5, RangeAppend
<1>7. InOrder(tr) /\ DeltasOf(tr.streams, tr.acc) /\ DeltasOf(tr.streams, tr.chain)
      BY <1>0 DEF StreamSound
<1>8. /\ Ordered(acc) /\ Ordered(rest) /\ Follows(tr.acc, rest) /\ Follows(acc, rest)
      /\ \A b : Follows(tr.acc, b) /\ Follows(tr.chain, b) => Follows(acc, b) /\ Follows(rest, b)
      BY <1>1, <1>4, <1>7, OrderMoves DEF InOrder
<1>9. DeltasOf(tr.streams, rest) /\ DeltasOf(tr.streams, acc)
  <2>1. DeltasOf(tr.streams, rest) /\ e.n = tr.streams /\ e.ev \in Deltas
        BY <1>1, <1>4, <1>7, DeltasMove
  <2> HIDE DEF e
  <2> QED BY <1>4, <1>5, <1>7, <2>1, DeltasMove
<1>10. CASE Opens(e)
  <2> DEFINE shows == IF tr.shows \in {"error", "late"} THEN "late" ELSE "text"
             r == [tr EXCEPT !.chain = rest, !.acc = acc, !.shows = shows]
  <2>1. turn' = [turn EXCEPT ![t] = [[tr EXCEPT !.chain = rest] EXCEPT !.acc = Append(@, e),
                     !.shows = IF @ \in {"error", "late"} THEN "late" ELSE "text"]]
        BY <1>10 DEF OpenDelta
  <2> HIDE DEF rest, e
  <2>2. [[tr EXCEPT !.chain = rest] EXCEPT !.acc = Append(@, e),
             !.shows = IF @ \in {"error", "late"} THEN "late" ELSE "text"] = r
        BY <1>0 DEF TurnRecords
  <2>3. turn' = [turn EXCEPT ![t] = r]
        BY <2>1, <2>2
  <2>3a. shows \in {"late", "text"}
        OBVIOUS
  <2> HIDE DEF acc, shows
  <2>4. /\ r \in TurnRecords /\ r.st = tr.st /\ r.net = tr.net /\ r.chunk = tr.chunk
        /\ r.by = tr.by /\ r.temp = tr.temp /\ r.cancelled = tr.cancelled /\ r.sess = tr.sess
        /\ r.streams = tr.streams /\ r.retries = tr.retries
        /\ r.chain = rest /\ r.done = tr.done /\ r.resign = tr.resign
        /\ r.sent = tr.sent /\ r.acc = acc
        BY <1>0, <1>5, <1>6, <2>3a DEF TurnRecords
  <2> HIDE DEF r, tr
  <2>5. StreamSound(r)
    <3>1. InOrder(r)
          BY <1>7, <1>8, <2>4 DEF InOrder
    <3> QED BY <1>0, <1>9, <2>4, <3>1 DEF StreamSound
  <2>6. ControlSound(r)
        BY <1>0, <1>2, <2>4 DEF ControlSound
  <2>7. OwnerSound(r)
    <3>1. e.key = tr.sess /\ ~e.cut
          BY <1>2, <1>10 DEF Opens
    <3>2. OpenedSound(tr) => OpenedSound(r)
          BY <1>5, <1>6, <2>4, <3>1 DEF OpenedSound, Openable
    <3> QED BY <1>0, <1>2, <2>4, <3>2 DEF OwnerSound
  <2> QED BY <1>1, <1>3, <2>3, <2>4, <2>5, <2>6, <2>7, TurnMoves
<1>11. CASE ~Opens(e)
  <2> DEFINE r == [tr EXCEPT !.chain = rest]
  <2>1. turn' = [turn EXCEPT ![t] = r]
        BY <1>11 DEF OpenDelta
  <2> HIDE DEF rest, e, acc
  <2>2. /\ r \in TurnRecords /\ r.st = tr.st /\ r.net = tr.net /\ r.chunk = tr.chunk
        /\ r.by = tr.by /\ r.temp = tr.temp /\ r.cancelled = tr.cancelled /\ r.sess = tr.sess
        /\ r.streams = tr.streams /\ r.retries = tr.retries
        /\ r.chain = rest /\ r.done = tr.done /\ r.resign = tr.resign
        /\ r.sent = tr.sent /\ r.acc = tr.acc
        BY <1>0, <1>5 DEF TurnRecords
  <2> HIDE DEF r, tr
  <2>3. StreamSound(r)
    <3>1. InOrder(r)
          BY <1>7, <1>8, <2>2 DEF InOrder
    <3> QED BY <1>0, <1>9, <2>2, <3>1 DEF StreamSound
  <2>4. ControlSound(r)
        BY <1>0, <1>2, <2>2 DEF ControlSound
  <2>5. OwnerSound(r)
    <3>1. ident # None => ~(e.key = tr.sess /\ ~e.cut)
          BY <1>2, <1>11 DEF Opens
    <3>2. ident # None /\ OpenedSound(tr) => OpenedSound(r)
          BY <1>5, <2>2, <3>1 DEF OpenedSound, Openable
    <3> QED BY <1>0, <1>2, <2>2, <3>2 DEF OwnerSound
  <2> QED BY <1>1, <1>3, <2>1, <2>2, <2>3, <2>4, <2>5, TurnMoves
<1> QED BY <1>10, <1>11

\* The chain is empty, so what was opened is what was sent; the open store is the author's.
LEMMA FinaliseKeeps == ASSUME ChatInv, NEW t \in Turns, Finalise(t) PROVE ChatInv'
<1> DEFINE tr == turn[t]
           r == [tr EXCEPT !.done = FALSE, !.shows = "final"]
           row0 == [file |-> store.owner, turn |-> t, text |-> tr.acc]
<1>0. tr \in TurnRecords /\ StreamSound(tr) /\ ControlSound(tr) /\ OwnerSound(tr)
      BY TurnFacts
<1>1. /\ tr.chunk = <<>> /\ tr.done /\ tr.chain = <<>> /\ turn' = [turn EXCEPT ![t] = r]
      /\ ident' = ident /\ sess' = sess /\ submitting' \in BOOLEAN
      BY DEF Finalise
<1>2. /\ Busy(tr) /\ ~tr.cancelled /\ ~tr.resign /\ tr.st = "closed" /\ tr.net = <<>>
      BY <1>0, <1>1 DEF ControlSound, OwnerSound, Busy
<1>3. \A row \in rows : row.turn # t
      BY <1>2, NoRowYet
<1>4. store' = store /\ (rows' = rows \/ (~tr.temp /\ IsOpen /\ rows' = rows \cup {row0}))
      BY DEF Finalise, PersistTurnToStore, PersistTurn
<1>5. row0.turn = t /\ row0.file = store.owner /\ row0.text = tr.acc
      OBVIOUS
<1>6. IsOpen => store.owner = tr.by /\ TextSound(tr.acc, tr)
  <2>1. tr.acc \in Seq(EventRecords) /\ DOMAIN tr.acc = 1..Len(tr.acc)
        BY <1>0 DEF TurnRecords
  <2>2. IsOpen => store.owner = ident /\ ident # None
        BY DEF ChatInv, IsOpen
  <2> HIDE DEF tr
  <2>3. IsOpen => store.owner = tr.by /\ OpenedSound(tr)
        BY <1>0, <1>2, <2>2 DEF OwnerSound
  <2>4. OpenedSound(tr) => Range(tr.acc) = Openable(tr)
        BY <1>1, EmptySound DEF OpenedSound
  <2> QED BY <1>0, <2>1, <2>3, <2>4 DEF TextSound, StreamSound, InOrder
<1>7. /\ r \in TurnRecords /\ r.st = tr.st /\ r.net = tr.net /\ r.chunk = tr.chunk
      /\ r.by = tr.by /\ r.temp = tr.temp /\ r.cancelled = tr.cancelled /\ r.sess = tr.sess
      /\ r.streams = tr.streams /\ r.retries = tr.retries
      /\ r.chain = tr.chain /\ r.done = FALSE /\ r.resign = tr.resign
      /\ r.sent = tr.sent /\ r.acc = tr.acc
      BY <1>0 DEF TurnRecords
<1> HIDE DEF r, tr, row0
<1>8. StreamSound(r)
      BY <1>0, <1>7 DEF StreamSound, InOrder
<1>9. ControlSound(r)
      BY <1>0, <1>1, <1>2, <1>7 DEF ControlSound, Busy
<1>10. OwnerSound(r)
      BY <1>0, <1>2, <1>7 DEF OwnerSound, OpenedSound, Openable
<1>10a. TextSound(tr.acc, tr) => TextSound(tr.acc, r)
      BY <1>7 DEF TextSound, Openable
<1>11. ~Busy(r)
      BY <1>1, <1>2, <1>7 DEF Busy
<1>12. \A row \in rows' : \/ row \in rows /\ row.turn # t
                          \/ /\ row.turn = t /\ r.st = "closed" /\ ~Busy(r) /\ r.net = <<>>
                             /\ TextSound(row.text, r) /\ row.file = r.by /\ ~r.temp
      BY <1>2, <1>3, <1>4, <1>5, <1>6, <1>7, <1>10a, <1>11
<1> QED BY <1>1, <1>4, <1>7, <1>8, <1>9, <1>10, <1>12, TurnMoves

LEMMA ResignKeeps == ASSUME ChatInv, NEW t \in Turns, Resign(t) PROVE ChatInv'
<1> DEFINE tr == turn[t]
           x == [tr EXCEPT !.resign = FALSE]
<1>0. tr \in TurnRecords /\ StreamSound(tr) /\ ControlSound(tr) /\ OwnerSound(tr) /\ sess \in Nat
      BY TurnFacts
<1>1. /\ tr.chunk = <<>> /\ tr.resign
      /\ ident' = ident /\ sess' = sess /\ store' = store /\ rows' = rows /\ submitting' \in BOOLEAN
      BY DEF Resign, ChatInv
<1>2. /\ Busy(tr) /\ tr.streams # 0 /\ ~tr.cancelled /\ tr.st = "closed" /\ ~tr.done
      /\ tr.sess = sess /\ tr.sent = <<>> /\ tr.acc = <<>> /\ tr.chain = <<>> /\ tr.net = <<>>
      /\ tr.streams <= tr.retries
      BY <1>0, <1>1 DEF ControlSound, OwnerSound, Busy
<1>3. \A row \in rows : row.turn # t
      BY <1>2, NoRowYet
<1>4. /\ x \in TurnRecords /\ x.st = tr.st /\ x.net = tr.net /\ x.chunk = tr.chunk
      /\ x.by = tr.by /\ x.temp = tr.temp /\ x.cancelled = tr.cancelled /\ x.sess = tr.sess
      /\ x.streams = tr.streams /\ x.retries = tr.retries
      /\ x.chain = tr.chain /\ x.done = tr.done /\ x.resign = FALSE
      /\ x.sent = tr.sent /\ x.acc = tr.acc
      BY <1>0 DEF TurnRecords
<1>5. StreamSound(x)
      BY <1>0, <1>4 DEF StreamSound, InOrder
<1>6. ControlSound(x)
      BY <1>0, <1>2, <1>4 DEF ControlSound
<1>7. OwnerSound(x)
      BY <1>0, <1>2, <1>4 DEF OwnerSound, OpenedSound, Openable
<1>8. CASE ident = None
  <2>1. turn' = [turn EXCEPT ![t] = Errored(x)]
        BY <1>8 DEF Resign
  <2> HIDE DEF x
  <2>2. /\ Errored(x) \in TurnRecords /\ StreamSound(Errored(x))
        /\ ControlSound(Errored(x)) /\ OwnerSound(Errored(x))
        BY <1>2, <1>4, <1>5, <1>6, <1>7, ErroredSound
  <2> QED BY <1>1, <1>3, <2>1, <2>2, TurnMoves
<1>9. CASE ident # None
  <2>1. PICK reply \in Replies(x.streams + 1, x.sess) : turn' = [turn EXCEPT ![t] = Streamed(x, reply)]
        BY <1>9 DEF Resign
  <2> HIDE DEF x
  <2>2. x.sess = sess /\ ~x.cancelled /\ ~Busy(x) /\ x.acc = <<>> /\ x.sent = <<>>
        /\ x.retries <= MAX401Retries /\ x.streams <= x.retries /\ ident \in Seeds
        BY <1>0, <1>1, <1>2, <1>4, <1>6, <1>9 DEF Busy, ControlSound, ChatInv
  <2>3. x.by = ident /\ x.by \in Seeds
        BY <1>2, <1>4, <1>7, <1>9 DEF OwnerSound
  <2> DEFINE y == Streamed(x, reply)
             r == [y EXCEPT !.sess = sess]
  <2>4. r \in TurnRecords /\ StreamSound(r) /\ ControlSound(r) /\ OwnerSound(r)
        BY <1>0, <1>4, <1>7, <2>2, <2>3, StreamedSound
  <2>5. r = y
    <3>1. y.sess = sess /\ y = [y EXCEPT !.sess = y.sess]
          BY <1>4, <2>2 DEF Streamed, TurnRecords
    <3> QED BY <3>1
  <2>6. turn' = [turn EXCEPT ![t] = r]
        BY <2>1, <2>5
  <2> HIDE DEF r
  <2> QED BY <1>1, <1>3, <2>4, <2>6, TurnMoves
<1> QED BY <1>8, <1>9

-----------------------------------------------------------------------------
(* The theorems *)

LEMMA ChatInductive == ChatInv /\ [Next]_vars => ChatInv'
<1> SUFFICES ASSUME ChatInv, [Next]_vars PROVE ChatInv'
    OBVIOUS
<1>1. CASE UNCHANGED vars
  <2>1. ident' = ident /\ sess' = sess /\ store' = store /\ rows' = rows /\ turn' = turn
        /\ submitting' = submitting
        BY <1>1 DEF vars
  <2>2. \A t \in Turns : TurnSound(turn[t])'
    <3> SUFFICES ASSUME NEW t \in Turns PROVE TurnSound(turn[t])'
        OBVIOUS
    <3>1. TurnSound(turn[t])
          BY DEF ChatInv
    <3>2. StreamSound(turn[t])' /\ ControlSound(turn[t])'
          BY <2>1, <3>1 DEF TurnSound
    <3>3. OwnerSound(turn[t])'
          BY <2>1, <3>1 DEF TurnSound, OwnerSound, Busy
    <3> QED BY <3>2, <3>3 DEF TurnSound
  <2>3. \A row \in rows' : RowSound(row)'
        BY <2>1 DEF ChatInv, RowSound, Busy
  <2> QED BY <2>1, <2>2, <2>3 DEF ChatInv
<1>2. CASE Lock
      BY <1>2, LockKeeps
<1>3. CASE \E s \in Seeds : Unlock(s)
      BY <1>3, UnlockKeeps
<1>4. ASSUME NEW t \in Turns,
             Submit(t) \/ Cleanup(t) \/ Send(t) \/ Chunk(t) \/ Listener(t) \/ Broken(t) \/ Microtask(t)
      PROVE  ChatInv'
      BY <1>4, SubmitKeeps, CleanupKeeps, SendKeeps, ChunkKeeps, ListenerKeeps, BrokenKeeps,
         OpenDeltaKeeps, FinaliseKeeps, ResignKeeps DEF Microtask
<1> QED BY <1>1, <1>2, <1>3, <1>4 DEF Next

LEMMA ChatIsSound == Spec => []ChatInv
BY ChatInitial, ChatInductive, PTL DEF Spec

\* However long a reply is, however its events are cut into chunks, whichever of its deltas
\* do not open, and whether or not the prompt was signed a second time: the row that is
\* stored has every delta of the last stream that the tab could open, once and in order
\* (deltaChain and `await deltaChain` in useSSE's 'done' listener).
THEOREM RepliesAreStoredAsOpened == Spec => []StoredAsOpened
<1>1. ChatInv => StoredAsOpened
  <2> SUFFICES ASSUME ChatInv, NEW row \in rows
               PROVE  LET tr == turn[row.turn] IN
                      /\ Range(row.text) = Openable(tr)
                      /\ \A i, j \in DOMAIN row.text : i < j => row.text[i].i < row.text[j].i
                      /\ \A e \in Range(row.text) : e.n = tr.streams
      BY DEF StoredAsOpened
  <2>1. TextSound(row.text, turn[row.turn])
        BY DEF ChatInv, RowSound
  <2> QED BY <2>1 DEF TextSound, Ordered, DeltasOf, Range
<1> QED BY <1>1, ChatIsSound, PTL

\* Whatever locks and unlocks happen around it, a reply is only ever written to the file of
\* the identity that submitted its prompt, and a temporary chat is not written
\* (persistTurnToStore looks the proxy up when the reply ends).
THEOREM TurnsAreOfTheirOwner == Spec => []TurnsOfOwner
<1>1. ChatInv => TurnsOfOwner
  <2> SUFFICES ASSUME ChatInv PROVE TurnsOfOwner
      OBVIOUS
  <2>1. \A t \in Turns : /\ turn[t].st \in {"idle", "gathering", "streaming", "closed"}
                         /\ turn[t].shows \in {"nothing", "text", "final", "error", "late"}
                         /\ turn[t].retries \in 0..MAX401Retries
                         /\ turn[t].streams \in 0..1 + MAX401Retries
    <3> SUFFICES ASSUME NEW t \in Turns
                 PROVE  /\ turn[t].st \in {"idle", "gathering", "streaming", "closed"}
                        /\ turn[t].shows \in {"nothing", "text", "final", "error", "late"}
                        /\ turn[t].retries \in 0..MAX401Retries
                        /\ turn[t].streams \in 0..1 + MAX401Retries
        OBVIOUS
    <3>1. turn[t] \in TurnRecords /\ ControlSound(turn[t])
          BY DEF ChatInv, TurnSound
    <3>2. /\ turn[t].st \in {"idle", "gathering", "streaming", "closed"}
          /\ turn[t].shows \in {"nothing", "text", "final", "error", "late"}
          /\ turn[t].retries \in Nat /\ turn[t].streams \in Nat
          BY <3>1 DEF TurnRecords
    <3>3. turn[t].retries <= 1 /\ turn[t].streams <= turn[t].retries + 1
          BY <3>1 DEF ControlSound, MAX401Retries
    <3> QED BY <3>2, <3>3 DEF MAX401Retries
  <2>2. submitting \in BOOLEAN
        BY DEF ChatInv
  <2>3. ident \in Seeds \union {None} /\ sess \in 0..MaxUnlocks /\ store.owner \in {ident, None}
        BY DEF ChatInv
  <2>4. TypeOK
        BY <2>1, <2>2, <2>3 DEF TypeOK
  <2> QED BY <2>4 DEF ChatInv, TurnsOfOwner, RowSound
<1> QED BY <1>1, ChatIsSound, PTL

\* Once a submission was cleaned up no step opens a stream or a delta for it, or writes it:
\* the invariant leaves a cancelled turn without an open stream, a chunk or a microtask.
THEOREM CleanupIsFinal == Spec => SilentAfterCleanup
<1> DEFINE Silent(t) == turn[t].cancelled =>
               /\ turn'[t].streams = turn[t].streams
               /\ turn'[t].acc = turn[t].acc
               /\ {r \in rows' : r.turn = t} = {r \in rows : r.turn = t}
<1>1. ChatInv /\ [Next]_vars => [\A t \in Turns : Silent(t)]_vars
  <2> SUFFICES ASSUME ChatInv, Next, NEW t \in Turns, turn[t].cancelled
               PROVE  /\ turn'[t].streams = turn[t].streams
                      /\ turn'[t].acc = turn[t].acc
                      /\ {r \in rows' : r.turn = t} = {r \in rows : r.turn = t}
      OBVIOUS
  <2>1. /\ turn[t] \in TurnRecords /\ ~Busy(turn[t]) /\ turn[t].net = <<>>
        /\ turn[t].st \in {"gathering", "closed"}
        BY DEF ChatInv, TurnSound, OwnerSound
  <2>2. CASE Lock
        BY <2>2 DEF Lock
  <2>3. CASE \E s \in Seeds : Unlock(s)
    <3>1. rows' = rows /\ turn' = turn
          BY <2>3 DEF ChatInv, Unlock
    <3> QED BY <3>1
  <2>4. ASSUME NEW u \in Turns, u # t,
               Submit(u) \/ Cleanup(u) \/ Send(u) \/ Chunk(u) \/ Listener(u) \/ Broken(u) \/ Microtask(u)
        PROVE  turn'[t] = turn[t] /\ {r \in rows' : r.turn = t} = {r \in rows : r.turn = t}
    <3>0. turn \in [Turns -> TurnRecords]
          BY DEF ChatInv
    <3>1. CASE Submit(u) \/ Cleanup(u) \/ Chunk(u) \/ Listener(u) \/ Broken(u)
          BY <2>4, <3>0, <3>1 DEF Submit, Cleanup, Chunk, Listener, Broken
    <3>2. CASE Send(u)
          BY <2>4, <3>0, <3>2 DEF Send
    <3>3. CASE OpenDelta(u) \/ Resign(u)
          BY <2>4, <3>0, <3>3 DEF OpenDelta, Resign
    <3>4. CASE Finalise(u)
      <4> DEFINE row0 == [file |-> store.owner, turn |-> u, text |-> turn[u].acc]
      <4>1. rows' = rows \/ rows' = rows \cup {row0}
            BY <3>4 DEF Finalise, PersistTurnToStore, PersistTurn
      <4>2. row0.turn = u
            OBVIOUS
      <4>3. turn'[t] = turn[t]
            BY <2>4, <3>0, <3>4 DEF Finalise
      <4> HIDE DEF row0
      <4> QED BY <2>4, <4>1, <4>2, <4>3
    <3> QED BY <2>4, <3>1, <3>2, <3>3, <3>4 DEF Microtask
  <2>5. CASE Send(t)
    <3>1. rows' = rows /\ turn \in [Turns -> TurnRecords]
          BY <2>5 DEF ChatInv, Send
    <3>2. turn' = [turn EXCEPT ![t] = Errored(turn[t])] \/ turn' = [turn EXCEPT ![t].st = "closed"]
          BY <2>5 DEF Send
    <3>3. turn'[t].streams = turn[t].streams /\ turn'[t].acc = turn[t].acc
      <4>1. CASE turn' = [turn EXCEPT ![t] = Errored(turn[t])]
        <5>1. turn'[t] = Errored(turn[t])
              BY <3>1, <4>1
        <5>2. \A tr \in TurnRecords : Errored(tr).streams = tr.streams /\ Errored(tr).acc = tr.acc
              BY DEF Errored, TurnRecords
        <5> QED BY <2>1, <5>1, <5>2
      <4>2. CASE turn' = [turn EXCEPT ![t].st = "closed"]
        <5>1. turn'[t] = [turn[t] EXCEPT !.st = "closed"]
              BY <3>1, <4>2
        <5> QED BY <2>1, <5>1 DEF TurnRecords
      <4> QED BY <3>2, <4>1, <4>2
    <3> QED BY <3>1, <3>3
  <2>6. ~(Submit(t) \/ Cleanup(t) \/ Chunk(t) \/ Listener(t) \/ Broken(t) \/ Microtask(t))
        BY <2>1 DEF Submit, Cleanup, Chunk, Listener, Broken, Microtask, OpenDelta, Finalise, Resign, Busy
  <2> QED BY <2>2, <2>3, <2>4, <2>5, <2>6 DEF Next
<1> QED BY <1>1, ChatIsSound, PTL DEF Spec, SilentAfterCleanup
=============================================================================
