------------------------------ MODULE ChatTurn ------------------------------
(***************************************************************************)
(* One chat turn from the moment its prompt is sealed: useSSE opens the    *)
(* stream, opens each sealed delta, finalises the reply and writes the turn*)
(* to the device store, while the user stops it, leaves the page, locks    *)
(* the tab or unlocks it again.  (DeviceIdentity models what comes before: *)
(* gathering the prompt.)                                                  *)
(*                                                                         *)
(* The events of one network chunk are dispatched in one go, each to its   *)
(* listener.  What the listeners await (a link of deltaChain, a signature) *)
(* is a microtask, as the wasm module is loaded by then: microtasks run    *)
(* after the whole chunk and before anything else, so every other action   *)
(* waits until the tab is Quiet.                                           *)
(*                                                                         *)
(* A delta that does not open is dropped without a word: it was sealed     *)
(* with the session of another device of the account, or it is a tool step *)
(* whose JSON the gateway cut off.                                         *)
(***************************************************************************)
EXTENDS Naturals, Sequences, SequencesExt

CONSTANTS
    Seeds,
    Turns,
    MaxDeltas,      \* bound: sealed deltas of one reply
    MaxUnlocks,     \* bound: unlocks of the tab
    None

ASSUME BoundsAssumption == MaxDeltas \in Nat /\ MaxUnlocks \in Nat
ASSUME NoneAssumption == None \notin Seeds

MAX401Retries == 1

VARIABLES
    ident,      \* the unlocked identity
    sess,       \* number of the session: the unlock that established it
    store,      \* the current store proxy: whose store it has open, and writes that await ready
    rows,       \* turns in the store files
    turn,       \* turn[t]: one submission
    submitting  \* store.isSubmitting: the composer is blocked

vars == <<ident, sess, store, rows, turn, submitting>>

ClosedStore == [owner |-> None, waiting |-> {}]

NoTurn == [st |-> "idle", by |-> None, temp |-> FALSE, cancelled |-> FALSE, sess |-> 0,
           streams |-> 0, retries |-> 0, net |-> <<>>, chunk |-> <<>>, chain |-> <<>>, done |-> FALSE,
           resign |-> FALSE, sent |-> <<>>, acc |-> <<>>, shows |-> "nothing"]

Init ==
    /\ ident = None
    /\ sess = 0
    /\ store = ClosedStore
    /\ rows = {}
    /\ turn = [t \in Turns |-> NoTurn]
    /\ submitting = FALSE

Busy(tr) == tr.chunk # <<>> \/ tr.chain # <<>> \/ tr.done \/ tr.resign
Quiet == \A t \in Turns : ~Busy(turn[t])
IsOpen == store.owner # None

-----------------------------------------------------------------------------
(***************************************************************************)
(* The tab.  Locking navigates to the login screen, which unmounts the     *)
(* chat: its cleanup has run before another unlock can start.              *)
(***************************************************************************)
Lock ==
    /\ Quiet /\ ident # None
    /\ ident' = None
    /\ store' = ClosedStore
    /\ UNCHANGED <<sess, rows, turn, submitting>>

\* The store may fail to open.  Writes that wait for its `ready` run when it opens.
Unlock(s) ==
    /\ Quiet /\ ident = None /\ sess < MaxUnlocks
    /\ \A t \in Turns : turn[t].st # "idle" => turn[t].cancelled
    /\ ident' = s
    /\ sess' = sess + 1
    /\ \/ /\ store' = [owner |-> s, waiting |-> {}]
          /\ rows' = rows \union {[r EXCEPT !.file = s] : r \in store.waiting}
       \/ /\ store' = ClosedStore
          /\ UNCHANGED rows
    /\ UNCHANGED <<turn, submitting>>

\* The effect of a new submission starts; a locked tab refuses it.  The effect of the one
\* before was cleaned up first.
Submit(t) ==
    /\ Quiet /\ turn[t].st = "idle" /\ ident # None /\ ~submitting
    /\ \A u \in Turns : turn[u].st # "idle" => turn[u].cancelled
    /\ \E temp \in BOOLEAN :
          turn' = [turn EXCEPT ![t] = [NoTurn EXCEPT !.st = "gathering", !.by = ident, !.temp = temp]]
    /\ UNCHANGED <<ident, sess, store, rows, submitting>>

\* The effect's cleanup, when the user stops the turn, leaves the page or is logged out.  A
\* stream that is still open is closed and aborted ('cancel'), which frees the composer.
Cleanup(t) ==
    /\ Quiet /\ turn[t].st # "idle" /\ ~turn[t].cancelled
    /\ turn' = [turn EXCEPT ![t].cancelled = TRUE, ![t].net = <<>>,
                            ![t].st = IF @ = "gathering" THEN @ ELSE "closed"]
    /\ submitting' = (submitting /\ turn[t].st # "streaming")
    /\ UNCHANGED <<ident, sess, store, rows>>

-----------------------------------------------------------------------------
(***************************************************************************)
(* The stream: what the gateway answers (SessionChannel and TurnRouting    *)
(* have how).  A reply has sealed deltas, a receipt and one end; a clock   *)
(* that is off makes it 401, a session that was replaced makes it 400.     *)
(***************************************************************************)
\* One reply: how many deltas, how many of them are tool steps (they come before the answer),
\* how many were sealed before another device of the account established its session, which
\* tool steps were too long, and whether the gateway failed in the end.
Shapes ==
    {sh \in [deltas : 0..MaxDeltas, tools : 0..MaxDeltas, mine : 0..MaxDeltas,
             cuts : SUBSET (1..MaxDeltas), end : {"done", "error"}] :
        /\ sh.mine <= sh.deltas /\ sh.cuts \subseteq 1..sh.tools
        /\ sh.tools \in {0, sh.deltas - 1} \/ (sh.end = "error" /\ sh.tools = sh.deltas)}

\* The i-th delta of stream n, asked for with session s; 0 is another device's session.
Delta(n, s, sh, i) ==
    [ev |-> IF i <= sh.tools THEN "tool" ELSE "token", n |-> n, i |-> i,
     key |-> IF i <= sh.mine THEN s ELSE 0, cut |-> i \in sh.cuts]
Ev(k) == [ev |-> k, n |-> 0, i |-> 0, key |-> 0, cut |-> FALSE]

Reply(n, s, sh) ==
    [i \in 1..sh.deltas |-> Delta(n, s, sh, i)]
        \o (IF sh.end = "done" THEN <<Ev("receipt"), Ev("done")>> ELSE <<Ev("error")>>)

Replies(n, s) == {<<Ev("unauthorized")>>} \union {Reply(n, s, sh) : sh \in Shapes}

Streamed(tr, reply) == [tr EXCEPT !.st = "streaming", !.streams = @ + 1, !.net = reply]

\* errorHandler: the error replaces the reply and the turn is over.
Errored(tr) == [tr EXCEPT !.st = "closed", !.net = <<>>, !.shows = "error"]

\* Mutant: the submission does not ask whether it was cancelled while it gathered its prompt.
SendUnchecked(t) ==
    /\ Quiet /\ turn[t].st = "gathering"
    /\ IF ident = None THEN turn' = [turn EXCEPT ![t] = Errored(@)]
       ELSE \E reply \in Replies(1, sess) :
                turn' = [turn EXCEPT ![t] = [Streamed(@, reply) EXCEPT !.sess = sess]]
    /\ submitting' = (ident # None)
    /\ UNCHANGED <<ident, sess, store, rows>>

\* The prompt is gathered: seal, sign, look at `cancelled`, open the stream.
Send(t) ==
    /\ Quiet /\ turn[t].st = "gathering"
    /\ IF ident = None
       THEN turn' = [turn EXCEPT ![t] = Errored(@)] /\ submitting' = FALSE
       ELSE IF turn[t].cancelled
       THEN turn' = [turn EXCEPT ![t].st = "closed"] /\ UNCHANGED submitting
       ELSE /\ \E reply \in Replies(1, sess) :
                  turn' = [turn EXCEPT ![t] = [Streamed(@, reply) EXCEPT !.sess = sess]]
            /\ submitting' = TRUE
    /\ UNCHANGED <<ident, sess, store, rows>>

\* A 401 is signed again once.
Resigns(tr, e) == e.ev = "unauthorized" /\ tr.retries < MAX401Retries

\* The 'error' listener up to its first await.
OnError(tr, e) ==
    IF Resigns(tr, e)
    THEN [tr EXCEPT !.resign = TRUE, !.retries = @ + 1, !.net = <<>>, !.st = "closed"]
    ELSE Errored(tr)

\* The 'token', 'reasoning' and 'tool' listeners: the delta joins the chain.
OnSealedDelta(tr, e) == [tr EXCEPT !.chain = Append(@, e), !.sent = Append(@, e)]

\* Mutant: the reply is finalised without waiting for the chain.
OnDoneAtOnce(tr) == [tr EXCEPT !.done = TRUE, !.chain = <<>>, !.net = <<>>, !.st = "closed"]

\* The 'done' listener up to `await deltaChain`.
OnDone(tr) == [tr EXCEPT !.done = TRUE, !.net = <<>>, !.st = "closed"]

Dispatch(tr, e) ==
    CASE e.ev \in {"token", "tool"} -> OnSealedDelta(tr, e)
      [] e.ev = "receipt" -> tr
      [] e.ev = "done" -> OnDone(tr)
      [] OTHER -> OnError(tr, e)

\* One chunk: a prefix of what the gateway still sends.
Chunk(t) ==
    /\ Quiet /\ turn[t].net # <<>>
    /\ \E n \in 1..Len(turn[t].net) :
          turn' = [turn EXCEPT ![t].chunk = SubSeq(turn[t].net, 1, n),
                               ![t].net = SubSeq(turn[t].net, n + 1, Len(turn[t].net))]
    /\ UNCHANGED <<ident, sess, store, rows, submitting>>

\* The listener of the next event of the chunk runs, up to its first await.
Listener(t) ==
    /\ turn[t].chunk # <<>>
    /\ LET e == Head(turn[t].chunk) IN
       /\ turn' = [turn EXCEPT ![t] = Dispatch([turn[t] EXCEPT !.chunk = Tail(@)], e)]
       /\ submitting' = (submitting /\ (e.ev \in {"error", "unauthorized"} => Resigns(turn[t], e)))
    /\ UNCHANGED <<ident, sess, store, rows>>

\* The connection breaks: sse.js raises an error without data.
Broken(t) ==
    /\ Quiet /\ turn[t].st = "streaming"
    /\ turn' = [turn EXCEPT ![t] = Errored(@)]
    /\ submitting' = FALSE
    /\ UNCHANGED <<ident, sess, store, rows>>

-----------------------------------------------------------------------------
(***************************************************************************)
(* Microtasks, which run once the chunk is dispatched.                     *)
(***************************************************************************)
\* openDelta succeeds with the session of now, and a tool step parses.
Opens(e) == ident # None /\ e.key = sess /\ ~e.cut

\* One link of the chain: the delta is shown, late if the turn has failed already, or dropped.
OpenDelta(t) ==
    /\ turn[t].chunk = <<>> /\ turn[t].chain # <<>>
    /\ LET e == Head(turn[t].chain)
           rest == [turn[t] EXCEPT !.chain = Tail(@)]
       IN  IF Opens(e)
           THEN /\ turn' = [turn EXCEPT ![t] = [rest EXCEPT !.acc = Append(@, e),
                                !.shows = IF @ \in {"error", "late"} THEN "late" ELSE "text"]]
                /\ submitting' = TRUE
           ELSE turn' = [turn EXCEPT ![t] = rest] /\ UNCHANGED submitting
    /\ UNCHANGED <<ident, sess, store, rows>>

\* StoreProxy.persistTurn: the row is written now, or once the store is open.
PersistTurn(r) ==
    IF IsOpen THEN rows' = rows \union {r} /\ UNCHANGED store
    ELSE store' = [store EXCEPT !.waiting = @ \union {r}] /\ UNCHANGED rows

\* Mutant: the turn is handed to the proxy whether or not its store is open.
PersistAnyhow(t) ==
    IF turn[t].temp THEN UNCHANGED <<rows, store>>
    ELSE PersistTurn([file |-> store.owner, turn |-> t, text |-> turn[t].acc])

\* persistTurnToStore: not for a temporary chat, and not while the store is closed.
PersistTurnToStore(t) ==
    IF turn[t].temp \/ ~IsOpen THEN UNCHANGED <<rows, store>>
    ELSE PersistTurn([file |-> store.owner, turn |-> t, text |-> turn[t].acc])

\* The 'done' listener after its await: finalHandler, then the store.
Finalise(t) ==
    /\ turn[t].chunk = <<>> /\ turn[t].done /\ turn[t].chain = <<>>
    /\ turn' = [turn EXCEPT ![t].done = FALSE, ![t].shows = "final"]
    /\ submitting' = FALSE
    /\ PersistTurnToStore(t)
    /\ UNCHANGED <<ident, sess>>

\* Mutant: a signature that fails ends the listener.
ResignQuietly(t) ==
    /\ turn[t].chunk = <<>> /\ turn[t].resign
    /\ LET tr == [turn[t] EXCEPT !.resign = FALSE]
       IN  IF ident = None \/ tr.sess # sess THEN turn' = [turn EXCEPT ![t] = tr]
           ELSE \E reply \in Replies(tr.streams + 1, tr.sess) :
                    turn' = [turn EXCEPT ![t] = Streamed(tr, reply)]
    /\ UNCHANGED <<ident, sess, store, rows, submitting>>

\* The 'error' listener after a 401: sign with the identity of now and stream again.
Resign(t) ==
    /\ turn[t].chunk = <<>> /\ turn[t].resign
    /\ LET tr == [turn[t] EXCEPT !.resign = FALSE]
       IN  IF ident = None
           THEN turn' = [turn EXCEPT ![t] = Errored(tr)] /\ submitting' = FALSE
           ELSE /\ \E reply \in Replies(tr.streams + 1, tr.sess) :
                      turn' = [turn EXCEPT ![t] = Streamed(tr, reply)]
                /\ UNCHANGED submitting
    /\ UNCHANGED <<ident, sess, store, rows>>

-----------------------------------------------------------------------------
Microtask(t) == OpenDelta(t) \/ Finalise(t) \/ Resign(t)

Next ==
    \/ Lock \/ \E s \in Seeds : Unlock(s)
    \/ \E t \in Turns :
          Submit(t) \/ Cleanup(t) \/ Send(t) \/ Chunk(t) \/ Listener(t) \/ Broken(t) \/ Microtask(t)

\* Listeners and microtasks always run; a gathered prompt is sent (DeviceIdentity, SubmissionEnds) and
\* the gateway ends its replies (TurnRouting, TurnEnds).
Fairness ==
    \A t \in Turns : /\ WF_vars(Listener(t)) /\ WF_vars(Microtask(t))
                    /\ WF_vars(Send(t)) /\ WF_vars(Chunk(t))

Spec == Init /\ [][Next]_vars /\ Fairness

-----------------------------------------------------------------------------
\* Every variable has its type; a turn is signed again, and streamed, a bounded number of times.
TypeOK ==
    /\ ident \in Seeds \union {None} /\ sess \in 0..MaxUnlocks
    /\ store.owner \in {ident, None} /\ submitting \in BOOLEAN
    /\ \A t \in Turns :
          /\ turn[t].st \in {"idle", "gathering", "streaming", "closed"}
          /\ turn[t].shows \in {"nothing", "text", "final", "error", "late"}
          /\ turn[t].retries \in 0..MAX401Retries
          /\ turn[t].streams \in 0..1 + MAX401Retries

\* What of a turn's last stream its tab could open.
Openable(tr) == {e \in Range(tr.sent) : e.key = tr.sess /\ ~e.cut}

\* A stored reply has every delta of its last stream that the tab could open, each once and
\* in order, and nothing else: whichever deltas are dropped on the way, even when deltas and
\* `done` come in one chunk (deltaChain), after a 401 retry, or with a lock under the stream.
StoredAsOpened ==
    \A r \in rows : LET tr == turn[r.turn] IN
        /\ Range(r.text) = Openable(tr)
        /\ \A i, j \in DOMAIN r.text : i < j => r.text[i].i < r.text[j].i
        /\ \A e \in Range(r.text) : e.n = tr.streams

\* A stored reply has all that the gateway sent.  The code does not keep this: see
\* "Disagreements" in the README.
StoredReplyIsWhole == \A r \in rows : r.text = turn[r.turn].sent

\* A turn is only ever written to the file of the identity that submitted it, although the
\* proxy is looked up when the reply ends and a new proxy's writes wait for the next
\* unlock (persistTurnToStore); a temporary chat is never written.
TurnsOfOwner ==
    /\ TypeOK
    /\ \A r \in rows : r.file = turn[r.turn].by /\ ~turn[r.turn].temp

\* Once a submission was cleaned up it opens no stream, opens no delta and writes nothing:
\* the cancelled flag, close() and the microtasks leave no gap.
SilentAfterCleanup ==
    [][\A t \in Turns : turn[t].cancelled =>
          /\ turn'[t].streams = turn[t].streams
          /\ turn'[t].acc = turn[t].acc
          /\ {r \in rows' : r.turn = t} = {r \in rows : r.turn = t}]_vars

\* The composer is blocked only while a stream is open or a microtask waits (setIsSubmitting
\* in the listeners, finalHandler and errorHandler).  The code does not keep this: see
\* "Disagreements" in the README.
SpinnerMeansWork ==
    submitting => \E t \in Turns : turn[t].st = "streaming" \/ Busy(turn[t])

\* The turn is over.
Over(tr) == tr.st \in {"idle", "closed"} /\ ~Busy(tr)

\* A delta was opened after the error of its own chunk: the trace of SpinnerMeansWork.
LateDelta(tr) == tr.shows = "late"

\* From some time on every submission is over and the composer is free, and stays free: an
\* error, a failed signature, a stop or a lock leave it blocked at most for a while, except
\* for a turn whose reply was painted over its error (LateDelta).
TurnSettles ==
    /\ <>[](\A t \in Turns : Over(turn[t]))
    /\ <>[](submitting => \E t \in Turns : LateDelta(turn[t]))
=============================================================================
