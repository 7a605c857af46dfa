----------------------------- MODULE DeviceStore -----------------------------
(***************************************************************************)
(* The device store: the StoreProxy of the tab, the worker behind it and   *)
(* the encrypted file of each identity.  The proxy's methods wait for      *)
(* `ready`, post a request and wait for its answer; the worker serves one  *)
(* request after the other, the first of which opens the file; locking the *)
(* tab terminates the worker wherever it is.                               *)
(*                                                                         *)
(* A worker step is what runs from one await to the next, except that a    *)
(* write is two steps, so that the worker can be terminated inside it.     *)
(* The rollback journal is kept in memory: what such a write leaves in the *)
(* file is some of its statements, or a file that cannot be read.          *)
(***************************************************************************)
EXTENDS StoreTables

CONSTANTS
    Keys,       \* identities, each with its own store key and file
    Calls,      \* slots for calls in flight
    Ops,        \* Ops[c]: the operations that slot c is used for
    MaxWork,    \* bound: calls made and workers spawned, together
    MaxTime,    \* bound: the clock
    NoKey

ASSUME NoKeyAssumption == NoKey \notin Keys
ASSUME InitAssumption == "INIT" \notin Calls
ASSUME BoundsAssumption == MaxWork \in Nat /\ MaxTime \in Nat \ {0}

\* The requests of the chat and their fields; a list or a search is asked for its
\* pages one after the other, so that its cursor is no field.
ChatRequest ==
    [PERSIST_TURN |-> {"conv", "user", "asst", "parent", "text"},
     HYDRATE_CONVO |-> {"conv"}, LIST_CONVOS |-> {"lim"}, FORK |-> {"conv", "from"},
     IMPORT |-> {"convos"}, DELETE_CONVO |-> {"conv"}, SEARCH |-> {"word", "lim"},
     STORE_VECTORS |-> {"owner", "chunks"}, HYDRATE_VECTORS |-> {}, CLEAR_ALL |-> {}]

\* The requests of the panels: memories, agents and skills.
LibraryRequest ==
    [UPSERT_MEMORY |-> {"key", "val", "prev"}, DELETE_MEMORY |-> {"key"}, LIST_MEMORIES |-> {},
     UPSERT_AGENT |-> {"key", "val"}, GET_AGENT |-> {"key"}, LIST_AGENTS |-> {},
     DELETE_AGENT |-> {"key"},
     UPSERT_SKILL |-> {"key", "val"}, GET_SKILL |-> {"key"}, LIST_SKILLS |-> {},
     DELETE_SKILL |-> {"key"}]

StoreRequest ==
    [r \in DOMAIN ChatRequest \union DOMAIN LibraryRequest |->
        IF r \in DOMAIN ChatRequest THEN ChatRequest[r] ELSE LibraryRequest[r]]

\* Every operation is a request of the contract.
ASSUME OpsAssumption ==
    \A c \in Calls : \A o \in Ops[c] :
        o.t \in DOMAIN StoreRequest /\ DOMAIN o = {"t"} \union StoreRequest[o.t]

\* Ids and dates are numbers, 0 where there is none; chunks, conversations and their messages
\* are lists.
ASSUME FieldsAssumption ==
    \A c \in Calls : \A o \in Ops[c] :
        /\ "conv" \in DOMAIN o => o.conv \in Nat
        /\ "chunks" \in DOMAIN o => o.chunks \in Seq(Range(o.chunks))
        /\ "convos" \in DOMAIN o =>
              /\ o.convos \in Seq(Range(o.convos))
              /\ \A e \in Range(o.convos) :
                    e.conv \in Nat /\ e.at \in Nat /\ e.msgs \in Seq(Range(e.msgs))

VARIABLES
    file,       \* file[k]: whether the file of k exists and is readable, and its contents
    proxy,      \* opened, ready, and the calls that wait for ready
    wk,         \* the worker: its connection, its queue and the answers it has posted
    call,       \* call[c]: status, operation and answer
    now,        \* Date.now()
    ids,        \* the next id that randomId returns
    made        \* calls made and workers spawned so far

vars == <<file, proxy, wk, call, now, ids, made>>

NoFile == [st |-> "none", db |-> EmptyDb]
Saved(d) == [st |-> "ok", db |-> d]

NewProxy == [opened |-> FALSE, ready |-> "pending", waiters |-> <<>>]

NoWorker == [up |-> FALSE, key |-> NoKey, stage |-> "idle", db |-> FALSE, persistent |-> FALSE,
             conn |-> EmptyDb, queue |-> <<>>, out |-> <<>>]

NoCall == [st |-> "idle", op |-> [t |-> "none"], res |-> <<>>]

Init ==
    /\ file = [k \in Keys |-> NoFile]
    /\ proxy = NewProxy
    /\ wk = NoWorker
    /\ call = [c \in Calls |-> NoCall]
    /\ now = 1
    /\ ids = 10
    /\ made = 0

-----------------------------------------------------------------------------
(***************************************************************************)
(* The proxy.                                                              *)
(***************************************************************************)
\* openStore: spawns the worker and posts INIT.  An unlock calls it once per proxy.
OpenStore(k) ==
    /\ ~wk.up
    /\ made < MaxWork
    /\ made' = made + 1
    /\ wk' = [NoWorker EXCEPT !.up = TRUE, !.key = k, !.queue = <<"INIT">>]
    /\ UNCHANGED <<file, proxy, call, now, ids>>

\* Any method: it awaits ready and then sends.  Once ready is rejected it fails at once.
CallStore(c, o) ==
    /\ call[c].st \in {"idle", "err"}
    /\ made < MaxWork
    /\ made' = made + 1
    /\ \/ /\ proxy.ready = "pending"
          /\ proxy' = [proxy EXCEPT !.waiters = Append(@, c)]
          /\ call' = [call EXCEPT ![c] = [st |-> "waiting", op |-> o, res |-> <<>>]]
          /\ UNCHANGED wk
       \/ /\ proxy.ready = "resolved"
          /\ wk' = [wk EXCEPT !.queue = Append(@, c)]
          /\ call' = [call EXCEPT ![c] = [st |-> "sent", op |-> o, res |-> <<>>]]
          /\ UNCHANGED proxy
    /\ UNCHANGED <<file, now, ids>>

Ended(c, st) == [call EXCEPT ![c] = [NoCall EXCEPT !.st = st]]

\* resolveReady or rejectReady, and opened.
Settled(ok) == [opened |-> ok, ready |-> IF ok THEN "resolved" ELSE "rejected", waiters |-> <<>>]

\* Mutant: a failed open rejects nobody.
WokenIfOpen(ok) ==
    [c \in Calls |-> IF c \in Range(proxy.waiters) /\ ok THEN [call[c] EXCEPT !.st = "sent"] ELSE call[c]]

\* The calls that waited for ready send their request, or fail.
Woken(ok) ==
    [c \in Calls |-> IF c \notin Range(proxy.waiters) THEN call[c]
                     ELSE IF ok THEN [call[c] EXCEPT !.st = "sent"] ELSE [NoCall EXCEPT !.st = "err"]]

\* onmessage: an answer settles its pending request; INIT's answer settles ready.
Deliver ==
    /\ wk.up /\ wk.out # <<>>
    /\ LET r == Head(wk.out)
           rest == [wk EXCEPT !.out = Tail(@)]
       IN  \/ /\ r.to = "INIT"
              /\ proxy' = Settled(r.ok)
              /\ wk' = IF r.ok THEN [rest EXCEPT !.queue = @ \o proxy.waiters] ELSE rest
              /\ call' = Woken(r.ok)
           \/ /\ r.to # "INIT"
              /\ call' = [call EXCEPT ![r.to] = [NoCall EXCEPT !.st = IF r.ok THEN "idle" ELSE "err"]]
              /\ wk' = rest
              /\ UNCHANGED proxy
    /\ UNCHANGED <<file, now, ids, made>>

\* onerror: the worker's script does not load; what is pending (the INIT) is rejected.
WorkerError ==
    /\ wk.up /\ wk.stage = "idle" /\ wk.queue = <<"INIT">>
    /\ wk' = [wk EXCEPT !.queue = <<>>]
    /\ proxy' = Settled(FALSE)
    /\ call' = Woken(FALSE)
    /\ UNCHANGED <<file, now, ids, made>>

-----------------------------------------------------------------------------
(***************************************************************************)
(* The worker.                                                             *)
(***************************************************************************)
Serving(who) == wk.up /\ wk.stage = "idle" /\ wk.queue # <<>> /\ Head(wk.queue) = who

Reply(w, ok) == [w EXCEPT !.stage = "idle", !.queue = Tail(@),
                          !.out = Append(@, [to |-> Head(w.queue), ok |-> ok])]

StartInit ==
    /\ Serving("INIT")
    /\ wk' = [wk EXCEPT !.stage = "loading"]
    /\ UNCHANGED <<file, proxy, call, now, ids, made>>

\* import(), initModule and dbFileFor; any of them may throw, and db stays null.
InitLoad ==
    /\ wk.stage = "loading"
    /\ wk' \in {[wk EXCEPT !.stage = "opening"], Reply(wk, FALSE)}
    /\ UNCHANGED <<file, proxy, call, now, ids, made>>

\* openDb: the file through the cipher VFS, or memory when OPFS is not available
\* (no isolation, or another tab holds the pool).
OpenDb(stage, d) ==
    { [wk EXCEPT !.db = TRUE, !.persistent = TRUE, !.conn = d, !.stage = stage],
      [wk EXCEPT !.db = TRUE, !.persistent = FALSE, !.conn = EmptyDb, !.stage = "schema"] }

InitOpen ==
    /\ wk.stage = "opening"
    /\ wk' \in OpenDb("reading", file[wk.key].db)
    /\ UNCHANGED <<file, proxy, call, now, ids, made>>

\* The first read.  Any error it raises, from a file that this key cannot decrypt or from
\* a disk that fails once, deletes the file and opens it anew; a failure to delete it is
\* ignored.
InitRead ==
    /\ wk.stage = "reading"
    /\ \/ /\ file[wk.key].st # "bad"
          /\ wk' = [wk EXCEPT !.stage = "schema"]
          /\ UNCHANGED file
       \/ /\ file[wk.key].st # "none"
          /\ wk' = [wk EXCEPT !.stage = "reopening", !.db = FALSE, !.conn = EmptyDb]
          /\ file' \in {file, [file EXCEPT ![wk.key] = NoFile]}
    /\ UNCHANGED <<proxy, call, now, ids, made>>

InitReopen ==
    /\ wk.stage = "reopening"
    /\ wk' \in OpenDb("rereading", file[wk.key].db)
    /\ UNCHANGED <<file, proxy, call, now, ids, made>>

\* The second read, whose failure is INIT's.
InitReread ==
    /\ wk.stage = "rereading"
    /\ \/ file[wk.key].st # "bad" /\ wk' = [wk EXCEPT !.stage = "schema"]
       \/ wk' = Reply(wk, FALSE)
    /\ UNCHANGED <<file, proxy, call, now, ids, made>>

\* Pragmas, migration, schema and the check for messages_fts.  A failure leaves db open.
InitSchema ==
    /\ wk.stage = "schema"
    /\ wk' \in {Reply(wk, TRUE), Reply(wk, FALSE)}
    /\ file' = IF wk.persistent THEN [file EXCEPT ![wk.key] = Saved(wk.conn)] ELSE file
    /\ UNCHANGED <<proxy, call, now, ids, made>>

\* handle(): the answer of each query, and the statements of each write.
Query(d, o) ==
    CASE o.t = "HYDRATE_CONVO"   -> HydrateConvo(d, o.conv)
      [] o.t = "LIST_CONVOS"     -> ListConvos(d, o.lim, Null)
      [] o.t = "SEARCH"          -> Search(d, o.word, o.lim, Null)
      [] o.t = "HYDRATE_VECTORS" -> HydrateVectors(d)
      [] o.t = "LIST_MEMORIES"   -> ListMemories(d)
      [] o.t = "LIST_AGENTS"     -> ListAgents(d)
      [] o.t = "LIST_SKILLS"     -> ListSkills(d)
      [] o.t = "GET_AGENT"       -> GetAgent(d, o.key)
      [] o.t = "GET_SKILL"       -> GetSkill(d, o.key)

Queries == {"HYDRATE_CONVO", "LIST_CONVOS", "SEARCH", "HYDRATE_VECTORS", "LIST_MEMORIES",
            "LIST_AGENTS", "LIST_SKILLS", "GET_AGENT", "GET_SKILL"}

Statements(d, o) ==
    CASE o.t = "PERSIST_TURN"  -> PersistTurn(o, now)
      [] o.t = "FORK"          -> ForkConversation(d, o, now, ids)
      [] o.t = "IMPORT"        -> ImportChatExport(o, now, ids)
      [] o.t = "DELETE_CONVO"  -> << [t |-> "delconvo", conv |-> o.conv] >>
      [] o.t = "STORE_VECTORS" -> StoreVectors(o)
      [] o.t = "UPSERT_MEMORY" -> UpsertMemory(o)
      [] o.t = "UPSERT_AGENT"  -> UpsertAgent(o)
      [] o.t = "UPSERT_SKILL"  -> UpsertSkill(o)
      [] o.t = "DELETE_MEMORY" -> DeleteMemory(o)
      [] o.t = "DELETE_AGENT"  -> DeleteAgent(o)
      [] o.t = "DELETE_SKILL"  -> DeleteSkill(o)
      [] o.t = "CLEAR_ALL"     -> ClearAll

\* Mutant: what ran before the statement that failed stays.
TxKeepsSome(d, stmts, ok) == ExecAll(d, IF ok THEN stmts ELSE SubSeq(stmts, 1, Len(stmts) - 1))

\* tx(): the contents after all statements, or those before when one fails.
Tx(d, stmts, ok) == IF ok THEN ExecAll(d, stmts) ELSE d

Op == call[Head(wk.queue)].op

\* randomId never returns an id again; a request takes at most six.
NextIds == IF Op.t \in {"FORK", "IMPORT"} THEN ids + 6 ELSE ids

ServeQuery(c) ==
    /\ Serving(c) /\ call[c].op.t \in Queries
    /\ wk' = Reply(wk, wk.db)
    /\ call' = [call EXCEPT ![c].st = IF wk.db THEN "served" ELSE "refused",
                            ![c].res = IF wk.db THEN Query(wk.conn, call[c].op) ELSE <<>>]
    /\ UNCHANGED <<file, proxy, now, ids, made>>

\* The clock matters to the requests that date a conversation.
StartWrite(c) ==
    /\ Serving(c) /\ call[c].op.t \notin Queries
    /\ wk' = [wk EXCEPT !.stage = "writing"]
    /\ now' \in IF call[c].op.t \in {"PERSIST_TURN", "FORK", "IMPORT"} THEN {now, now + 1} ELSE {now}
    /\ now' <= MaxTime
    /\ UNCHANGED <<file, proxy, call, ids, made>>

\* A write ends in COMMIT, or in ROLLBACK when a statement throws.  clearAll rebuilds the
\* index after its COMMIT, and may still throw there.
FinishWrite(c) ==
    /\ wk.stage = "writing" /\ c = Head(wk.queue)
    /\ LET stmts == Statements(wk.conn, Op)
           d == ExecAll(wk.conn, stmts)
       IN  \E ok \in IF d = Failed THEN {FALSE} ELSE BOOLEAN :
           \E late \in IF ok /\ Op.t = "CLEAR_ALL" THEN BOOLEAN ELSE {FALSE} :
              LET after == Tx(wk.conn, stmts, ok)
              IN  /\ wk' = [Reply(wk, ok /\ ~late) EXCEPT !.conn = after]
                  /\ file' = IF wk.persistent THEN [file EXCEPT ![wk.key] = Saved(after)] ELSE file
                  /\ call' = [call EXCEPT
                                ![c].st = IF late THEN "cleared" ELSE IF ok THEN "served" ELSE "refused",
                                ![c].res = IF ok /\ Op.t = "FORK" THEN ids ELSE <<>>]
    /\ ids' = NextIds
    /\ UNCHANGED <<proxy, now, made>>

\* resetStoreProxy: the worker is terminated wherever it is, everything pending is
\* rejected, and the next unlock has a new proxy.  A page that goes away does the same.
Terminate ==
    /\ wk.up \/ proxy # NewProxy
    /\ proxy' = NewProxy
    /\ wk' = NoWorker
    /\ call' = [c \in Calls |-> IF call[c].st \in {"idle", "err"} THEN call[c]
                                ELSE [NoCall EXCEPT !.st = "err"]]
    /\ IF wk.stage = "writing" /\ wk.persistent
       THEN LET stmts == Statements(wk.conn, Op)
                torn == {ExecAll(wk.conn, SubSeq(stmts, 1, n)) : n \in 0..Len(stmts)} \ {Failed}
            IN  \E f \in {Saved(d) : d \in torn} \union {[st |-> "bad", db |-> EmptyDb]} :
                    file' = [file EXCEPT ![wk.key] = f]
       ELSE UNCHANGED file
    /\ ids' = IF wk.stage = "writing" THEN NextIds ELSE ids
    /\ UNCHANGED <<now, made>>

WorkerStep ==
    \/ StartInit \/ InitLoad \/ InitOpen \/ InitRead \/ InitReopen \/ InitReread \/ InitSchema
    \/ \E c \in Calls : ServeQuery(c) \/ StartWrite(c) \/ FinishWrite(c)

Next ==
    \/ \E k \in Keys : OpenStore(k)
    \/ \E c \in Calls : \E o \in Ops[c] : CallStore(c, o)
    \/ Deliver \/ WorkerError \/ Terminate
    \/ WorkerStep

Spec == Init /\ [][Next]_vars

-----------------------------------------------------------------------------
\* The types of the proxy's and the worker's fields; the proxy calls itself open exactly
\* while ready is resolved.
TypeOK ==
    /\ \A k \in Keys : file[k].st \in {"none", "ok", "bad"}
    /\ proxy.ready \in {"pending", "resolved", "rejected"}
    /\ proxy.opened = (proxy.ready = "resolved")
    /\ wk.key \in Keys \union {NoKey}
    /\ wk.stage \in {"idle", "loading", "opening", "reading", "reopening", "rereading", "schema",
                     "writing"}
    /\ \A c \in Calls : call[c].st \in {"idle", "waiting", "sent", "served", "refused", "cleared",
                                        "err"}

\* Every database that can be opened: the one the worker has open and the files.
Databases == {wk.conn} \union {file[k].db : k \in Keys}

\* The full-text index holds exactly one entry per message, under the message's row id and
\* with its current text, whatever was inserted, rewritten, moved to another conversation
\* or cascaded away, although row ids are used again (the triggers of schema.sql.ts).
IndexMatchesMessages ==
    \A d \in Databases :
        /\ d.fts = {<<d.msgs[m].rowid, d.msgs[m].text>> : m \in DOMAIN d.msgs}
        /\ \A m, n \in DOMAIN d.msgs : d.msgs[m].rowid = d.msgs[n].rowid => m = n

\* No message outlives its conversation, not even in a file whose last write was cut short
\* (the foreign key of messages, and the order of the statements in a turn or an import).
MessagesHaveConversation ==
    \A d \in Databases : \A m \in DOMAIN d.msgs : d.msgs[m].conv \in DOMAIN d.convos

\* Following the cursors of the conversation list shows every conversation at most once and
\* misses only one that was updated at the same time as another (listConvos).
PagesMissOnlyTies ==
    \A d \in Databases :
        LET key == [c \in DOMAIN d.convos |-> -d.convos[c].updated]
            seen == Walk(key, 1)
        IN  /\ IsInjective(seen)
            /\ \A c \in DOMAIN key \ Range(seen) : \E b \in Range(seen) : key[b] = key[c]

\* What can be read of any database is sound: the index, the foreign keys and the pages.
TablesSound == IndexMatchesMessages /\ MessagesHaveConversation /\ PagesMissOnlyTies

\* Types apart, no call is forgotten: one that was posted is in the worker's queue or its answer is on its
\* way, one that waits for `ready` is woken by the INIT that is queued, running or answered,
\* and an answer always finds the call that waits for it (pending, waiters and queue agree).
NoCallForgotten ==
    LET onWay == {wk.out[i].to : i \in DOMAIN wk.out}
        queued == Range(wk.queue)
    IN  /\ TypeOK
        /\ \A c \in Calls :
              /\ call[c].st = "sent" => c \in queued
              /\ call[c].st \in {"served", "refused", "cleared"} => c \in onWay
              /\ call[c].st = "waiting" => c \in Range(proxy.waiters) /\ (wk.up => "INIT" \in queued \union onWay)
              /\ c \in queued \union onWay => call[c].st \in {"sent", "served", "refused", "cleared"}
        /\ IsInjective(wk.queue \o [i \in DOMAIN wk.out |-> wk.out[i].to])

\* The contents as StoreSpec sees them.
View(d) == [convos |-> DOMAIN d.convos,
            msgs |-> [m \in DOMAIN d.msgs |-> [conv |-> d.msgs[m].conv, parent |-> d.msgs[m].parent,
                                               text |-> d.msgs[m].text, user |-> d.msgs[m].user]],
            vecs |-> d.vecs,
            rows |-> [t \in Tables |-> d.rows[t]]]

\* A session is open once INIT has been answered; a call is applied once it has been served.
SessionOpen == wk.up /\ wk.db /\ (proxy.opened \/ [to |-> "INIT", ok |-> TRUE] \in Range(wk.out))

SpecSession ==
    IF SessionOpen THEN [key |-> wk.key, data |-> View(wk.conn), kept |-> wk.persistent]
    ELSE [key |-> NoKey, data |-> View(EmptyDb), kept |-> FALSE]

SpecCall ==
    [c \in Calls |->
        [call[c] EXCEPT !.st = CASE @ \in {"waiting", "sent", "refused"} -> "pending"
                                 [] @ = "served"  -> "applied"
                                 [] @ = "cleared" -> "clear_failed"
                                 [] OTHER -> @]]

Abstract == INSTANCE StoreSpec WITH
                saved <- [k \in Keys |-> View(file[k].db)],
                session <- SpecSession,
                call <- SpecCall

\* The proxy, the queue, the transactions and the triggers together are an atomic store:
\* a call that succeeds took effect exactly once and all at once, one that fails had no
\* effect, and only an unreadable file or a lock during a write loses anything.
AtomicStore == Abstract!Spec
=============================================================================
