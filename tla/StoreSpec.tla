------------------------------ MODULE StoreSpec ------------------------------
(***************************************************************************)
(* What the device store promises its callers: while a session is open     *)
(* every call takes effect at most once, all at once and between its       *)
(* invocation and its answer; a call that is answered with an error had no *)
(* effect (clearing the store excepted, whose last step may fail after the *)
(* tables are empty); closing a session fails the calls in flight and may  *)
(* damage the store only while a write is in flight.                       *)
(*                                                                         *)
(* The contents are what a user knows of: conversations, messages by id,   *)
(* vectors and the rows of the library tables.  Nothing is said of files,  *)
(* statements, row ids, the index or the order in which calls are served.  *)
(***************************************************************************)
EXTENDS Naturals, Sequences, FiniteSets, Functions

CONSTANTS Keys, Calls, Ops, NoKey

VARIABLES
    saved,      \* saved[k]: the contents kept for the identity with key k
    session,    \* the open session: its key, contents and whether it is saved
    call        \* call[c]: status, operation and answer of the call in slot c

vars == <<saved, session, call>>

Empty == [convos |-> {}, msgs |-> <<>>, vecs |-> <<>>,
          rows |-> [t \in {"memories", "agents", "skills"} |-> <<>>]]

Closed == [key |-> NoKey, data |-> Empty, kept |-> FALSE]
NoCall == [st |-> "idle", op |-> [t |-> "none"], res |-> <<>>]

Init ==
    /\ saved = [k \in Keys |-> Empty]
    /\ session = Closed
    /\ call = [c \in Calls |-> NoCall]

With(f, k, v) == [x \in DOMAIN f \union {k} |-> IF x = k THEN v ELSE f[x]]
Without(f, k) == Restrict(f, DOMAIN f \ {k})
Only(f, k) == Restrict(f, DOMAIN f \intersect {k})
In(v, c) == {m \in DOMAIN v.msgs : v.msgs[m].conv = c}

\* The message and its ancestors inside the conversation: the smallest set that holds the
\* message and the parent, if it is in the conversation, of each of its members.
Lineage(v, c, from) ==
    LET closed == {S \in SUBSET In(v, c) : \A m \in S : v.msgs[m].parent \in In(v, c)
                                                          => v.msgs[m].parent \in S}
    IN  IF from \notin In(v, c) THEN {}
        ELSE {m \in In(v, c) : \A S \in closed : from \in S => m \in S}

\* w is v with a copy of the lineage of o.from, under new ids, in a new conversation r.
Forked(o, v, w, r) ==
    LET old == Lineage(v, o.conv, o.from)
        new == DOMAIN w.msgs \ DOMAIN v.msgs
    IN  /\ w.convos = v.convos \union {r} /\ r \notin v.convos
        /\ w.vecs = v.vecs /\ w.rows = v.rows
        /\ \A m \in DOMAIN v.msgs : m \in DOMAIN w.msgs /\ w.msgs[m] = v.msgs[m]
        /\ \E f \in Bijection(old, new) :
              \A m \in old : w.msgs[f[m]] =
                  [v.msgs[m] EXCEPT !.conv = r,
                       !.parent = IF v.msgs[m].parent \in old THEN f[v.msgs[m].parent] ELSE 0]

\* Every conversation and message of the export is there, and nothing else changed.
Imported(o, v, w) ==
    \E f \in [DOMAIN o.convos -> w.convos] :
        LET named == UNION {{e.msgs[i].id : i \in DOMAIN e.msgs} : e \in Range(o.convos)}
        IN  /\ w.convos = v.convos \union Range(f)
            /\ w.vecs = v.vecs /\ w.rows = v.rows
            /\ \A k \in DOMAIN f : LET e == o.convos[k] IN
                  /\ IF e.conv = 0 THEN f[k] \notin v.convos ELSE f[k] = e.conv
                  /\ \A i \in DOMAIN e.msgs : \E m \in DOMAIN w.msgs :
                        /\ IF e.msgs[i].id = 0 THEN m \notin DOMAIN v.msgs ELSE m = e.msgs[i].id
                        /\ w.msgs[m] = [conv |-> f[k], parent |-> e.msgs[i].parent,
                                        text |-> e.msgs[i].text, user |-> e.msgs[i].user]
            /\ \A m \in DOMAIN v.msgs \ named : m \in DOMAIN w.msgs /\ w.msgs[m] = v.msgs[m]

Turn(o, v) ==
    LET um == [conv |-> o.conv, parent |-> o.parent, text |-> o.text, user |-> TRUE]
        am == [um EXCEPT !.parent = o.user, !.user = FALSE]
    IN  [v EXCEPT !.convos = @ \union {o.conv},
                  !.msgs = With(With(@, o.user, um), o.asst, am)]

\* w and r are the contents and the answer that o may leave behind.
Effect(o, v, w, r) ==
    CASE o.t = "PERSIST_TURN"  -> w = Turn(o, v)
      [] o.t = "FORK"          -> Forked(o, v, w, r)
      [] o.t = "IMPORT"        -> Imported(o, v, w)
      [] o.t = "DELETE_CONVO"  -> w = [v EXCEPT !.convos = @ \ {o.conv},
                                                !.msgs = Restrict(@, DOMAIN @ \ In(v, o.conv))]
      [] o.t = "STORE_VECTORS" -> w = [v EXCEPT !.vecs = IF o.chunks = <<>> THEN Without(@, o.owner)
                                                         ELSE With(@, o.owner, o.chunks)]
      [] o.t = "UPSERT_MEMORY" -> w = [v EXCEPT !.rows["memories"] =
                                           With(Without(@, o.prev), o.key, o.val)]
      [] o.t = "UPSERT_AGENT"  -> w = [v EXCEPT !.rows["agents"] = With(@, o.key, o.val)]
      [] o.t = "UPSERT_SKILL"  -> w = [v EXCEPT !.rows["skills"] = With(@, o.key, o.val)]
      [] o.t = "DELETE_MEMORY" -> w = [v EXCEPT !.rows["memories"] = Without(@, o.key)]
      [] o.t = "DELETE_AGENT"  -> w = [v EXCEPT !.rows["agents"] = Without(@, o.key)]
      [] o.t = "DELETE_SKILL"  -> w = [v EXCEPT !.rows["skills"] = Without(@, o.key)]
      [] o.t = "CLEAR_ALL"     -> w = Empty
      [] OTHER -> w = v

Matches(v, word) == {m \in DOMAIN v.msgs : word \in v.msgs[m].text}
FirstPage(S, lim, r) ==
    Range(r.page) \subseteq S /\ Cardinality(Range(r.page)) = IF Cardinality(S) < lim
                                                              THEN Cardinality(S) ELSE lim

\* The answers that queries may give.
Answer(o, v, r) ==
    CASE o.t = "HYDRATE_CONVO"   -> r.found = (o.conv \in v.convos) /\ Range(r.messages) = In(v, o.conv)
      [] o.t = "LIST_CONVOS"     -> FirstPage(v.convos, o.lim, r)
      [] o.t = "SEARCH"          -> FirstPage(Matches(v, o.word), o.lim, r)
      [] o.t = "HYDRATE_VECTORS" -> r = v.vecs
      [] o.t = "LIST_MEMORIES"   -> r = v.rows["memories"]
      [] o.t = "LIST_AGENTS"     -> r = v.rows["agents"]
      [] o.t = "LIST_SKILLS"     -> r = v.rows["skills"]
      [] o.t = "GET_AGENT"       -> r = Only(v.rows["agents"], o.key)
      [] o.t = "GET_SKILL"       -> r = Only(v.rows["skills"], o.key)
      [] OTHER -> TRUE

Pending(c) == call[c].st = "pending"

Invoke(c) ==
    /\ call[c].st \notin {"pending", "applied"}
    /\ \E o \in Ops[c] : call' = [call EXCEPT ![c] = [st |-> "pending", op |-> o, res |-> <<>>]]
    /\ UNCHANGED <<saved, session>>

Apply(c) ==
    /\ Pending(c)
    /\ session.key # NoKey
    /\ call'[c].st \in {"applied", "clear_failed"}
    /\ call'[c].st = "clear_failed" => call[c].op.t = "CLEAR_ALL"
    /\ call'[c].op = call[c].op
    /\ \A b \in Calls \ {c} : call'[b] = call[b]
    /\ session'.key = session.key /\ session'.kept = session.kept
    /\ Effect(call[c].op, session.data, session'.data, call'[c].res)
    /\ call'[c].st = "applied" => Answer(call[c].op, session.data, call'[c].res)
    /\ saved' = IF session.kept THEN [saved EXCEPT ![session.key] = session'.data] ELSE saved

Return(c) ==
    /\ call[c].st = "applied"
    /\ call' = [call EXCEPT ![c] = NoCall]
    /\ UNCHANGED <<saved, session>>

\* An error answer: nothing was done, or the store was being cleared.
Fail(S) ==
    /\ \A c \in S : call[c].st \in {"pending", "clear_failed"}
    /\ call' = [c \in Calls |-> IF c \in S THEN [NoCall EXCEPT !.st = "err"] ELSE call[c]]
    /\ UNCHANGED <<saved, session>>

\* A session starts from what was saved, or from nothing: because nothing can be read,
\* which also discards what was saved, or because this session cannot be saved.
Open(k) ==
    /\ session.key = NoKey
    /\ \/ session' = [key |-> k, data |-> saved[k], kept |-> TRUE] /\ UNCHANGED saved
       \/ session' = [key |-> k, data |-> Empty, kept |-> TRUE] /\ saved' = [saved EXCEPT ![k] = Empty]
       \/ session' = [key |-> k, data |-> Empty, kept |-> FALSE] /\ UNCHANGED saved
    /\ UNCHANGED call

\* Discarding what cannot be read may happen before the session is known to open.
Discard(k) ==
    /\ session.key = NoKey
    /\ saved' = [saved EXCEPT ![k] = Empty]
    /\ UNCHANGED <<session, call>>

Close ==
    /\ session' = Closed
    /\ call' = [c \in Calls |-> IF call[c].st \in {"pending", "applied", "clear_failed"}
                                THEN [NoCall EXCEPT !.st = "err"] ELSE call[c]]
    /\ \A k \in Keys :
          \/ saved'[k] = saved[k]
          \/ k = session.key /\ session.kept /\ \E c \in Calls : Pending(c)

Next ==
    \/ \E c \in Calls : Invoke(c) \/ Apply(c) \/ Return(c)
    \/ \E S \in SUBSET Calls : Fail(S)
    \/ \E k \in Keys : Open(k) \/ Discard(k)
    \/ Close

Spec == Init /\ [][Next]_vars
=============================================================================
