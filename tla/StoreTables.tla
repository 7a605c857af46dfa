----------------------------- MODULE StoreTables -----------------------------
(***************************************************************************)
(* The tables of the device store as a value, and its SQL as operators on  *)
(* that value.  A statement is a record that Exec interprets as the schema *)
(* does (conflict clauses, the foreign key with its cascade, the triggers  *)
(* that feed the full-text index); a request of the worker is a sequence   *)
(* of statements; a query is an operator that returns rows.                *)
(*                                                                         *)
(* Ids are numbers, 0 is SQL's NULL.  A text is the set of its words.  The *)
(* rows of memories, agents and skills are kept by key, without their      *)
(* dates, which only order a list.                                         *)
(***************************************************************************)
EXTENDS Integers, Sequences, SequencesExt, FiniteSetsExt, Functions

Null == 0
Tables == {"memories", "agents", "skills"}

EmptyDb == [convos |-> <<>>, msgs |-> <<>>, fts |-> {}, vecs |-> <<>>,
            rows |-> [t \in Tables |-> <<>>]]

\* What a statement that violates a constraint leaves behind.
Failed == [failed |-> TRUE]

Put(f, k, v) == [x \in DOMAIN f \union {k} |-> IF x = k THEN v ELSE f[x]]
Drop(f, S) == Restrict(f, DOMAIN f \ S)

\* rowid of a new row: one more than the largest in the table.
NextRowid(d) == 1 + Max({0} \union {d.msgs[m].rowid : m \in DOMAIN d.msgs})

-----------------------------------------------------------------------------
(***************************************************************************)
(* Statements.                                                             *)
(***************************************************************************)
UpsertConvo(d, s) ==
    LET old == DOMAIN d.convos
        created == IF s.conv \in old THEN d.convos[s.conv].created ELSE s.created
    IN  [d EXCEPT !.convos = Put(@, s.conv, [created |-> created, updated |-> s.updated])]

\* Mutant: no 'delete' command is sent to the index.
FtsNeverDeletes(fts, gone, new) == fts \union {<<r.rowid, r.text>> : r \in new}

\* messages_ai, messages_ad and messages_au: what the row changes do to the index.
FtsSync(fts, gone, new) ==
    (fts \ {<<r.rowid, r.text>> : r \in gone}) \union {<<r.rowid, r.text>> : r \in new}

UpsertMessage(d, s) ==
    LET clash == s.id \in DOMAIN d.msgs
        row == [conv |-> s.conv, parent |-> s.parent, text |-> s.text, user |-> s.user,
                created |-> IF clash THEN d.msgs[s.id].created ELSE s.created,
                rowid   |-> IF clash THEN d.msgs[s.id].rowid ELSE NextRowid(d)]
    IN  IF s.conv \notin DOMAIN d.convos
        THEN Failed
        ELSE [d EXCEPT !.msgs = Put(@, s.id, row),
                       !.fts = FtsSync(@, IF clash THEN {d.msgs[s.id]} ELSE {}, {row})]

\* The foreign key cascades to messages, and the cascade fires messages_ad.
DeleteConvo(d, s) ==
    LET gone == {m \in DOMAIN d.msgs : d.msgs[m].conv = s.conv}
    IN  [d EXCEPT !.convos = Drop(@, {s.conv}),
                  !.msgs = Drop(@, gone),
                  !.fts = FtsSync(@, {d.msgs[m] : m \in gone}, {})]

UpsertRow(d, s) == [d EXCEPT !.rows[s.table] = Put(@, s.key, s.val)]

DeleteRow(d, s) == [d EXCEPT !.rows[s.table] = Drop(@, {s.key})]

DeleteVectors(d, s) == [d EXCEPT !.vecs = Drop(@, {s.owner})]

InsertVector(d, s) ==
    [d EXCEPT !.vecs = Put(@, s.owner,
        (IF s.owner \in DOMAIN @ THEN @[s.owner] ELSE <<>>) \o <<s.chunk>>)]

\* The DELETEs of clearAll: messages_ad runs for every message.
ClearTables(d, s) == [EmptyDb EXCEPT !.fts = FtsSync(d.fts, Range(d.msgs), {})]

Exec(d, s) ==
    CASE s.t = "convo"  -> UpsertConvo(d, s)
      [] s.t = "msg"    -> UpsertMessage(d, s)
      [] s.t = "delconvo" -> DeleteConvo(d, s)
      [] s.t = "row"    -> UpsertRow(d, s)
      [] s.t = "delrow" -> DeleteRow(d, s)
      [] s.t = "delvec" -> DeleteVectors(d, s)
      [] s.t = "vec"    -> InsertVector(d, s)
      [] s.t = "clear"  -> ClearTables(d, s)

\* The contents after the statements, or Failed from the first that fails on.
Step(d, s) == IF d = Failed THEN d ELSE Exec(d, s)

ExecAll(d, stmts) ==
    LET after[n \in 0..Len(stmts)] == IF n = 0 THEN d ELSE Step(after[n - 1], stmts[n])
    IN  after[Len(stmts)]

-----------------------------------------------------------------------------
(***************************************************************************)
(* Requests: the statements each handler runs, given the clock and the     *)
(* first id that randomId has not used.                                    *)
(***************************************************************************)
ConvoStmt(c, created, updated) ==
    [t |-> "convo", conv |-> c, created |-> created, updated |-> updated]

MessageStmt(id, conv, parent, user, text, created) ==
    [t |-> "msg", id |-> id, conv |-> conv, parent |-> parent, user |-> user,
     text |-> text, created |-> created]

PersistTurn(o, now) ==
    << ConvoStmt(o.conv, now, now),
       MessageStmt(o.user, o.conv, o.parent, TRUE, o.text, now),
       MessageStmt(o.asst, o.conv, o.user, FALSE, o.text, now) >>

\* The parents of `from` inside its conversation, nearest first, at most once each.
LineageUp(d, conv, from) ==
    LET here == {m \in DOMAIN d.msgs : d.msgs[m].conv = conv}
        up[n \in 0..Cardinality(here)] ==
            IF n = 0
            THEN IF from \in here THEN <<from>> ELSE <<>>
            ELSE LET s == up[n - 1]
                     p == IF s = <<>> THEN Null ELSE d.msgs[Last(s)].parent
                 IN  IF p \in here \ Range(s) THEN Append(s, p) ELSE s
    IN  up[Cardinality(here)]

ForkConversation(d, o, now, fresh) ==
    LET lineage == Reverse(LineageUp(d, o.conv, o.from))
        new(m) == fresh + Min({i \in DOMAIN lineage : lineage[i] = m})
        reparent(p) == IF p \in Range(lineage) THEN new(p) ELSE Null
    IN  << ConvoStmt(fresh, now, now) >>
        \o [i \in DOMAIN lineage |->
              LET m == d.msgs[lineage[i]]
              IN  MessageStmt(new(lineage[i]), fresh, reparent(m.parent), m.user, m.text, m.created)]

\* toMs: a missing date is the time of the import.
ToMs(at, now) == IF at = Null THEN now ELSE at

\* `fresh + i` stands for the id randomId gives where the export has none.
ImportConvo(e, now, fresh) ==
    LET conv == IF e.conv = Null THEN fresh ELSE e.conv
    IN  << ConvoStmt(conv, ToMs(e.at, now), ToMs(e.at, now)) >>
        \o [i \in DOMAIN e.msgs |->
              LET m == e.msgs[i]
              IN  MessageStmt(IF m.id = Null THEN fresh + i ELSE m.id, conv, m.parent,
                              m.user, m.text, ToMs(m.at, now))]

\* Every conversation of the export, in one transaction and with one clock.
ImportChatExport(o, now, fresh) ==
    FlattenSeq([k \in DOMAIN o.convos |-> ImportConvo(o.convos[k], now, fresh + 3 * (k - 1))])

StoreVectors(o) ==
    << [t |-> "delvec", owner |-> o.owner] >>
    \o [i \in DOMAIN o.chunks |-> [t |-> "vec", owner |-> o.owner, chunk |-> o.chunks[i]]]

RowStmt(table, o) == [t |-> "row", table |-> table, key |-> o.key, val |-> o.val]

\* A rename drops the old row before it writes the new one.
UpsertMemory(o) ==
    (IF o.prev # Null /\ o.prev # o.key
     THEN << [t |-> "delrow", table |-> "memories", key |-> o.prev] >> ELSE <<>>)
    \o << RowStmt("memories", o) >>

UpsertAgent(o) == << RowStmt("agents", o) >>
UpsertSkill(o) == << RowStmt("skills", o) >>

DeleteFrom(table, o) == << [t |-> "delrow", table |-> table, key |-> o.key] >>
DeleteMemory(o) == DeleteFrom("memories", o)
DeleteAgent(o) == DeleteFrom("agents", o)
DeleteSkill(o) == DeleteFrom("skills", o)
ClearAll == << [t |-> "clear"] >>

-----------------------------------------------------------------------------
(***************************************************************************)
(* Queries.                                                                *)
(***************************************************************************)
\* The members of S in the strict order `before`.
OrderBy(S, before(_, _)) ==
    [i \in 1..Cardinality(S) |-> CHOOSE x \in S : Cardinality({y \in S : before(y, x)}) = i - 1]

HydrateConvo(d, c) ==
    LET here == {m \in DOMAIN d.msgs : d.msgs[m].conv = c}
        before(a, b) == \/ d.msgs[a].created < d.msgs[b].created
                        \/ /\ d.msgs[a].created = d.msgs[b].created
                           /\ d.msgs[a].rowid < d.msgs[b].rowid
    IN  [found |-> c \in DOMAIN d.convos, messages |-> OrderBy(here, before)]

\* Keyset pagination: the first `lim` ids with a key above `after`, in key order
\* (equal keys in the order of their ids), and the cursor of the next page.
KeysetPage(key, lim, after) ==
    LET rest == {x \in DOMAIN key : after = Null \/ key[x] > after}
        rows == OrderBy(rest, LAMBDA a, b : key[a] < key[b] \/ (key[a] = key[b] /\ a < b))
        page == SubSeq(rows, 1, Min({lim, Len(rows)}))
    IN  [page |-> page, next |-> IF Len(rows) > lim THEN key[Last(page)] ELSE Null]

ListConvos(d, lim, cursor) ==
    KeysetPage([c \in DOMAIN d.convos |-> -d.convos[c].updated], lim, cursor)

\* bm25 as the query sees it: negative, and lower for a shorter text.
Rank(text) == Cardinality(text) - 10

\* Hits of the index joined with their message.  An empty query matches nothing.
Search(d, word, lim, cursor) ==
    LET hits == {m \in DOMAIN d.msgs : \E f \in d.fts : f[1] = d.msgs[m].rowid /\ word \in f[2]}
    IN  IF word = Null THEN [page |-> <<>>, next |-> Null]
        ELSE KeysetPage([m \in hits |-> Rank(d.msgs[m].text)], lim, cursor)

HydrateVectors(d) == d.vecs
ListMemories(d) == d.rows["memories"]
ListAgents(d) == d.rows["agents"]
ListSkills(d) == d.rows["skills"]
GetAgent(d, key) == Drop(ListAgents(d), DOMAIN ListAgents(d) \ {key})
GetSkill(d, key) == Drop(ListSkills(d), DOMAIN ListSkills(d) \ {key})

\* What a reader who follows the cursors to the end has been shown.
Walk(key, lim) ==
    LET w[n \in 0..Cardinality(DOMAIN key)] ==
            IF n = 0 THEN [seen |-> <<>>, after |-> Null, more |-> TRUE]
            ELSE LET prev == w[n - 1]
                     p == KeysetPage(key, lim, prev.after)
                 IN  IF ~prev.more THEN prev
                     ELSE [seen |-> prev.seen \o p.page, after |-> p.next, more |-> p.next # Null]
    IN  w[Cardinality(DOMAIN key)].seen
=============================================================================
