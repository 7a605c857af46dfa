---------------------------- MODULE LibraryCache ----------------------------
(***************************************************************************)
(* The panels over the device store: agents, memories and skills.  A panel *)
(* shows a copy of its table (React Query's for agents and memories, the   *)
(* component's own for skills) that is re-read by polling, patched by the  *)
(* mutation that changed the table, or re-read after it.  Store calls are  *)
(* served in order and their answers arrive in order (DeviceStore); a lock *)
(* ends the worker with what it was asked.  A row is its fields: the way of*)
(* an agent through agentToStored and storedToAgent, and the defaults they *)
(* fill in, are left out.                                                  *)
(***************************************************************************)
EXTENDS Naturals, Sequences, SequencesExt, FiniteSets

CONSTANTS
    Seeds,
    Panels,         \* which panels are used: of "agents", "default", "memories", "skills"
    Ids,            \* agent ids, memory keys, skill ids
    History,        \* History[s]: rows seed s has in its store
    Fields,         \* of an agent; the other tables use one of them
    MaxEdits,       \* bound: mutations
    MaxUnlocks,     \* bound
    None

VARIABLES
    panel,      \* the panel the user works in: it has one list
    ident, open, unlocks,
    rows,       \* rows[s][id]: the row in the store of s
    calls, answers,
    fetch,      \* of the list: none, wait (for the store to open), lost (waits on an ended proxy), asked
    list,       \* what is shown, a sequence of rows with their ids
    seen,       \* has the list been read since the unlock
    detail,     \* detail[id]: the cached single agent
    active,     \* the active skill's id, in localStorage
    edits,
    wanted,     \* what the mutations asked for, in the order they were made
    crossed     \* ids whose mutations overlapped or were cut off by a lock, or chosen when removed

store == <<rows, calls, answers>>
cache == <<fetch, list, seen, detail, active>>
ghost == <<edits, wanted, crossed>>
vars == <<panel, ident, open, unlocks, store, cache, ghost>>

\* Agents are listed under one of the keys the mutations patch ("agents"), or under the default
\* key, which has a limit and is not among them ("default").
OfAgents == panel \in {"agents", "default"}

NoRow == [f \in Fields |-> 0]
NoCall == [op |-> "none", k |-> None, id |-> None, row |-> NoRow, fields |-> {}, was |-> None]
Mutates(x, id) == x.op \in {"get", "put", "del"} /\ (x.id = id \/ x.was = id)
Busy(id) == \E x \in Range(calls \o answers) : Mutates(x, id)

Init ==
    /\ panel \in Panels
    /\ ident = None /\ open = FALSE /\ unlocks = 0
    /\ rows = [s \in Seeds |-> [i \in Ids |-> IF i \in History[s] THEN NoRow ELSE None]]
    /\ calls = <<>> /\ answers = <<>>
    /\ fetch = "none" /\ list = None /\ seen = FALSE
    /\ detail = [i \in Ids |-> None]
    /\ active = None /\ edits = 0 /\ crossed = {}
    /\ wanted = rows

-----------------------------------------------------------------------------
Unlock(s) ==
    /\ ident = None /\ unlocks < MaxUnlocks
    /\ ident' = s /\ unlocks' = unlocks + 1
    /\ UNCHANGED <<panel, open, store, cache, ghost>>

\* The store opens some time after auth has flipped, or never.
OpenStore ==
    /\ ident # None /\ ~open
    /\ open' = TRUE
    /\ UNCHANGED <<panel, ident, unlocks, store, cache, ghost>>

\* The proxy ends: calls are rejected, a fetch that waits for it to open goes on waiting.  The
\* query cache and localStorage stay; the skills component goes.
Lock ==
    /\ ident # None
    /\ ident' = None /\ open' = FALSE
    /\ crossed' = crossed \union {i \in Ids : Busy(i)}
    /\ calls' = <<>> /\ answers' = <<>>
    /\ fetch' = IF fetch \in {"wait", "lost"} /\ panel # "skills" THEN "lost" ELSE "none"
    /\ list' = IF panel = "skills" THEN None ELSE list
    /\ seen' = FALSE
    /\ UNCHANGED <<panel, unlocks, rows, detail, active, edits, wanted>>

-----------------------------------------------------------------------------
(***************************************************************************)
(* Reading.                                                                *)
(***************************************************************************)
Ask == Append(calls, [NoCall EXCEPT !.op = "list"])

\* A poll, a mount or a focus; one that is running is not started again.  The skills panel
\* reads when it is opened.
Fetch ==
    /\ ident # None /\ fetch = "none"
    /\ fetch' = IF open THEN "asked" ELSE "wait"
    /\ calls' = IF open THEN Ask ELSE calls
    /\ UNCHANGED <<panel, ident, open, unlocks, rows, answers, list, seen, detail, active, ghost>>

\* The store opened within the forty ticks.
Waited ==
    /\ fetch = "wait" /\ open
    /\ fetch' = "asked"
    /\ calls' = Ask
    /\ UNCHANGED <<panel, ident, open, unlocks, rows, answers, list, seen, detail, active, ghost>>

\* Mutant: it waits for the store to open, however long.
GiveUpNever ==
    /\ fetch = "wait" /\ ~open
    /\ fetch' = "none"
    /\ UNCHANGED <<panel, ident, open, unlocks, store, list, seen, detail, active, ghost>>

\* It did not, or the proxy was ended: an empty list, which skills do not take.
GiveUp ==
    /\ fetch = "lost" \/ (fetch = "wait" /\ ~open)
    /\ fetch' = "none"
    /\ list' = IF panel = "skills" THEN list ELSE <<>>
    /\ seen' = FALSE
    /\ UNCHANGED <<panel, ident, open, unlocks, store, detail, active, ghost>>

\* The single agent's query reads once; what it has cached is not read again.
FetchAgent(i) ==
    /\ OfAgents /\ open /\ detail[i] = None
    /\ \A x \in Range(calls \o answers) : ~(x.op = "detail" /\ x.id = i)
    /\ calls' = Append(calls, [NoCall EXCEPT !.op = "detail", !.id = i])
    /\ UNCHANGED <<panel, ident, open, unlocks, rows, answers, cache, ghost>>

-----------------------------------------------------------------------------
(***************************************************************************)
(* Mutations.                                                              *)
(***************************************************************************)
Mutation(x, want) ==
    /\ ident # None /\ open /\ edits < MaxEdits
    /\ edits' = edits + 1
    /\ calls' = Append(calls, x)
    /\ crossed' = crossed \union {i \in Ids : Mutates(x, i) /\ Busy(i)}
    /\ wanted' = [wanted EXCEPT ![ident] = want]
    /\ UNCHANGED <<panel, ident, open, unlocks, rows, answers, cache>>

\* A row under a new id: createAgentInStore, useCreateMemoryMutation, save.
Create(i) ==
    LET row == [f \in Fields |-> edits + 1] IN
    /\ \A s \in Seeds : rows[s][i] = None /\ wanted[s][i] = None
    /\ Mutation([NoCall EXCEPT !.op = "put", !.id = i, !.row = row],
                [wanted[ident] EXCEPT ![i] = row])

\* updateAgentInStore reads the row first.
UpdateAgent(i, f) ==
    /\ OfAgents /\ ident # None /\ wanted[ident][i] # None
    /\ Mutation([NoCall EXCEPT !.op = "get", !.id = i, !.fields = {f}, !.row = [NoRow EXCEPT ![f] = edits + 1]],
                [wanted[ident] EXCEPT ![i][f] = edits + 1])

\* useUpdateMemoryMutation: a memory gets a value and perhaps another key.
UpdateMemory(i, j) ==
    LET row == [f \in Fields |-> edits + 1] IN
    /\ panel = "memories" /\ ident # None /\ wanted[ident][i] # None
    /\ Mutation([NoCall EXCEPT !.op = "put", !.id = j, !.was = i, !.row = row],
                [wanted[ident] EXCEPT ![i] = None, ![j] = row])

\* useDeleteAgentMutation, useDeleteMemoryMutation, remove; the last remembers the skill that is
\* active when it is clicked.
Delete(i) ==
    /\ ident # None /\ wanted[ident][i] # None
    /\ Mutation([NoCall EXCEPT !.op = "del", !.id = i, !.k = IF panel = "skills" THEN active ELSE None],
                [wanted[ident] EXCEPT ![i] = None])

\* A skill of the list, or none, is chosen.
SetActive(i) ==
    /\ panel = "skills" /\ ident # None /\ list # None /\ active # i
    /\ i = None \/ \E n \in DOMAIN list : list[n].id = i
    /\ active' = i
    /\ crossed' = IF i # None /\ wanted[ident][i] = None THEN crossed \union {i} ELSE crossed
    /\ UNCHANGED <<panel, ident, open, unlocks, store, fetch, list, seen, detail, edits, wanted>>

-----------------------------------------------------------------------------
Item(i, row) == [id |-> i, row |-> row]
Table(s) == {Item(i, rows[s][i]) : i \in {j \in Ids : rows[s][j] # None}}

\* The worker serves the next call, each atomically.
Serve ==
    /\ calls # <<>>
    /\ LET x == Head(calls)
           mine == rows[ident]
       IN  /\ rows' = CASE x.op = "put" -> [rows EXCEPT ![ident] =
                                [i \in Ids |-> IF i = x.id THEN x.row ELSE IF i = x.was THEN None ELSE mine[i]]]
                        [] x.op = "del" -> [rows EXCEPT ![ident][x.id] = None]
                        [] OTHER -> rows
           /\ answers' = Append(answers,
                 [op |-> x.op, k |-> x.k, id |-> x.id, row |-> x.row, fields |-> x.fields, was |-> x.was,
                  got |-> IF x.op = "list" THEN SetToSeq(Table(ident))
                          ELSE IF x.op \in {"get", "detail"} THEN mine[x.id] ELSE None])
    /\ calls' = Tail(calls)
    /\ UNCHANGED <<panel, ident, open, unlocks, cache, ghost>>

\* What is stored of an update: the row read, if there was one, with the patch.
Merged(base, a) == [f \in Fields |-> IF f \in a.fields THEN a.row[f]
                                     ELSE IF base = None THEN 0 ELSE base[f]]

\* The elements of s that are in K, in their order.
Kept(s, K) ==
    LET kept[n \in 0..Len(s)] == IF n = 0 THEN <<>>
                                 ELSE IF s[n] \in K THEN Append(kept[n - 1], s[n]) ELSE kept[n - 1]
    IN  kept[Len(s)]

\* Mutant: only a new agent is put into the list.
PatchedNew(l, a) == IF a.op = "put" /\ a.fields = {} THEN <<Item(a.id, a.row)>> \o l ELSE l

\* onSuccess of the agent mutations on a list that is there: a new agent in front, an updated
\* one in its place, a deleted one taken out.
Patched(l, a) ==
    CASE a.op = "del" -> Kept(l, {e \in Range(l) : e.id # a.id})
      [] a.op = "put" /\ a.fields = {} -> <<Item(a.id, a.row)>> \o l
      [] OTHER -> [n \in DOMAIN l |-> IF l[n].id = a.id THEN Item(a.id, a.row) ELSE l[n]]

\* After a mutation of memories or skills the list is read again; a poll that is under way is
\* given up for it.
Reread ==
    /\ fetch' = "asked"
    /\ calls' = Append(Kept(calls, {x \in Range(calls) : x.op # "list"}), [NoCall EXCEPT !.op = "list"])

\* The active skill after a mutation: the one just saved; none if the one removed was active
\* when it was removed.
ActiveAfter(a) == CASE a.op = "put" -> a.id [] a.op = "del" /\ a.k = a.id -> None [] OTHER -> active

\* An answer reaches whoever awaits it.
Deliver ==
    /\ answers # <<>>
    /\ answers' = Tail(answers)
    /\ LET a == Head(answers) IN
       \/ /\ a.op = "list"
          /\ list' = a.got /\ seen' = TRUE /\ fetch' = "none"
          /\ UNCHANGED <<calls, detail, active>>
       \/ /\ a.op = "detail"
          /\ detail' = [detail EXCEPT ![a.id] = a.got]
          /\ UNCHANGED <<calls, fetch, list, seen, active>>
       \/ /\ a.op = "get"
          /\ calls' = Append(calls, [NoCall EXCEPT !.op = "put", !.id = a.id, !.fields = a.fields,
                                                   !.row = Merged(a.got, a)])
          /\ UNCHANGED <<fetch, list, seen, detail, active>>
       \/ /\ a.op \in {"put", "del"} /\ OfAgents
          /\ list' = IF panel = "default" \/ list = None THEN list ELSE Patched(list, a)
          /\ detail' = [detail EXCEPT ![a.id] = IF a.op = "del" THEN None
                                                ELSE IF a.fields = {} THEN @ ELSE a.row]
          /\ UNCHANGED <<calls, fetch, seen, active>>
       \/ /\ a.op \in {"put", "del"} /\ ~OfAgents
          /\ Reread
          /\ active' = IF panel = "skills" THEN ActiveAfter(a) ELSE active
          /\ UNCHANGED <<list, seen, detail>>
    /\ UNCHANGED <<panel, ident, open, unlocks, rows, ghost>>

Next ==
    \/ \E s \in Seeds : Unlock(s)
    \/ OpenStore \/ Lock
    \/ Fetch \/ Waited \/ GiveUp
    \/ \E i \in Ids : FetchAgent(i) \/ Create(i) \/ Delete(i)
    \/ \E i \in Ids, f \in Fields : UpdateAgent(i, f)
    \/ \E i, j \in Ids : UpdateMemory(i, j)
    \/ \E i \in Ids \union {None} : SetActive(i)
    \/ Serve \/ Deliver

Spec == Init /\ [][Next]_vars

\* The poll is an interval timer, the wait is counted in ticks, the worker and the event loop
\* take every message in its turn.
Fairness ==
    /\ WF_vars(panel # "skills" /\ Fetch) /\ WF_vars(Waited) /\ WF_vars(GiveUp)
    /\ WF_vars(Serve) /\ WF_vars(Deliver)

FairSpec == Spec /\ Fairness

-----------------------------------------------------------------------------
ShowsStore == /\ list # None
              /\ Range(list) = Table(ident) /\ Len(list) = Cardinality(Table(ident))
Quiet == calls = <<>> /\ answers = <<>>

\* Every variable has its type.
TypeOK ==
    /\ ident \in Seeds \union {None} /\ open \in BOOLEAN /\ (ident = None => ~open)
    /\ fetch \in {"none", "wait", "lost", "asked"} /\ (fetch = "asked" => open)
    /\ active \in Ids \union {None} /\ edits \in 0..MaxEdits /\ unlocks \in 0..MaxUnlocks

\* updateAgentInStore merges: mutations of an agent (memory, skill) that neither overlapped nor
\* were cut off by a lock have left in the store exactly what they asked for, field by field.
UpdatesMerge ==
    ident # None => \A i \in Ids \ crossed : Busy(i) \/ rows[ident][i] = wanted[ident][i]

\* The caches agree with the store when nothing is outstanding: the list, if mutations patch it
\* or have it read again and it was read since the unlock, and the single agents -
\* no row missing, stale or twice - except for mutations that crossed.
CachesAgree ==
    (ident # None /\ Quiet /\ crossed = {}) =>
        /\ seen /\ panel # "default" => ShowsStore
        /\ \A i \in Ids : detail[i] \in {None, rows[ident][i]} \/ \E s \in Seeds \ {ident} : rows[s][i] # None

\* A skill that is removed is not left active, unless it was chosen after its removal was asked
\* for, or a lock cut the removal off.  (A removal may also clear the choice of another skill,
\* made during its await: that is not excluded here.)
ActiveIsStored ==
    (ident # None /\ Quiet /\ active # None /\ active \notin crossed)
        => \E s \in Seeds : rows[s][active] # None

\* The poll is the source of truth: once the tab stays unlocked with its store open, the
\* list of agents or memories ends up showing the store, whatever crossed before.
PollsCatchUp ==
    <>[](ident # None /\ open /\ panel # "skills") => []<>(ident # None => ShowsStore)
=============================================================================
