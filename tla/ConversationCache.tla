-------------------------- MODULE ConversationCache --------------------------
(***************************************************************************)
(* What the chat shows of the device store: the sidebar's list and the     *)
(* messages of each conversation, both in the React Query cache, seeded    *)
(* from the store by useConversationList and useHydrateConversation and    *)
(* extended by turns, forks and imports.  Store calls are served in order  *)
(* and their answers arrive in order (DeviceStore); the stubbed fetch of   *)
(* /api/convos answers with an empty list whenever it does.                *)
(***************************************************************************)
EXTENDS Integers, Sequences, SequencesExt, FiniteSets, FiniteSetsExt

CONSTANTS
    Seeds,
    Convos,         \* conversation ids
    History,        \* History[s]: conversations seed s has in its store, one turn each
    MaxTurns,       \* bound: turns, forks and imports
    Ticks,          \* ticks of the window in which the seed is re-asserted
    MaxUnlocks,     \* bound
    None

ASSUME HistoryAssumption ==
    /\ History \in [Seeds -> SUBSET Convos]
    /\ \A s, r \in Seeds : s # r => History[s] \cap History[r] = {}
ASSUME NoneAssumption ==
    /\ None \notin Seeds \union Convos
    /\ \A S \in SUBSET Convos : S # None
ASSUME BoundsAssumption == {MaxTurns, Ticks, MaxUnlocks} \subseteq Nat /\ Ticks # 0 /\ IsFiniteSet(Convos)

VARIABLES
    ident,      \* the unlocked identity
    unlocks,
    rows,       \* rows[s][c]: turns of conversation c in the store of s
    calls,      \* to the store worker of the unlocked identity
    answers,    \* from it
    list,       \* the sidebar's cached list, None before there is one
    msgs,       \* msgs[c]: turns of c in the messages cache
    view,       \* the conversation shown, None for a new one
    fetch,      \* the sidebar's own query: none, inflight, done
    loop,       \* the effect of useConversationList
    turns,      \* numbers given out
    live,       \* the turn being streamed
    gap         \* the seed missed the list: it was cached before the unlock, was filled by a
                \* turn or fork while it was the empty answer, or was emptied after the window

vars == <<ident, unlocks, rows, calls, answers, list, msgs, view, fetch, loop, turns, live, gap>>

NoTurn == [c |-> None, t |-> 0]
Idle == [pc |-> "off", ticks |-> 0, stored |-> {}]
Call(op, c, t) == [op |-> op, c |-> c, t |-> t]

Stored(s) == {c \in Convos : rows[s][c] # {}}
Fresh == {c \in Convos : \A s \in Seeds : rows[s][c] = {} /\ msgs[c] = {}}

Init ==
    /\ ident = None /\ unlocks = 0
    /\ rows = [s \in Seeds |-> [c \in Convos |-> IF c \in History[s] THEN {0} ELSE {}]]
    /\ calls = <<>> /\ answers = <<>>
    /\ list = None
    /\ msgs = [c \in Convos |-> {}]
    /\ view = None /\ fetch = "none" /\ loop = Idle
    /\ turns = 0 /\ live = NoTurn /\ gap = FALSE

Empty(l) == l = None \/ l = {}

-----------------------------------------------------------------------------
\* external: addConversationToAllConversationsQueries, addConvoToAllQueries.  They extend the
\* lists that are there, once per conversation.
Added(l, S) == IF l = None THEN None ELSE l \union S

\* The effect of useConversationList starts once auth has flipped; it asks for a page.
Unlock(s) ==
    /\ ident = None /\ unlocks < MaxUnlocks
    /\ ident' = s /\ unlocks' = unlocks + 1
    /\ calls' = <<Call("list", None, 0)>>
    /\ loop' = [pc |-> "listing", ticks |-> Ticks, stored |-> {}]
    /\ view' = None
    /\ gap' = ~Empty(list)
    /\ UNCHANGED <<rows, answers, list, msgs, fetch, turns, live>>

\* lock and logout: the store worker goes, with what it was asked; the effects are cancelled;
\* the query cache stays.
Lock ==
    /\ ident # None
    /\ ident' = None
    /\ calls' = <<>> /\ answers' = <<>>
    /\ loop' = Idle /\ live' = NoTurn
    /\ UNCHANGED <<unlocks, rows, list, msgs, view, fetch, turns, gap>>

\* The sidebar mounts: its query fetches unless the seed came first (it is never stale).
Mount ==
    /\ ident # None /\ fetch = "none"
    /\ fetch' = IF list = None THEN "inflight" ELSE "done"
    /\ UNCHANGED <<ident, unlocks, rows, calls, answers, list, msgs, view, loop, turns, live, gap>>

\* The stub's empty list replaces whatever has been seeded meanwhile.
FetchReturns ==
    /\ fetch = "inflight"
    /\ fetch' = "done"
    /\ list' = {}
    /\ gap' = (loop.pc = "done")
    /\ UNCHANGED <<ident, unlocks, rows, calls, answers, msgs, view, loop, turns, live>>

\* Mutant: the seed is given once.
TickOnce ==
    /\ loop.pc = "ticking"
    /\ list' = IF loop.ticks = Ticks /\ Empty(list)
               THEN Added(IF list = None THEN {} ELSE list, loop.stored) ELSE list
    /\ loop' = [loop EXCEPT !.ticks = @ - 1, !.pc = IF loop.ticks = 1 THEN "done" ELSE @]
    /\ UNCHANGED <<ident, unlocks, rows, calls, answers, msgs, view, fetch, turns, live, gap>>

\* One tick: the seed again if the list is empty.
Tick ==
    /\ loop.pc = "ticking"
    /\ list' = IF Empty(list) THEN Added(IF list = None THEN {} ELSE list, loop.stored) ELSE list
    /\ loop' = [loop EXCEPT !.ticks = @ - 1, !.pc = IF loop.ticks = 1 THEN "done" ELSE @]
    /\ UNCHANGED <<ident, unlocks, rows, calls, answers, msgs, view, fetch, turns, live, gap>>

-----------------------------------------------------------------------------
(***************************************************************************)
(* The view.  Leaving a conversation cancels its hydrate: the read is      *)
(* served, and its answer is dropped.  There is one at a time.             *)
(***************************************************************************)
Left(q) == IF \E n \in DOMAIN q : q[n].op = "hydrate"
           THEN RemoveAt(q, CHOOSE n \in DOMAIN q : q[n].op = "hydrate") ELSE q

\* The route shows c: useHydrateConversation reads the store unless messages are cached.
Open(c) ==
    /\ ident # None /\ view # c /\ live = NoTurn
    /\ list # None /\ c \in list
    /\ view' = c
    /\ calls' = IF msgs[c] = {} THEN Append(Left(calls), Call("hydrate", c, 0)) ELSE Left(calls)
    /\ answers' = Left(answers)
    /\ UNCHANGED <<ident, unlocks, rows, list, msgs, fetch, loop, turns, live, gap>>

\* A turn is sent: from a new chat it gets an id of its own.  Its messages are in the cache
\* from now on.
Send(c) ==
    /\ ident # None /\ live = NoTurn /\ turns < MaxTurns
    /\ IF view = None THEN c \in Fresh ELSE c = view
    /\ turns' = turns + 1
    /\ live' = [c |-> c, t |-> turns + 1]
    /\ msgs' = [msgs EXCEPT ![c] = @ \union {turns + 1}]
    /\ view' = c
    /\ UNCHANGED <<ident, unlocks, rows, calls, answers, list, fetch, loop, gap>>

\* It is done: the list has its conversation, the store gets the turn.
Finish ==
    /\ live # NoTurn
    /\ list' = Added(list, {live.c})
    /\ gap' = (gap \/ list = {})
    /\ calls' = Append(calls, Call("persist", live.c, live.t))
    /\ live' = NoTurn
    /\ UNCHANGED <<ident, unlocks, rows, answers, msgs, view, fetch, loop, turns>>

\* forkConversation: the store copies the lineage into a new conversation, which is read back.
Fork ==
    /\ ident # None /\ view # None /\ live = NoTurn /\ turns < MaxTurns
    /\ \A x \in Range(calls \o answers) : x.op \notin {"fork", "readback"}
    /\ turns' = turns + 1
    /\ calls' = Append(calls, Call("fork", view, turns + 1))
    /\ UNCHANGED <<ident, unlocks, rows, answers, list, msgs, view, fetch, loop, live, gap>>

\* importFile, one at a time: a file that is no export is refused before the store sees it.
Import ==
    /\ ident # None /\ turns < MaxTurns
    /\ \A x \in Range(calls \o answers) : x.op \notin {"import", "relist"}
    /\ turns' = turns + 1
    /\ calls' = Append(calls, Call("import", None, turns + 1))
    /\ UNCHANGED <<ident, unlocks, rows, answers, list, msgs, view, fetch, loop, live, gap>>

-----------------------------------------------------------------------------
\* The store worker serves the next call (DeviceStore: each is atomic).  Fork and import
\* make new ids.
Serve ==
    /\ calls # <<>>
    /\ LET x == Head(calls)
           mine == rows[ident]
           Answer(c, turnset) == [op |-> x.op, c |-> c, got |-> turnset]
       IN  \/ /\ x.op = "list"
              /\ answers' = Append(answers, Answer(None, Stored(ident)))
              /\ UNCHANGED rows
           \/ /\ x.op = "hydrate"
              /\ answers' = Append(answers, Answer(x.c, mine[x.c]))
              /\ UNCHANGED rows
           \/ /\ x.op = "persist"
              /\ rows' = [rows EXCEPT ![ident][x.c] = @ \union {x.t}]
              /\ UNCHANGED answers
           \/ /\ x.op = "fork"
              /\ IF mine[x.c] = {} THEN /\ answers' = Append(answers, Answer(None, {}))
                                        /\ UNCHANGED rows
                 ELSE \E n \in Fresh :
                        /\ rows' = [rows EXCEPT ![ident][n] = mine[x.c]]
                        /\ answers' = Append(answers, Answer(n, {}))
           \/ /\ x.op = "import"
              /\ \E n \in Fresh : rows' = [rows EXCEPT ![ident][n] = {x.t}]
              /\ answers' = Append(answers, Answer(None, {}))
           \/ /\ x.op \in {"readback", "relist"}
              /\ answers' = Append(answers, IF x.op = "readback" THEN Answer(x.c, mine[x.c])
                                            ELSE Answer(None, Stored(ident)))
              /\ UNCHANGED rows
    /\ calls' = Tail(calls)
    /\ UNCHANGED <<ident, unlocks, list, msgs, view, fetch, loop, turns, live, gap>>

\* Mutant: what was read before the await is trusted.
HydratedBlindly(c, got) == [msgs EXCEPT ![c] = got]

\* The messages are seeded only if none came while the store was read.
Hydrated(c, got) == [msgs EXCEPT ![c] = IF @ = {} THEN got ELSE @]

\* An answer reaches whoever awaits it.
Deliver ==
    /\ answers # <<>>
    /\ LET a == Head(answers) IN
       \/ /\ a.op = "list"
          /\ loop' = [loop EXCEPT !.stored = a.got, !.pc = IF a.got = {} THEN "off" ELSE "ticking"]
          /\ UNCHANGED <<calls, list, msgs, view, gap>>
       \/ /\ a.op = "hydrate"
          /\ msgs' = Hydrated(a.c, a.got)
          /\ UNCHANGED <<calls, list, view, loop, gap>>
       \/ /\ a.op = "fork"
          /\ calls' = IF a.c = None THEN calls ELSE Append(calls, Call("readback", a.c, 0))
          /\ UNCHANGED <<list, msgs, view, loop, gap>>
       \/ /\ a.op = "readback"
          /\ msgs' = [msgs EXCEPT ![a.c] = a.got]
          /\ list' = Added(list, {a.c})
          /\ gap' = (gap \/ list = {})
          /\ view' = a.c
          /\ calls' = Left(calls)
          /\ UNCHANGED loop
       \/ /\ a.op = "import"
          /\ calls' = Append(calls, Call("relist", None, 0))
          /\ UNCHANGED <<list, msgs, view, loop, gap>>
       \/ /\ a.op = "relist"
          /\ list' = IF a.got = {} THEN list ELSE Added(IF list = None THEN {} ELSE list, a.got)
          /\ UNCHANGED <<calls, msgs, view, loop, gap>>
    /\ answers' = IF Head(answers).op = "readback" THEN Left(Tail(answers)) ELSE Tail(answers)
    /\ UNCHANGED <<ident, unlocks, rows, fetch, turns, live>>

Next ==
    \/ \E s \in Seeds : Unlock(s)
    \/ Lock \/ Mount \/ FetchReturns \/ Tick
    \/ \E c \in Convos : Open(c) \/ Send(c)
    \/ Finish \/ Fork \/ Import \/ Serve \/ Deliver

Spec == Init /\ [][Next]_vars

-----------------------------------------------------------------------------
\* Every variable has its type.
TypeOK ==
    /\ ident \in Seeds \union {None} /\ unlocks \in 0..MaxUnlocks /\ turns \in 0..MaxTurns
    /\ list = None \/ list \subseteq Convos
    /\ \A c \in Convos : msgs[c] \subseteq 0..MaxTurns
    /\ view \in Convos \union {None}
    /\ fetch \in {"none", "inflight", "done"} /\ loop.pc \in {"off", "listing", "ticking", "done"}
    /\ loop.ticks \in 0..Ticks

\* The empty answer of /api/convos does not cost the sidebar its history: once the window of
\* an unlock is over, everything the store listed is shown, whatever turns, forks and imports
\* fell into the window.  Three cases are excluded, because there the code shows less (gap):
\* an unlock over a list that is cached already, which is never seeded; a turn or a fork that
\* ends while the list is the empty answer, which ends the seeding; an answer that comes after
\* the window.
SeedSurvives == loop.pc = "done" /\ ~gap => list # None /\ loop.stored \subseteq list

\* useConversationList.ts:161-162: the seed is re-asserted "so the empty /api/convos fetch can't
\* leave the sidebar blank": once the window is over, the history that was listed is shown.
\* The code does not keep this: see "Disagreements" in the README.
SeedAlwaysSurvives == loop.pc = "done" => list # None /\ loop.stored \subseteq list

\* Live state wins: no seed, no import and no answer to a hydrate, however late, takes a turn
\* out of the messages cache.  Only a fork writes the messages of its own copy unasked.
LiveWins ==
    [][\A c \in Convos :
          \/ msgs[c] \subseteq msgs'[c]
          \/ answers # <<>> /\ Head(answers).op = "readback" /\ Head(answers).c = c]_vars

\* No conversation of another identity is listed: what the store proxy's teardown is for.  The
\* code does not keep this: see "Disagreements" in the README.
ListOfOwner == ident # None /\ list # None => \A s \in Seeds \ {ident} : list \cap Stored(s) = {}
=============================================================================
