----------------------------- MODULE RagPipeline -----------------------------
(***************************************************************************)
(* Retrieval on the device, while one identity is unlocked: files the user *)
(* attaches are parsed, chunked, embedded by the embed worker and stored;  *)
(* the in-memory index is rebuilt from the store; a prompt is embedded and *)
(* ranked against the index before it is sealed.                           *)
(*                                                                         *)
(* Three event loops: the tab (useRag, retrieval.ts), the store worker and *)
(* the embed worker.  Each worker serves its messages in order and its     *)
(* answers arrive in order; whatever the tab awaits from the other worker  *)
(* in the meantime may come first.  Locking is left to DeviceIdentity.     *)
(***************************************************************************)
EXTENDS Naturals, Sequences, SequencesExt, FiniteSets

CONSTANTS
    Files,          \* what the user may attach, one upload each
    Kinds,          \* what detectKind may say of a file
    Batches,        \* Batches[f]: its chunks, in batches of EMBED_BATCH
    Old,            \* documents that earlier sessions left in the store
    MaxSends,       \* bound: prompts sent
    None

Lazy == {"pdf", "docx"}     \* kinds whose parser is imported when first needed

ASSUME KindsAssumption == Kinds \subseteq {"text", "unsupported"} \union Lazy
ASSUME BatchesAssumption == Batches \in [Files -> Nat \ {0}]
ASSUME FilesAssumption == IsFiniteSet(Files) /\ Old \cap Files = {} /\ None \notin Files \union Old
ASSUME BoundsAssumption == MaxSends \in Nat

VARIABLES
    tab,    \* the main thread, and its messages to the two workers
    store,  \* the store worker: its vectors, and its answers
    embed   \* the embed worker: is it up, is its model loaded, its answers

vars == <<tab, store, embed>>

Warm == [k |-> "warm", f |-> None]
Ingest(f) == [k |-> "ingest", f |-> f]
Prompt == [k |-> "prompt", f |-> None]

Call(op, f, h) == [op |-> op, f |-> f, hyd |-> h]

ToStore(t, c) == [t EXCEPT !.toStore = Append(@, c)]
ToEmbed(t, who) == [t EXCEPT !.toEmbed = Append(@, who)]

-----------------------------------------------------------------------------
(***************************************************************************)
(* The shared index.  A hydrate is numbered; tab.promise is the number in  *)
(* hydratePromise, 0 for null.                                             *)
(***************************************************************************)
Unsettled(t, h) == \E c \in Range(t.toStore) \union Range(store.answers) : c.op = "hydrate" /\ c.hyd = h

\* Mutant: a forced hydrate joins the one under way.
HydrateCoalesced(t, force) ==
    IF t.open /\ t.promise = 0
    THEN [ToStore(t, Call("hydrate", None, t.hyds + 1)) EXCEPT
             !.hyds = @ + 1, !.promise = t.hyds + 1,
             !.forced = IF force THEN @ \union {t.hyds + 1} ELSE @]
    ELSE t

\* hydrateRagIndex: what the tab is afterwards; its caller awaits tab.promise.  Without an
\* open store the index is emptied unless a hydrate is cached.
HydrateRagIndex(t, force) ==
    IF ~t.open THEN [t EXCEPT !.idx = IF t.promise = 0 THEN {} ELSE @]
    ELSE IF t.promise # 0 /\ ~force THEN t
    ELSE [ToStore(t, Call("hydrate", None, t.hyds + 1)) EXCEPT
             !.hyds = @ + 1, !.promise = t.hyds + 1,
             !.forced = IF force THEN @ \union {t.hyds + 1} ELSE @]

\* What the hydrate resolves to: the vectors, or nothing when it failed.  A forced one
\* then clears hydratePromise, whichever promise that is by now.
HydrateSettled(t, c, vecs, ok) ==
    [t EXCEPT !.idx = IF ok THEN vecs ELSE {},
              !.stale = ~ok,
              !.promise = IF c.hyd \in t.forced THEN 0 ELSE @]

-----------------------------------------------------------------------------
(***************************************************************************)
(* useRag: one file's way into the store.                                  *)
(***************************************************************************)
\* The await of ingestOne returns for the files in S: ingestFiles goes on to the next file
\* of each list.
Settle(t, S, st) ==
    [t EXCEPT !.file = [f \in Files |-> IF f \in S THEN [t.file[f] EXCEPT !.st = st] ELSE t.file[f]],
              !.drops = {IF d # <<>> /\ Head(d) \in S THEN Tail(d) ELSE d : d \in @}]

\* Mutant: a file that fails ends the list it came with.
FailedAlone(t, f) == [t EXCEPT !.file[f].st = "error"]

Failed(t, f) == Settle(t, {f}, "error")

\* embedTexts of the next batch, or storeVectors once every batch has its vectors.
Embedded(t, f) ==
    LET b == t.file[f].batch IN
    IF b < Batches[f] THEN ToEmbed([t EXCEPT !.file[f].batch = b + 1], Ingest(f))
    ELSE IF t.open THEN ToStore([t EXCEPT !.file[f].st = "storing"], Call("store", f, 0))
    ELSE Failed(t, f)

Stored(t, f) ==
    LET t1 == HydrateRagIndex(t, TRUE) IN [t1 EXCEPT !.file[f].st = "hydrating", !.file[f].hyd = t1.promise]

\* Mutant: removeFile does not rebuild the index.
DroppedOnly(t, f) == [t EXCEPT !.file[f].removal = "gone"]

Dropped(t, f) ==
    LET t1 == HydrateRagIndex(t, TRUE) IN [t1 EXCEPT !.file[f].removal = "hydrating", !.file[f].hyd = t1.promise]

\* Those that await hydrate h go on.
Rehydrated(t, h) ==
    LET Awaits(f, step) == t.file[f].hyd = h /\ step = "hydrating"
        u == Settle(t, {f \in Files : Awaits(f, t.file[f].st)}, "done")
    IN  [u EXCEPT !.file = [f \in Files |-> IF Awaits(f, t.file[f].removal)
                                            THEN [u.file[f] EXCEPT !.removal = "gone"] ELSE u.file[f]]]

-----------------------------------------------------------------------------
(***************************************************************************)
(* augmentPromptWithRAG: one prompt at a time.                             *)
(***************************************************************************)
Sent(t, used) == [t EXCEPT !.send.st = "sent", !.send.used = used]

\* The index is there: a prompt for which it holds nothing is sent as it is.
Ready(t) ==
    IF t.send.st # "hydrating" THEN t
    ELSE IF t.idx = {} THEN Sent(t, {})
    ELSE ToEmbed([t EXCEPT !.send.st = "embedding"], Prompt)

\* RagIndex.search: any of the documents may score, the best come first.
Searched(t) == {Sent(t, hits) : hits \in SUBSET t.idx}

\* What the tab does with an answer of the embed worker.
EmbedSettled(t, who, ok) ==
    CASE who.k = "warm" -> {t}
      [] who.k = "ingest" -> {IF ok THEN Embedded(t, who.f) ELSE Failed(t, who.f)}
      [] who.k = "prompt" -> IF ok THEN Searched(t) ELSE {Sent(t, {})}

-----------------------------------------------------------------------------
NoFile == [st |-> "none", kind |-> None, batch |-> 0, hyd |-> 0, removal |-> "no"]
NoSend == [st |-> "idle", hyd |-> 0, used |-> {}, gone |-> {}]

\* The end of unlock: the store is open or has failed to open; the embedder is warmed up
\* and the index is hydrated, neither of them awaited.
Unlocked(isOpen) ==
    HydrateRagIndex(
        [open |-> isOpen, idx |-> {}, stale |-> FALSE, promise |-> 0, hyds |-> 0, forced |-> {},
         file |-> [f \in Files |-> NoFile], list |-> {}, drops |-> {}, loader |-> [k \in Lazy |-> "none"],
         send |-> NoSend, sends |-> 0, toStore |-> <<>>, toEmbed |-> <<Warm>>], TRUE)

Init ==
    /\ store = [rows |-> Old, answers |-> <<>>]
    /\ embed = [st |-> "starting", model |-> FALSE, answers |-> <<>>]
    /\ \E isOpen \in BOOLEAN : tab = Unlocked(isOpen)

\* ingestFiles: the user picks or drops files.
Attach(d) ==
    /\ d # <<>>
    /\ \A f \in Range(d) : tab.file[f].st = "none" /\ \A e \in tab.drops : f \notin Range(e)
    /\ tab' = [tab EXCEPT !.drops = @ \union {d}]
    /\ UNCHANGED <<store, embed>>

\* ingestOne, up to its first await.
IngestOne(f) ==
    /\ tab.file[f].st = "none"
    /\ \E d \in tab.drops : d # <<>> /\ Head(d) = f
    /\ \E k \in Kinds :
          LET t == [tab EXCEPT !.list = @ \union {f}] IN
          tab' = IF k = "unsupported" THEN Failed(t, f)
                 ELSE [t EXCEPT !.file[f].st = "parsing", !.file[f].kind = k]
    /\ UNCHANGED <<store, embed>>

\* parseBlob and chunkText.  A parser that could not be imported is not imported again.
Parse(f) ==
    /\ tab.file[f].st = "parsing"
    /\ \E ok \in BOOLEAN, loads \in BOOLEAN :
          LET k == tab.file[f].kind
              usable == k \in Lazy => (IF tab.loader[k] = "none" THEN loads ELSE tab.loader[k] = "loaded")
              t == [tab EXCEPT !.loader = [j \in DOMAIN @ |->
                       IF j = k /\ @[j] = "none" THEN (IF loads THEN "loaded" ELSE "failed") ELSE @[j]]]
          IN  tab' = IF usable /\ ok
                     THEN ToEmbed([t EXCEPT !.file[f].st = "embedding", !.file[f].batch = 1], Ingest(f))
                     ELSE Failed(t, f)
    /\ UNCHANGED <<store, embed>>

\* The row's button is disabled while the file is being ingested.
RemoveFile(f) ==
    /\ f \in tab.list /\ tab.file[f].st \in {"done", "error"}
    /\ LET t == [tab EXCEPT !.list = @ \ {f}] IN
       tab' = IF t.open THEN ToStore([t EXCEPT !.file[f].removal = "dropping"], Call("drop", f, 0))
              ELSE [t EXCEPT !.file[f].removal = "failed"]
    /\ UNCHANGED <<store, embed>>

Ingesting(t) == \E f \in Files : t.file[f].st \in {"parsing", "embedding", "storing", "hydrating"}

\* "Clear list", disabled while a file is being ingested.
Clear ==
    /\ tab.list # {} /\ ~Ingesting(tab)
    /\ tab' = [tab EXCEPT !.list = {}]
    /\ UNCHANGED <<store, embed>>

\* The panel is collapsed: its list goes with it; what it awaits goes on.
Hide ==
    /\ tab.list # {}
    /\ tab' = [tab EXCEPT !.list = {}]
    /\ UNCHANGED <<store, embed>>

\* The user sends a prompt: augmentPromptWithRAG up to its first await, and past it when
\* there is nothing to wait for.
Augment ==
    /\ tab.send.st \in {"idle", "sent"} /\ tab.sends < MaxSends
    /\ LET t == HydrateRagIndex(tab, FALSE)
           u == [t EXCEPT !.sends = @ + 1,
                          !.send = [st |-> "hydrating", hyd |-> t.promise, used |-> {},
                                    gone |-> {f \in Files : t.file[f].removal = "gone"}]]
       IN  tab' = IF t.open /\ Unsettled(t, t.promise) THEN u ELSE Ready(u)
    /\ UNCHANGED <<store, embed>>

-----------------------------------------------------------------------------
(***************************************************************************)
(* The store worker.  A call may fail; storeVectors is one transaction.    *)
(***************************************************************************)
StoreServe ==
    /\ tab.toStore # <<>>
    /\ LET c == Head(tab.toStore) IN
       \E ok \in BOOLEAN :
          LET rows == CASE ~ok -> store.rows
                        [] c.op = "store" -> store.rows \union {c.f}
                        [] c.op = "drop" -> store.rows \ {c.f}
                        [] c.op = "hydrate" -> store.rows
          IN  store' = [rows |-> rows,
                        answers |-> Append(store.answers, [op |-> c.op, f |-> c.f, hyd |-> c.hyd,
                                                           ok |-> ok, vecs |-> rows])]
    /\ tab' = [tab EXCEPT !.toStore = Tail(@)]
    /\ UNCHANGED embed

\* An answer reaches the tab, and those who await it go on.
StoreDeliver ==
    /\ store.answers # <<>>
    /\ LET a == Head(store.answers) IN
       tab' = CASE a.op = "store" -> IF a.ok THEN Stored(tab, a.f) ELSE Failed(tab, a.f)
                [] a.op = "drop" -> IF a.ok THEN Dropped(tab, a.f) ELSE [tab EXCEPT !.file[a.f].removal = "failed"]
                [] a.op = "hydrate" ->
                     LET t == Rehydrated(HydrateSettled(tab, a, a.vecs, a.ok), a.hyd)
                     IN  IF t.send.hyd = a.hyd THEN Ready(t) ELSE t
    /\ store' = [store EXCEPT !.answers = Tail(@)]
    /\ UNCHANGED embed

-----------------------------------------------------------------------------
(***************************************************************************)
(* The embed worker.                                                       *)
(***************************************************************************)
EmbedStart ==
    /\ embed.st = "starting"
    /\ embed' = [embed EXCEPT !.st = "up"]
    /\ UNCHANGED <<tab, store>>

\* The worker's error event: every pending request is rejected; the worker stays in place.
EmbedWorkerError ==
    /\ embed.st = "starting"
    /\ embed' = [embed EXCEPT !.st = "down"]
    /\ LET pending == Range(tab.toEmbed)
           t == Settle(tab, {f \in Files : Ingest(f) \in pending}, "error")
       IN  tab' = [(IF Prompt \in pending THEN Sent(t, {}) ELSE t) EXCEPT !.toEmbed = <<>>]
    /\ UNCHANGED store

\* getPipeline, then the inference: a model that could not be loaded (WebGPU, then WASM)
\* is loaded again by the next request.
Handle(model, loads, runs) == [model |-> model \/ loads, ok |-> (model \/ loads) /\ runs]

EmbedServe ==
    /\ embed.st = "up" /\ tab.toEmbed # <<>>
    /\ \E loads \in BOOLEAN, runs \in BOOLEAN :
          LET h == Handle(embed.model, loads, runs)
          IN  embed' = [embed EXCEPT !.model = h.model,
                                     !.answers = Append(@, [who |-> Head(tab.toEmbed), ok |-> h.ok])]
    /\ tab' = [tab EXCEPT !.toEmbed = Tail(@)]
    /\ UNCHANGED store

EmbedDeliver ==
    /\ embed.answers # <<>>
    /\ LET a == Head(embed.answers) IN tab' \in EmbedSettled(tab, a.who, a.ok)
    /\ embed' = [embed EXCEPT !.answers = Tail(@)]
    /\ UNCHANGED store

-----------------------------------------------------------------------------
Lists == {d \in BoundedSeq(Files, Cardinality(Files)) : IsInjective(d)}

Next ==
    \/ \E d \in Lists : Attach(d)
    \/ \E f \in Files : IngestOne(f) \/ Parse(f) \/ RemoveFile(f)
    \/ Clear \/ Hide \/ Augment
    \/ StoreServe \/ StoreDeliver
    \/ EmbedStart \/ EmbedWorkerError \/ EmbedServe \/ EmbedDeliver

\* Workers and event loops run; what the user does is his choice.
Fairness ==
    /\ WF_vars(StoreServe) /\ WF_vars(StoreDeliver)
    /\ WF_vars(EmbedStart \/ EmbedWorkerError) /\ WF_vars(EmbedServe) /\ WF_vars(EmbedDeliver)
    /\ \A f \in Files : WF_vars(IngestOne(f)) /\ WF_vars(Parse(f))

Spec == Init /\ [][Next]_vars /\ Fairness

-----------------------------------------------------------------------------
\* Every variable has its type, and the drops hold files not ingested yet.
TypeOK ==
    /\ store.rows \subseteq Files \union Old
    /\ embed.st \in {"starting", "up", "down"} /\ embed.model \in BOOLEAN
    /\ tab.idx \subseteq Files \union Old
    /\ tab.promise \in 0..tab.hyds
    /\ tab.send.st \in {"idle", "hydrating", "embedding", "sent"} /\ tab.sends \in 0..MaxSends
    /\ \A f \in Files : /\ tab.file[f].st \in {"none", "parsing", "embedding", "storing", "hydrating", "done", "error"}
                        /\ tab.file[f].removal \in {"no", "dropping", "hydrating", "gone", "failed"}
                        /\ tab.file[f].batch \in 0..Batches[f]

\* When nothing is under way between the tab and an open store, the index holds exactly the
\* documents of the store, unless the last read failed: a store, a removal and hydrates that
\* overlap never leave the index behind (hydrateRagIndex, useRag).
IndexTracksStore ==
    tab.open /\ tab.toStore = <<>> /\ store.answers = <<>> /\ ~tab.stale => tab.idx = store.rows

\* A document is in the store whole or not at all: a file shown as failed left nothing
\* there, one shown as indexed is there until it is removed (ingestOne).
AllOrNothing ==
    \A f \in Files :
        /\ tab.file[f].st \in {"none", "parsing", "embedding", "error"} => f \notin store.rows
        /\ tab.file[f].st = "done" /\ tab.file[f].removal = "no" => f \in store.rows

\* What the tab lists, the store and the index agree on the documents.
DocumentsAgree == IndexTracksStore /\ AllOrNothing

\* No excerpt of a document whose removal had finished when the prompt was sent goes into
\* that prompt (removeFile, augmentPromptWithRAG).
RemovedNotUsed == tab.send.gone \cap tab.send.used = {}

\* Types apart, nobody waits for an answer that is not on its way: every await of a prompt, an ingest or
\* a removal has its request or its answer in a queue, as long as the embed worker is there.
\* With workers that run, each of them returns.
NobodyForgotten ==
    LET Embedding(who) == embed.st = "down" \/ who \in Range(tab.toEmbed) \/ \E a \in Range(embed.answers) : a.who = who
        Storing(op, f) == \E c \in Range(tab.toStore) \union Range(store.answers) : c.op = op /\ c.f = f
    IN  /\ TypeOK
        /\ tab.send.st = "hydrating" => Unsettled(tab, tab.send.hyd)
        /\ tab.send.st = "embedding" => Embedding(Prompt)
        /\ \A f \in Files :
              LET x == tab.file[f] IN
              /\ x.st = "embedding" => Embedding(Ingest(f))
              /\ x.st = "storing" => Storing("store", f)
              /\ x.removal = "dropping" => Storing("drop", f)
              /\ "hydrating" \in {x.st, x.removal} => Unsettled(tab, x.hyd)
              /\ x.st \in {"done", "error"} => \A d \in tab.drops : f \notin Range(d)

\* What augmentPromptWithRAG's own comment says, the embed worker included: retrieval is an
\* enhancement, never a gate.  The code does not keep this: see "Disagreements" in the README.
NeverAGate == (tab.send.st \in {"hydrating", "embedding"}) ~> (tab.send.st = "sent")
=============================================================================
