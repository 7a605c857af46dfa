# Caladon: TLA+ models, model-checking runs and proofs

Caladon is a confidential chat system. A web client derives an identity from a
seed, verifies that the gateway runs in an attested confidential VM (CVM),
agrees a session key with it, and exchanges sealed prompts and replies. The
gateway opens a prompt in the CVM's memory and sends it to an attested inference
provider (or to a Letta agent). History, documents and memories live in an
encrypted store on the device.

This directory models the parts in which steps of several actors interleave, and
the algorithms whose edges are easy to get wrong; it model-checks them with TLC
on small instances, shows that the device store implements an atomic one, and
proves most of the safety properties with TLAPS for every value of the constants.
`PROJECT.json` lists, for every definition, the source lines that it models.

## 1. Inventory

Paths are relative to `src/`; `O/` is `web-client/overlay/client/src/`.

| Component | State | Operations | Interacts with | What is hard | Correct means |
|---|---|---|---|---|---|
| Session manager `gateway/app/session.py`, `routes/session.py` | the process's key pair, `{SK, WMK}` per account | `establish`, `has_session`, `open_for`, `seal_for` | the client's handshake; the chat route, once per delta | one session per account shared by devices; everything is lost at a restart; the signature does not cover the body | a session belongs to its account; a replaced key never comes back; nothing of another account is opened or sealed |
| Client handshake `web-client/caladon/src/client.ts` | identity, session key | `onboard`, `getAttestation`, `verifyAttestation`, `establishSession` | registry, attestation, session routes | five awaits, any of which may fail or be overtaken by a lock | the key that is kept is the one the gateway has |
| Chat route `gateway/app/routes/chat.py`, `inference_backend.py`, `letta_client.py`, `sse.py` | one coroutine per turn | open the prompt, fetch the receipt, enforce, route, tool loop, stream | session manager, catalog, provider, agent | awaits between check and use; failure in mid-stream; bounded loop | a rejected turn says nothing; one terminal event; it ends |
| Model catalog `gateway/app/models_catalog.py`, `routes/models.py` | one cache entry with a time stamp | `fetch_all_models`, `is_attested`, `is_known_model` | provider; turns and pickers | several fetches in flight, slow answers | a cached list is no older than the TTL |
| Routing `gateway/app/deps.py`, `config.py` | settings | `get_inference`, `get_receipt_fetcher`, fallback to the default model | catalog, provider | receipt, check and completion are three requests | no cloud model unless asked for and allowed |
| Account registry `gateway/app/accounts.py`, `routes/tenants.py` | a dictionary and its JSON file | `register`, `_load`, `_flush` | every authenticated route | crash or refusal at each step of the flush | loadable, durable, never rebound |
| Identity and lock `O/lib/caladon/index.ts`, `O/hooks/AuthContext.tsx`, `O/components/Auth/CaladonUnlock.tsx` | client, identity, session, authenticated user | `unlock`, `lock`, `logout` | handshake, store proxy, RAG index | a lock is synchronous, everything else awaits across it | identity, session and store agree |
| Store proxy `O/lib/store/client.ts` | worker, `opened`, `ready`, pending requests | `openStore`, `terminate`, reads and writes | worker; everything that reads the store | promises that settle late, never, or with another identity | the open store is the identity's |
| Prompt gathering `O/hooks/SSE/useSSE.ts`, `O/lib/{rag,memory,skills,subagents}` | one `setup()` per submission | augment, inject, resolve agent, consult subagents, seal, sign, send | store, session, gateway | the identity may change during the gathering | what is sent is its author's; it never hangs |
| RAG ingestion `O/store/useRag.ts`, `O/lib/rag/retrieval.ts` | index and stored vectors | parse, chunk, embed, store, hydrate | embed worker, store | seconds of awaits before the write | vectors stay with their identity |
| Store worker `O/lib/store/worker/store.worker.ts`, `schema.sql.ts` | one encrypted SQLite file per identity, a promise chain | INIT, turns, conversations, forks, imports, search, vectors, library rows | proxy | INIT is asynchronous; wipe on a read error; termination inside a transaction | an atomic store; index and foreign keys sound |
| Streaming and persisting of a reply `O/hooks/SSE/useSSE.ts` | delta chain, retry count | deltas, `done`, error, 401 retry, cleanup, persist | gateway, store | callbacks in any chunking across a lock; deltas that do not open | the stored reply has all that opened and is its owner's; the composer is freed |
| Conversation cache `O/store/use{ConversationList,HydrateConversation,ForkConversation,ImportConversation}.ts` | React Query lists and messages | seed, hydrate, fork, import | store; the stubbed `/api/convos` | late answers against live turns | history survives a reload; live state wins |
| Library panels `O/data-provider/{Agents,Memories}`, `O/components/Caladon/SkillsControl.tsx` | cached lists, active skill | poll, create, update, delete, choose | store | patched caches, read-modify-write, a proxy that ended | caches agree with the store; polling catches up |
| Local search `O/data-provider/Search` | pages | search, next page | store | full pages, ties | every hit that does not tie is listed once |
| Relay shim `web-client/shim/src` | cookie, model list | relay, stubs, collateral, static files | gateway, Intel's service, browser | timers, header stripping, route order, overlapping fetches | an unlock ends; cookies stay; data is never a page; a fresh list |
| Unlock screen `O/components/Auth/CaladonUnlock.tsx` | mode, phase, seeds | create, restore, confirm, retry, back | client SDK | retries after every kind of failure | unlocked only by an accepted handshake |
| Attestation verifier `caladon-core/src/attestation`, `web-client/caladon/src/collateral.ts` | none | quote, collateral, verdict | handshake | many checks, one fail-closed verdict; DER lengths | the master key leaves only on sound, bound evidence |
| Seed authentication, tool broker, ratchet, transcript store | - | - | - | freshness window, egress decision, skipped keys, appends | not modelled |
| Primitives, Apple client, inference policy client, deployment scripts, keep-warm timer | - | - | - | - | left out, see section 8 |

`PROJECT.json` lists the hazards: each line of code at which an order of steps
that no test exercises could go wrong, and the properties that would notice.

## 2. Modules

| Module | Models | Extends |
|---|---|---|
| `SessionChannel` | client handshake, session manager, sealed turn, relay, restart | - |
| `MCSessionChannel` | the two ownership tables of its instances | `SessionChannel` |
| `SessionChannelProofs` | its theorems | `SessionChannel` |
| `DeviceIdentity` | one browser tab: unlock, lock, store proxy, submissions with subagents, ingestion | - |
| `DeviceIdentityProofs` | its theorems | `DeviceIdentity` |
| `AccountRegistry` | registry, file, flush, crash | - |
| `ModelCatalog` | the cached catalog and its callers | - |
| `TurnRouting` | the provider half of a chat turn, over the catalog | `ModelCatalog` |
| `MCTurnRouting` | lists and settings of its instances | `TurnRouting` |
| `GatewayProofs` | the theorems about registry, catalog and routing | `AccountRegistry`, `TurnRouting` |
| `StoreTables` | the tables, statements, triggers and queries of the store | - |
| `DeviceStore` | store proxy, worker and encrypted files | `StoreTables`; `INSTANCE StoreSpec` |
| `StoreSpec` | what the store promises its callers | - |
| `MCDeviceStore` | the requests of its instance | `DeviceStore` |
| `DeviceStoreProofs` | its theorems | `DeviceStore` |
| `ChatTurn` | a turn from the open stream to the stored reply | - |
| `ChatTurnProofs` | its theorems | `ChatTurn` |
| `RagPipeline`, `MCRagPipeline` | documents, embed worker, index, retrieval | - |
| `RagPipelineProofs` | its theorems | `RagPipeline` |
| `ConversationCache` | sidebar and messages over the store | - |
| `LibraryCache` | agents, memories, skills over the store | - |
| `ModelPicker` | the shim's cached model list | - |
| `MCSurfaces` | the three above as one run | `ConversationCache`; `INSTANCE` of the others |
| `SurfacesProofs` | the theorems about conversations, library and picker | `MCSurfaces` |
| `FrontDoor` | unlock screen, handshake, verification, relay | - |
| `FrontDoorProofs` | its theorems | `FrontDoor` |
| `Chunker`, `StoredRows`, `ShimRoutes`, `PckCertificate` | algorithms as functions | - |
| `MCAlgorithms` | their inputs and the properties of their results | the four |

An action is what the code runs between two awaits (or, in the registry, between
two system calls). An operator whose comment starts with "Mutant:" is a plausible
bug: the definition below it with one guard, step or check changed. Replacing the
one by the other must break the property that `PROJECT.json` names beside it.

### SessionChannel

`sessions[a]` is `SessionManager._sessions`, `cvm` numbers the gateway's
processes and so their key pairs. `dev[d]` is a device's client: its phase, the
number of its ephemeral key and the session key it holds. Requests and answers
are sets of messages, so they arrive in any order or not at all. A session key is
the pair of public keys that it is derived from, an envelope is what its AAD and
AEAD bind: key, account, purpose and content. `StartHandshake`,
`EstablishSession` and `SessionEstablished` are the three stretches of
`handshake()`; `Abandon` is lock, reload and every failure; `Attest`,
`Establish` and `Chat` are the handlers, `SealDelta` and `EndReply` the reply
stream; `Restart` replaces the process. With `RelayFaithful = FALSE` the relay
pairs any signed header with any body in flight, which the signature (method,
path, time) permits.

### DeviceIdentity

A seed stands for its identity, account and store key, a session key for the
unlock that agreed it. `client`, `ident`, `hs` are the module variables of
`lib/caladon`; `auth` the authenticated user; `att[u]` one run of
`AuthContext.unlock`. Store proxy and RAG index are numbered by `gen`, which
`Lock` increments: code that captured a proxy keeps its number, code that asks
`getStoreProxy()` after an await gets the new one. That difference is what most
properties depend on. `turn[t]` follows `setup()` through retrieval, memories,
skill, agent and subagents to `Send`; `parts` is the set of stores whose content
is in the prompt. `doc[d]` follows `ingestOne`. `Overlap` says whether an unlock
may start while another one is in flight: the login screen hides its buttons
during an unlock, but a screen that is mounted again has forgotten it. Two history
variables keep track of that case: `mixed` is true from an unlock that begins while
another is in flight until the tab is locked with none in flight, `mixedTurns` has
the submissions that were under way meanwhile. What a mixed tab does is modelled
like everything else; the properties say that such an overlap is the only way to
mix identities, and that the lock ends it.

### AccountRegistry

`registryCache`, `disk` and `tmp` are the dictionary, the file and the temporary file;
`_flush` is three steps (truncate, write, rename), each of which the system may
refuse (`FlushFails`, answered 500) and between which the process may die.
`created` and `confirmed` record the accounts that were answered 201 and 200.
A crash is the death of the process: the file system keeps what was written, as
the code assumes (it does not sync).

### ModelCatalog and TurnRouting

`call[c]` is one run of `fetch_all_models`: the clock and the cache are read in
`FetchAll`, the provider's list is fixed in `Served`, and the cache is written in
`Fetched` under the time of the question. A transport error returns the entry of
before the await; a malformed entry raises. `turn[t]` is the coroutine `gen()`:
report, ENFORCE decision, routing (`Route`, `IsAttested`, `IsKnown`), one
completion or the tool loop, or the Letta agent. Callers that are not turns are
model pickers (`GET /v1/models`).

### StoreTables, DeviceStore and StoreSpec

`StoreTables` is the schema and the SQL: a statement is a record, `Exec` applies
one (with its cascades and index triggers), a request is a sequence of them.
`DeviceStore` adds the actors. `proxy` has the `ready` promise and the calls that
await it, `wk` the worker with its promise chain (`queue`), its open connection
and the answers it has posted, `file[k]` the file of each identity. INIT is one
action per await (`InitLoad`, `InitOpen`, `InitRead`, `InitReopen`, `InitReread`,
`InitSchema`), each with its failures (deleting an unreadable file may fail too,
and is then followed by the failure of INIT or by a read that succeeds); a write is `StartWrite` and `FinishWrite`,
so that `Terminate` (a lock, a page that goes away) can come in between. The
journal is kept in memory, hence what such a write leaves is some of its
statements, or a file that can no longer be read.

`StoreSpec` knows none of this: `session`, `saved` and `call`, and one step
`Apply` in which a call takes effect. The refinement mapping shows the contents
without row ids, time stamps and index, a session from the moment INIT has been
answered, and a call as applied once it has been served. `AtomicStore` is
`Abstract!Spec`.

### ChatTurn

One submission from `stream()` on. A network chunk is a prefix of what the gateway
still sends (`Chunk`); its events are dispatched one after the other (`Listener`)
and nothing else runs in between. Their handlers' awaits are microtasks
(`OpenDelta`, `Finalise`, `Resign`), which run when the chunk is dispatched and
before anything else (`Quiet`). `sess` numbers
the session, `store` is the current proxy with the writes that await its `ready`,
`rows` what is in the files, `submitting` the atom that blocks the composer. The
gateway's replies (`Shapes`, `Reply`) are those that `SessionChannel` and
`TurnRouting` allow: some tool steps and then the answer, or the deltas of an agent,
with one end. A delta may be one that does not open: a tool step whose JSON was cut
at 4000 characters (`cut`), or any delta from some point on, because another device
of the account has established its session meanwhile (key 0). The client drops
either without a word and goes on.

### RagPipeline

Three event loops (tab, store worker, embed worker) that exchange messages in
order. Operators on the tab's record (`HydrateRagIndex`, `Embedded`, `Stored`,
`Dropped`, ...) are the code between two awaits; actions take a message and apply
them. Hydrates are numbered, because who waits for which one, and which one is
cached in `hydratePromise`, decides what the index ends up with.

### ConversationCache, LibraryCache, ModelPicker

Each is a cache over something slower. The first two use the store as
`DeviceStore` promises it: calls and answers in order, each call atomic, all gone
at a lock. A library row is its fields; `agentToStored` and `storedToAgent`, through
which an agent passes on its way, and the defaults they fill in are left out.
`live` is the turn being streamed, `loop` the effect that re-asserts the seed, `gap`
the three ways in which the seed misses the list. `panel` picks the table a behaviour is about; `wanted` and `crossed`
record what the user asked for and which mutations overlapped. `ModelPicker`
keeps `published[t]`, the lists of each moment, to say how old an answer is.
`MCSurfaces` runs them side by side: a behaviour is of one of the three, since
they share no state.

### FrontDoor

`build` is what the bundle was configured with, `screen` the unlock screen, `hs`
one handshake of the SDK, `req` its request inside the shim, with the timer.
Evidence is a claim, what the quote is bound to, and a set of `Faults`;
`VerifyQuote` is the decision of `verify_quote` with the order of its reasons.
Upstreams answer anything, break off or stay silent, before or after the headers.

### Chunker, StoredRows, ShimRoutes, PckCertificate

Functions. A document is words with lengths, and chunks are sequences of letters
`<<word, n>>`, so a property can say what was kept. `StoredRows` has every
conversion between messages, conversations and rows, and the walk over search
pages; the content of a message is an array of text, an array with other parts, an
object that is a message itself, or something else. `ShimRoutes` is the table of handlers in the order of registration.
`PckCertificate` works on bytes, as DER does. `MCAlgorithms` computes each of
them on each input and states what must hold of the results. `Chunker` and
`StoredRows` use RECURSIVE operators and have no theorems.

## 3. Runs

Deadlock checking is off in every run but `frontdoor`: a tab, a turn or a process
that has nothing left to do stops, and all counters are bounded.

| Run | Instance | Shows |
|---|---|---|
| `channel_shared` | two devices of one account, two handshakes each, one restart, one turn of up to two deltas | `LostOnlyIfReplaced`, `InstallsFreshKeys`, `TurnEnds`: a reply is lost only to a replaced session, keys are not reinstalled, turns end |
| `channel_relay` | two accounts, unfaithful relay, two turns, one restart | `SessionOwnership`, `TurnConfidential` |
| `identity_relock` | two seeds, two unlocks that may overlap, one turn with up to two subagents, one document | `TabIsOneIdentity` (`StoreMatchesIdentity`, `SessionMatchesIdentity` unless mixed), `SentAsAuthor`, `SubmissionEnds` |
| `registry_crash` | three accounts, two keys, two crashes | `NeverTorn`, `CreatedIsDurable`, `RecordsPersist` |
| `routing_turn` | a turn and a picker, one deployment of each kind, lists that are empty or full, TTL 1, clock to 2, two tool steps | `StreamInOrder` (`RejectedIsSilent`, `OneTerminalEvent`), `RoutedAsAllowed` (`CloudOnlyIfAsked`, `RoutedWasPublished`), `CacheFresh`, `TurnEnds` |
| `store_atomic` | one identity, two calls at a time, every request type, four calls or workers in all | `AtomicStore` (refinement), `TablesSound` (`IndexMatchesMessages`, `MessagesHaveConversation`, `PagesMissOnlyTies`), `NoCallForgotten` |
| `chat_stream` | two seeds, three unlocks, one turn, up to three deltas a stream | `StoredAsOpened`, `TurnsOfOwner`, `SilentAfterCleanup`, `TurnSettles` |
| `rag_index` | two documents (one of two batches) beside an old one, two prompts | `DocumentsAgree` (`IndexTracksStore`, `AllOrNothing`), `RemovedNotUsed`, `NobodyForgotten` |
| `surfaces` | three conversations, one stored, two turns, forks or imports, two ticks; two library ids, two fields, two edits; two unlocks; two picker calls, three lists, TTL 1, clock to 2 | `SidebarKept` (`SeedSurvives`), `LiveWins`, `LibraryAgrees` (`UpdatesMerge`, `CachesAgree`, `ActiveIsStored`), `PollsCatchUp`, `PickerFresh` |
| `frontdoor` | every build, two handshakes, one thing wrong with each evidence | `OnlyOnEvidence` (`FailClosed`, `UnlockedIsAccepted`), `CookiesStay`, `UnlockSettles` |
| `algorithms` | every document of up to four words, every message and row shape, up to five hits, 33 paths times methods and origins, certificates with lengths around 128 and 256 | `ChunkingSound` (`ChunksFit`, `WordsWhole`), `RowsFaithful` (`MessagesSurvive`, `IdsAgree`), `AllHitsPaged`, `RoutesAnswer` (`PagesAreNotData`, `BootAnswered`), `FmspcFound` |
| `identity_rows` | two seeds, two unlocks, one document | the violation of `RowsOfOwner`, below |

Each run of a component but `channel_relay` also checks its type invariant, by
itself or as a conjunct of another property. Names in parentheses are the parts of
the invariant before them.

Why the bounds are enough: two devices are what it takes to replace a session
under another one, and the second handshake of a device what it takes to meet an
old answer; one restart separates old and new keys. Two unlocks let a turn survive
one change of hands, or overlap. A third allows A, B and A again, and an overlap
before or after a change of hands; it is too large for a run and was checked by
hand: with `Overlap = TRUE`, `MaxUnlocks = 3`, no subagent and no document the
invariants hold in 14,981,837 states, with `Overlap = FALSE` and `MaxUnlocks = 3`
all three properties in 1,268,187. In `chat_stream` three unlocks allow A, B and A
again; two turns in one tab (`MaxDeltas = 1`, `MaxUnlocks = 2`) were checked by hand
in 2,250,267 states.
Two subagents exercise the loop's continuation, two tool steps the limit of the
loop. A clock that ticks twice while an answer is late lets an entry be written
under an older time; turn and picker interact only through the cache, so two
callers meet every order of its reads and writes. Two calls at a time are all
that the store's promise chain can interleave with a lock; four in all are a
worker, a write, another one over it and a query or a second worker that finds
what the first one left. Identities have files of their own, so one is enough.
Three deltas and a `done` have every split into chunks in which a delta is opened
before, with and after the end. Two documents, one of them with two batches, make
hydrates overlap with each other and with a removal; two prompts fall before and
after it. Two edits are what it takes to overlap. Two handshakes let everything of
the first one reach the second. The chunker's lengths lie below, at and above the
overlap, the budget and both together. For the properties that
section 5 proves, the bounds do not matter.

### Disagreements between code and text

`identity_rows` is a run: it violates what `store.worker.ts:113` says (identities
on one device never collide), because an ingestion that spans a lock looks up the
store proxy after the embedding and writes A's document into B's store.

The others are kept as properties that no run checks. Adding the property to the
cfg named (as an INVARIANT, or a PROPERTY where marked) reproduces it.

| Property, where | The text | What the code does |
|---|---|---|
| `OverwriteIsHarmless`, `SessionChannel_shared.cfg` | a last-write-wins overwrite of a session is harmless (`session.py:119`) | the WMK is the same but the session key is not: the other device's prompt is refused and its running reply becomes unreadable |
| `StoreMatchesIdentity`, `DeviceIdentity_relock.cfg` | the next unlock gets a fresh worker (`AuthContext.tsx:158`) | two overlapping unlocks share a proxy, and `openStore` is a no-op for the second: its identity reads and writes the first one's store until the next lock |
| `SubagentsAsAuthor`, `DeviceIdentity_relock.cfg` | after a re-unlock with another seed the store of the other identity cannot be read (`store/client.ts:364`) | a submission that outlives two locks posts the memories it read in between to subagents, before it looks at `cancelled` |
| `ConfirmedIsDurable`, `AccountRegistry_crash.cfg` | registration is idempotent, 201/200 (`gateway-api.md:30`) | after a failed flush the retry is answered 200 from the cache (`accounts.py:83`), and the account is gone after a restart |
| `ReceiptReflectsServing`, `TurnRouting_turn.cfg` | the receipt reflects the serving enclave (`chat.py:143`) | the receipt and the ENFORCE decision are about the requested model, the fallback serves the turn with the default |
| `StoredReplyIsWhole`, `ChatTurn_stream.cfg` | each tool step is surfaced to the client (`chat.py:190`); `done` can await all deltas "before it finalizes/persists" (`useSSE.ts:400-401`) | a tool step of more than 4000 characters is cut (`chat.py:195`) and does not parse (`useSSE.ts:428`), and deltas that were sealed after another device's establish do not open: both are dropped and `done` stores the rest |
| `SpinnerMeansWork`, `ChatTurn_stream.cfg` | an `error` ends the stream (`gateway-api.md:40`), upon which `errorHandler` frees the composer | an `error` that shares a chunk with a delta is handled first; the delta's link of the chain then sets `isSubmitting` again, and nothing of this turn resets it (`TurnSettles` excludes it by name, with `LateDelta`) |
| `NeverAGate` (PROPERTY), `RagPipeline_index.cfg` | RAG is an enhancement, never a gate (`retrieval.ts:315`) | an embed worker that failed to load stays cached (`retrieval.ts:77-81`); later requests are posted to it and never answered, so a prompt over a non-empty index waits for ever |
| `ListOfOwner`, `MCSurfaces.cfg` with a second seed in `Seeds` | after a lock another seed cannot read the previous identity's store (`store/client.ts:364`) | the React Query cache is not cleared on lock: the sidebar still lists what was seeded |
| `SeedAlwaysSurvives`, `MCSurfaces.cfg` | the seed is re-asserted so that the empty fetch cannot leave the sidebar blank (`useConversationList.ts:161-162`) | three cases are left (`gap`): an unlock over a list that is cached already is not seeded; a turn or fork that ends while the list is the empty answer fills it, which ends the seeding; an answer after the window empties the list for good |
| `TextIsLossless`, `MCAlgorithms.cfg` | `text` is lossless for text-only messages (`useHydrateConversation.ts:73`) | an import with text `""` and text content, or with content that is no array (`store.worker.ts:554`), is stored without its words and shown blank |
| `ForkRendersAlike`, `MCAlgorithms.cfg` | a forked thread renders identically to its source (`useForkConversation.ts:73-75`) | a fork attaches text-only content again, which renders blank, and shows the columns of a row whose content is a whole message |
| `TiesAreListed`, `MCAlgorithms.cfg` | the time in the cursor disambiguates ties of rank (`useLocalSearchQuery.ts:22-25`) | `decodeRankCursor` drops it, so hits that tie with the last one of a page are never listed |

Further observations made while modelling, none of them a run:

- Store: `types.ts:138` says that deleting a conversation cascades to its vectors,
  `schema.sql.ts` says why it does not. An import accepts ChatGPT's
  `mapping` shape, of which the worker stores an empty conversation. A message
  whose content has a `messageId` is hydrated as that content, with its ids and
  without the columns of its row.
- RAG: a parser whose import failed is never imported again; the promise of a
  failed hydrate that was not forced stays cached; a hard cut may glue two words
  (`chunker.ts:83-88`).
- Conversations: the read-back of a fork overwrites a turn sent into the copy
  meanwhile (excluded in `LiveWins`); a fork's title is lost after a reload.
- Library: updates of an agent that overlap lose fields or bring back a deleted
  agent (`crossed`); the default list key, which has a limit, is not patched
  although `queries.ts:86` says it is; deleting the active skill while choosing
  another clears the choice (`ActiveIsStored` says only that an active skill is
  stored).
- Search: a page size above 100 ends early.
- Shim: the timer is cleared at the headers (`proxy.ts:112`), so a body that stops
  has no limit although `config.ts:41` says only chat is exempt (`UnlockSettles`
  excludes it by name); a failed `/api/models` keeps the old list however old; the
  roles stub grants AGENTS.USE, the comment at `server.ts:263-266` says it does not.
- An SGX extension marked critical is not found; the handshake then fails closed.
- The `receipt` listener of `useSSE` is empty though `gateway-api.md:39-40` says
  that the client re-verifies.
- A failed catalog fetch returns the entry it read before its await, perhaps an
  empty list although another call has cached a good one (`models_catalog.py:49`).
  The consequence is a fallback to the default model, which `RoutedWasPublished`
  allows.

## 4. Fairness

`TurnEnds` of `SessionChannel` assumes weak fairness of the gateway's handlers
and replies and of the client's event handling: the event loops resume every
ready coroutine or callback, and a call of the inference provider ends by its
answer or by `inference_timeout`. Handshakes, locks, submissions and restarts are
not fair. `SubmissionEnds` assumes that workers, WebCrypto and fetches answer or
fail, so every step of an unlock, a hydration or a submission that is enabled is
taken; ingestion, `Lock` and new unlocks are not fair. That is more than the code
guarantees of the embed worker: one that failed to load stays cached and never
answers, and a prompt over a non-empty index then waits for ever (`NeverAGate` in
section 3). `SubmissionEnds` is about the store, the session and the subagents, and
holds as long as the embed worker answers. `TurnEnds` of
`TurnRouting` assumes the same of the provider's requests, all of which have
timeouts. Nothing is assumed of the Letta agent, whose stream is read without a
timeout (`letta_client.py:45`): the property does not cover it.

`TurnSettles` says that from some time on every submission is over and the composer
is free, and stays so, except after a late delta. It
assumes that listeners and microtasks run, that a gathered prompt is sent
(`SubmissionEnds`) and that the gateway's reply goes on arriving (`TurnEnds`);
stops, locks and unlocks are not fair. `UnlockSettles` assumes the client's and
the shim's event loops and the shim's timer, and nothing of upstreams or user.
`PollsCatchUp` assumes the interval timer of the polls, the ticks of the wait, the
worker and the event loop; that the tab stays unlocked with its store open is a
premise of the property, not an assumption.

## 5. Proofs

All obligations are discharged by Z3, Zenon and LS4. The only assumptions are the
named `ASSUME`s of the modules, which TLC evaluates on every instance: bounds are
natural numbers; every device has an owner among the accounts; the special values
(no key, no list, no file, no client) differ from the real ones; the default model
and the tool model are attested and ENFORCE mode comes with receipts (`config.py`);
the window in which the sidebar is seeded has a tick; the fallback list of the
picker is none of the gateway's lists; a request to the store has the fields of its
type, its ids and dates are numbers and its lists are finite; documents are finitely
many and each has a batch; the library's ids are finitely many.

No property below is inductive by itself. Each proof module states the inductive
invariant as a conjunction of named parts, which TLC checked on the instance of
the module's run before it was proved, and has one lemma per action or group of
actions.

| Module | Theorems | For any |
|---|---|---|
| `SessionChannelProofs` | `TypeCorrect`, `SessionsOwned`, `TurnsConfidential`, `LossMeansReplaced`, `FreshKeysInstalled` | devices, accounts, turns, handshakes, restarts |
| `DeviceIdentityProofs` | `TabHasOneIdentity`, `PromptsSentAsAuthor` | seeds, unlocks, turns, subagents, documents |
| `GatewayProofs` | `RegistryTypeCorrect`, `StoreLoadable`, `CreatedDurable`, `RecordsPersistent`; `CatalogIsFresh`, `StreamsAreInOrder`, `PromptsAreRoutedAsAllowed` | accounts, keys, crashes; callers, models, lists, deployments, TTL, tool steps, deltas |
| `ChatTurnProofs` | `RepliesAreStoredAsOpened`, `TurnsAreOfTheirOwner`, `CleanupIsFinal` | seeds, turns, unlocks, length of a reply |
| `FrontDoorProofs` | `UnlocksOnlyOnEvidence`, `CookiesAlwaysStay` | seeds, handshakes, faults at once |
| `DeviceStoreProofs` | `CallsAreNeverForgotten`, `TablesStaySound` | identities, calls in flight, workers, requests of the contract |
| `RagPipelineProofs` | `DocumentsAlwaysAgree`, `RemovedNeverUsed`, `NobodyIsForgotten` | documents, their kinds and batches, prompts |
| `SurfacesProofs` | `SidebarIsKept`, `LiveAlwaysWins`, `LibraryAlwaysAgrees`, `PickerIsFresh` | seeds, conversations, turns, ticks, unlocks; panels, library ids, fields, edits; picker calls, lists, TTL |

**SessionChannel.** The invariant has three layers.

1. Types, with `KeyHeld` (a client that has posted its WMK holds the key of its
   current ephemeral) and `Running` (a running reply's account has a session:
   only a restart removes one, and it ends the reply).
2. `OwnInv` for any relay: `NetHonest` (every message in flight is sealed by a
   device for its own account, with the content its purpose says) and
   `PostedOnce` (a turn is posted once, and nothing is streamed before its
   request is served). The AAD check then forces header, body and key into one
   account, whatever is paired.
3. `FaithInv` for the faithful relay: `KeyLife` (a key that is waiting, or
   answered, or in use, is in exactly one of these stages, so an establish can
   only install a key that no device chats under), `TurnBound` (a request
   in flight and a running reply belong to the account and key of their turn)
   and `LossInv` (a turn that will lose text, because of a delta or a refusal
   already in its stream, has had its session replaced). A replaced key stays
   replaced because of `KeyLife`.

**AccountRegistry.** `Covers` (the cache of a running process repeats every record
of the store, so rewriting the whole file loses none) and `Flushing` (what is
about to be renamed is the cache, and holds the new account).

**DeviceIdentity** (`IInv`). Nothing is assumed of `Overlap`. `TabInv` is the
invariant of a tab that is not mixed. In it, `AttSound` ties a running unlock to the
shared client (it holds this unlock's seed, and the gateway's session is this
unlock's once it is established), `TabSound` says that one unlock runs and the
identity is kept only by the unlock that opens its store or by the authenticated
user, `StoreSound` that only the current generation of proxy and index is in use and
that it is the user's. `TurnSound` is why a prompt is its author's: until a lock
cancels it the tab has not changed hands, and a submission that delegates does so
with the proxy in which it found its agent, which a lock terminates. `Basic` holds
of every tab, and is why a lock with no unlock in flight makes a mixed tab whole
(`LockCancels`): the lock drops client, identity, session and user, begins a
generation that nothing has used, and cancels every submission. `Marked` says that a
submission which was not under way in a mixed tab had not begun, or was cancelled,
so `PromptsSentAsAuthor` excepts no other than those of `mixedTurns`. Of these it
would be false: the second of two overlapping unlocks sets identity and session and
cancels nothing.

**ModelCatalog and TurnRouting** (`CatalogInv`, `RoutingInv`). The catalog's part
drops the time limit of `CacheFresh`: an answer on its way, and an entry of the
cache, was published at or after the time it is stamped with, whatever overtakes
it. For a turn, `RoutingInv` says at every await what the lookups before it have
established of the chosen model, and that the stream has no end yet.

**ChatTurn** (`ChatInv`). `StreamSound`: what is in flight belongs to the stream
that is open, an end comes last and a 401 is a whole answer. `InOrder`: opened,
waiting, dispatched and coming deltas are each in order and follow one another.
`OwnerSound`: until a submission is cleaned up, what was opened and what still opens
of the chain is what opens of all that was dispatched, unless the tab is locked
(`OpenedSound`); after that it has nothing left to run. `ControlSound` bounds streams
by retries and says that a re-signing submission has received nothing. `RowSound`: a
row is what opened of the reply of a turn that is over (`TextSound`). No delta is
assumed to open. The action property `CleanupIsFinal` follows from the same
invariant.

**FrontDoor** (`DoorInv`). `ClientSound` (the client has the build's policy and
pins, whichever unlock made it), `ControlSound` (the screen, the handshake and the
request in flight agree), `EvidenceSound` (the evidence for which collateral is
being fetched answers this handshake's challenge, and the key that was sent was
sent by it), `RequestSound` and `JarSound`. `VerifyQuote` then decides with exactly
the facts that `FailClosed` names.

**DeviceStore** (`StoreInv`). `WorkerSound` (a worker's first request is INIT;
`ready` is pending exactly until it is answered; a call is queued or answered, and
once) and `CallsSound` (each call is in exactly the place its status names:
waiters, queue or answers). The contents of the files are arbitrary in this proof.

`TablesStaySound` is about these contents, and adds `TablesInv` to `StoreInv`: the
open connection and every file are `Sound` (`Indexed`, one index entry per message;
`Numbered`, row ids are finitely many numbers, hence the next one is fresh; `Belong`;
`Dated`), and what is being written is a write request of the contract.

1. Each kind of statement keeps `Sound`, with its triggers and cascades
   (`StepSound`). The hard ones replace a message, which keeps or moves its row id,
   and delete a conversation, which must take exactly its messages' entries along.
2. So does every list of statements, and every prefix of one, which is what a
   termination leaves (`ExecAllSound`, `RunSound`).
3. Every write request runs a list of statements (`StatementsOf`): for a fork this
   is that the lineage of a message is a finite list (`LineageSeq`), for an import
   that a concatenation of lists is one (`StmtsFlat`).
4. The walk through the pages of a sound database has, after each page, listed no
   conversation twice and left out nothing above its cursor but ties (`Seen`,
   `NextPageSeen`, `WalkSees`).

Steps 2 to 4 are inductions over data. Their form here is `FirstFailure`: if a claim
fails for some number there is a least such number (`Least`, from the
well-foundedness of the naturals), and the claim holds just before it. `Iterates`
gives the recursive functions that such claims are about.

**RagPipeline** (`RagInv`). `StoreQueues` and `EmbedQueues`: a message has a key,
which says what it asks for, and no two messages under way have the same.
`FilesSound` and `SendSound`: a document, or a prompt, is at a step exactly when the
message of this step is under way, so whoever waits is answered
(`NobodyIsForgotten`). `RowsSound` says by a document's step whether it is stored.
`GoneSound`: a removed row is in no list that was read after its removal, hence once
the removal has ended no late hydrate brings it back. `IndexSound`: the last list
that was read shows the store unless a write was served after it, and that write
makes the tab read again. `DropsSound`: a document waits in one list of uploads,
whose first alone has begun.

**ConversationCache** (`ConvInv`). `OrderSound`: the page that the effect asks for
is the first thing the store is asked after an unlock, so its answer precedes every
other one. `SeedSound`: what that page listed is still stored and is part of every
later page, so the list of an import does not hide it; and, but for
the three cases of `gap`, the list is empty or shows it during the window and shows it
afterwards. `LiveWins` is an action property and needs the types.

**LibraryCache** (`LibInv`). All but one part is about one id `i` whose mutations have
not crossed. `Alone`: at most one mutation of `i` is under way. `Wants`: what was asked
for is stored, or is what that mutation makes of what is stored; an update that has
read its row holds what is still stored. `AgentLists`: a list, shown or on its way,
shows `i` as it is stored, or an answer behind it patches `i`, and it then finds `i`
exactly as the mutation did, so a row is put in front only of a list without it.
`ReadLists`: a list of memories or skills shows the table, or a mutation behind it has
it read again. `Details`: a cached agent is stored, or an answer behind it replaces it.
`Chosen`: the active skill is stored, or a put or removal of it is under way, and the
removal remembers that it was active. `Reads` pairs each answer with those behind it.
That the store's answer lists each row once uses the theorems about finite sets
(`TableShows`, `ShowsTable`), what is kept of a list the induction above (`KeptEls`).

**ModelPicker** (`PickerInv`). `PickerHistory`: a list that is cached or on its way
was current at or after its stamp; `PickerAnswers` is the property with its witness
in the past, so that time does not touch it. `MCSurfaces` runs one of its surfaces
and leaves the others alone, so its steps are steps of each surface or stutter.

## 6. Only model-checked

- Liveness (`TurnEnds` twice, `SubmissionEnds`, `TurnSettles`, `UnlockSettles`,
  `PollsCatchUp`): the prover handles neither fairness nor ENABLED.
- `AtomicStore`: that the statements of a request amount to the one step that
  `StoreSpec` gives it. The proofs above say that the tables stay sound, not which
  rows a fork or an import leaves in them; they also hold for more requests than the
  refinement does (one whose ids collide with those that `randomId` makes).
- `ChunkingSound`, `RowsFaithful`, `AllHitsPaged`, `RoutesAnswer`, `FmspcFound`:
  statements about what algorithms compute on given inputs, most of them with
  recursive definitions.

## 7. Plan

1. Proof of the refinement of `StoreSpec`, first without forks and imports, with
   `FirstFailure` for the rest.
2. `EgressBroker` and seed authentication: the decision of the tool broker with
   its redirects, and the freshness window.
3. Ratchet, padding and the seed codec; the last two as operators checked against
   reference definitions.

## 8. Not modelled, and why

- Cryptographic primitives: modelled by what they distinguish (key, account,
  purpose); that XChaCha20-Poly1305, X25519 and HKDF do so is assumed.
- Parsing, embedding, ranking, rendering, formatting: data processing without
  shared state (chunking is modelled, ranking may return any documents).
- Passkey unlock and registration, `extractCa`, the CSP header, `buildContextBlock`,
  the hooks that duplicate, revert or decorate an agent, and the artifact renderer.
- The store's v1 to v2 migration and its tables `files`, `chunks` and
  `embeddings`, which nothing writes.
- Upstream LibreChat code that the overlay repeats (`data-provider/src/config.ts`,
  `parsers.ts`, `common/types.ts`) and the generated `caladon_core.js`.
- The content of a report, a quote, a prompt or a list entry: an outcome.
- The disconnection of a client in mid-turn: the coroutine is dropped and leaves
  no state behind.
- `SessionManager.end` and `wmk_for`, and the append of the transcript store:
  nothing in the gateway calls them.
- The Apple client, the stand-alone inference client, the deployment, build and
  transparency scripts, and the keep-warm timer.
