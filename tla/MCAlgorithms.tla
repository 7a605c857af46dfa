---------------------------- MODULE MCAlgorithms ----------------------------
(***************************************************************************)
(* The pure algorithms of the client and the shim, each run once on every  *)
(* input of a bounded set: a behaviour picks a job and computes its result.*)
(***************************************************************************)
EXTENDS Chunker, StoredRows, ShimRoutes

OidSgx == <<1, 2, 840, 113741, 1, 13, 1>>
OidFmspc == Append(OidSgx, 4)

Pck == INSTANCE PckCertificate

VARIABLES
    job,        \* [kind, in]
    result      \* <<>>, then <<what the algorithm computed>>

Job(kind, inputs) == {[kind |-> kind, in |-> i] : i \in inputs}

-----------------------------------------------------------------------------
(* Documents: up to MaxWords words and what separates them. *)

MaxWords == 4
Lengths == {1, 3, 6, 12}

Docs ==
    LET Glue(doc, sep, n) ==
            LET p == Len(doc)
                l == Len(doc[p]) IN
            CASE sep = "blank" -> [doc EXCEPT ![p][l] = Append(@, n)]
              [] sep = "line" -> [doc EXCEPT ![p] = Append(@, <<n>>)]
              [] sep = "paragraph" -> Append(doc, <<<<n>>>>)
        Built(first, rest) == FoldLeft(LAMBDA d, r : Glue(d, r[1], r[2]), <<<<<<first>>>>>>, rest)
    IN UNION {{Built(n, rest) : n \in Lengths,
                                rest \in [1..k -> {"blank", "line", "paragraph"} \X Lengths]} :
              k \in 0..(MaxWords - 1)}

WordLengths(doc) == FlattenSeq([p \in DOMAIN doc |-> FlattenSeq(doc[p])])

(* Messages of a turn: the reply carries its words as text and as content. *)
(* An import's text and content are anything an export holds.              *)
Messages ==
    [messageId : {None, "m1"}, parentMessageId : {None, "m0"},
     isCreatedByUser : {None} \union BOOLEAN, sender : {None, "User", "assistant"},
     text : {None, "", "words"}, content : {None, "text", "rich", "message", "other"},
     model : {None, "slug"}]

Sources == {"turn", "import"}

TurnMessage(m) ==
    /\ m.messageId # None /\ m.text # None /\ m.sender = None
    /\ m.content \in {None, "text", "rich"}
    /\ m.content = "text" => m.text = "words"

MCWhole ==
    [messageId |-> "m9", conversationId |-> "c9", parentMessageId |-> "m8",
     isCreatedByUser |-> FALSE, text |-> "words", content |-> None, model |-> None]

Conversations ==
    [conversationId : {None, "c1"}, id : {None, "c2"}, title : {None, "title"}]

(* Hits of a search, best first, with ties; the worker pages by at most 3. *)
MostHits == 3
Searches ==
    [hits : {h \in UNION {[1..n -> 1..5] : n \in 0..5} :
                \A i \in 1..(Len(h) - 1) : h[i] <= h[i + 1]},
     limit : 1..MostHits]

(* Requests, to a shim with the bundle mounted and without. *)
BootQueries ==
    {<<"api", "config">>, <<"api", "user">>, <<"api", "roles", "user">>, <<"api", "endpoints">>,
     <<"api", "models">>, <<"api", "search", "enable">>, <<"api", "banner">>} \union Range(EmptyLists)

Paths ==
    BootQueries \union
    {<<>>, <<"login">>, <<"c", "new">>, <<"health">>, <<"assets", "index.js">>, <<"index.html">>,
     <<"api">>, <<"api", "">>, <<"api", "nothing">>, <<"api", "user", "nothing">>, <<"api", "roles", "">>,
     <<"api", "caladon">>, <<"api", "caladon", "chat">>, <<"api", "caladon", "nothing">>,
     <<"api", "caladon", "chat", "more">>,
     <<"pcs-collateral">>, <<"pcs-collateral", "root-ca-crl">>, <<"pcs-collateral", "tcb">>,
     <<"models", "minilm.onnx">>, <<"models", "missing.json">>, <<"ort", "ort.wasm">>,
     <<"ort", "missing.wasm">>, <<"models">>}

MCForkOf(title) == <<"fork of", title>>

MCFiles == {<<"index.html">>, <<"assets", "index.js">>, <<"models", "minilm.onnx">>, <<"ort", "ort.wasm">>}

Requests ==
    [method : {"GET", "POST", "OPTIONS"}, path : Paths, origin : {"spa", "elsewhere"},
     cookie : BOOLEAN, static : BOOLEAN]

(* Quotes: a leaf with the SGX extension somewhere in it, its issuer, and  *)
(* data around them.  The other entries of the extension are as long as it *)
(* takes to move its length past 127 and 255.                              *)
Tlv(tag, content) ==
    LET n == Len(content)
        length == IF n < 128 THEN <<n>> ELSE IF n < 256 THEN <<129, n>>
                  ELSE <<130, n \div 256, n % 256>>
    IN <<tag>> \o length \o content

SgxBytes == <<42, 134, 72, 134, 248, 77, 1, 13, 1>>
Fmspc == <<48, 96, 106, 0, 0, 4>>

Leaf(ppid, critical, first) ==
    LET Entry(k, value) == Tlv(48, Tlv(6, Append(SgxBytes, k)) \o value)
        other == Entry(1, Tlv(4, [i \in 1..ppid |-> 6]))
        fmspc == Entry(4, Tlv(4, Fmspc))
        sgx == Tlv(48, IF first THEN fmspc \o other ELSE other \o fmspc)
        flag == IF critical THEN Tlv(1, <<255>>) ELSE <<>> IN
    Tlv(48, Tlv(2, <<7>>) \o Tlv(48, Tlv(6, SgxBytes) \o flag \o Tlv(4, sgx)))

Quotes ==
    [ppid : {0, 2, 16, 80, 90, 91, 92, 93, 94, 95, 96, 127, 128, 200} \union 213..230 \union {300},
     critical : BOOLEAN, first : BOOLEAN, issuers : 0..1, around : BOOLEAN]

Quote(q) ==
    LET piece(is, der) == <<[is |-> is, der |-> der]>>
        Pem(der) == piece("begin", <<>>) \o piece("cert", der) \o piece("end", <<>>)
        data == IF q.around THEN piece("other", <<6, 9>>) ELSE <<>>
    IN data \o Pem(Leaf(q.ppid, q.critical, q.first))
       \o (IF q.issuers = 1 THEN Pem(Leaf(1, FALSE, TRUE)) ELSE <<>>) \o data

-----------------------------------------------------------------------------
Init ==
    /\ \/ job \in Job("chunk", Docs)
       \/ job \in Job("message", [from : Sources, raw : Messages])
       \/ job \in Job("conversation", [from : Sources \union {"broken"}, raw : Conversations])
       \/ job \in Job("search", Searches)
       \/ job \in Job("route", Requests)
       \/ job \in Job("quote", Quotes)
    /\ result = <<>>

Todo(kind) == result = <<>> /\ job.kind = kind /\ UNCHANGED job

Chunk == Todo("chunk") /\ result' = <<ChunkText(job.in)>>

\* A message is stored, read back, and what is read is stored again.
StoreMessage ==
    /\ Todo("message")
    /\ LET row == IF job.in.from = "turn" THEN ToStoredMessage(job.in.raw, "c1")
                  ELSE ToImportedMessage(job.in.raw, "c1", "new") IN
       /\ job.in.from = "turn" => TurnMessage(job.in.raw)
       /\ result' = <<[row |-> row, back |-> HydratedMessage(row), fork |-> ForkedMessage(row),
                       again |-> HydratedMessage(ToStoredMessage(HydratedMessage(row), "c1"))]>>

\* A conversation is stored and forked.
StoreConversation ==
    /\ Todo("conversation")
    /\ LET convo == [conversationId |-> job.in.raw.conversationId, title |-> job.in.raw.title]
           row == CASE job.in.from = "turn" -> PersistedConversation(convo, "c1")
                    [] job.in.from = "import" -> ToImportedConversation(job.in.raw, "new")
                    [] job.in.from = "broken" ->
                         [conversationId |-> "c1", title |-> convo.title, convoJson |-> None] IN
       result' = <<{row, ForkedRow(row, "forked"), ForkedRow(ForkedRow(row, "forked"), "again")}>>

Search == Todo("search") /\ result' = <<Pages(job.in.hits, None, job.in.limit, MostHits)>>

HandleRequest == Todo("route") /\ result' = <<Handle(job.in, job.in.static)>>

ReadQuote == Todo("quote") /\ result' = <<Pck!QuoteFmspc(Quote(job.in))>>

Next == Chunk \/ StoreMessage \/ StoreConversation \/ Search \/ HandleRequest \/ ReadQuote

Spec == Init /\ [][Next]_<<job, result>>

-----------------------------------------------------------------------------
Done(kind) == job.kind = kind /\ result # <<>>

\* chunkText: no chunk overruns the budget of the embedding model, whatever
\* the overlap carried over adds to it, and none is below the minimum.
ChunksFit ==
    Done("chunk") => \A c \in Range(result[1]) : MinChars <= Len(c) /\ Len(c) <= MaxChars

\* chunkText: of a document that is long enough to be kept, nothing is lost
\* where chunks meet: a word no longer than the overlap is whole in some
\* chunk, and every letter of a longer one is in some chunk.
WordsWhole ==
    Done("chunk") =>
        LET lengths == WordLengths(job.in)
            chunks == Range(result[1]) IN
        Len(lengths) > 1 \/ lengths[1] >= MinChars =>
            \A w \in DOMAIN lengths :
                IF lengths[w] <= OverlapChars
                THEN \E c \in chunks : Holds(c, w, lengths[w])
                ELSE \A k \in 1..lengths[w] : \E c \in chunks : <<w, k>> \in Range(c)

\* chunkText: chunks fit the model and together hold the document.
ChunkingSound == ChunksFit /\ WordsWhole

\* toStoredMessage, importChatExport, toTMessage: a message read back from
\* the store, by the chat pane and by a fork alike, is the one that was stored,
\* and storing it again changes nothing more.  It is shown blank only if it
\* has no rich content and its text is empty, or was missing with no array to
\* take it from.  A fork shows it as the chat pane does, unless its content is
\* text only or no array.  A content that has a messageId of its own takes the
\* place of the whole message, which is left out.
MessagesSurvive ==
    Done("message") /\ job.in.raw.content # "message" =>
        LET raw == job.in.raw
            r == result[1] IN
        /\ raw.messageId # None => r.row.messageId = raw.messageId
        /\ \A read \in {r.back, r.fork} :
              /\ read.messageId = r.row.messageId /\ read.conversationId = "c1"
              /\ Or(read.parentMessageId, NoParent) = Or(raw.parentMessageId, NoParent)
              /\ raw.isCreatedByUser # None => read.isCreatedByUser = raw.isCreatedByUser
              /\ read.model = raw.model
              /\ raw.text # None => read.text = raw.text
              /\ raw.content = "rich" => read.content = "rich"
        /\ Rendered(r.back) = "" <=>
              /\ raw.content # "rich"
              /\ raw.text = "" \/ (raw.text = None /\ raw.content # "text")
        /\ raw.content \in {None, "rich"} => Rendered(r.fork) = Rendered(r.back)
        /\ r.again = r.back

\* useHydrateConversation.ts:73: "`text` is lossless for text-only Batch-1": a
\* message that has words in its text or its content is not shown blank.
\* The code does not keep this: see "Disagreements" in the README.
TextIsLossless ==
    Done("message") =>
        LET raw == job.in.raw IN
        raw.text = "words" \/ raw.content \in {"text", "other"} => Rendered(result[1].back) # ""

\* useForkConversation.ts:73-75: the content is restored "so the forked thread
\* renders identically to the source".
\* The code does not keep this: see "Disagreements" in the README.
ForkRendersAlike ==
    Done("message") => Rendered(result[1].fork) = Rendered(result[1].back)

\* toTConversation: whichever way a row came to be, a copy of a copy and an
\* import without an id included, the sidebar, the chat pane, an import and a
\* fork show it under its own id: two conversations never share an entry.
IdsAgree ==
    Done("conversation") =>
        \A row \in result[1] :
            \A read \in {HydratedConversation(row), ListedConversation(row),
                         ImportedConversation(row), ForkedConversation(row)} :
                read.conversationId = row.conversationId

\* What is stored comes back: the messages as they were, the conversations under their ids.
RowsFaithful == MessagesSurvive /\ IdsAgree

\* useLocalSearchQuery: paging lists the hits in order and once, and leaves
\* out only hits that tie with one it lists.
AllHitsPaged ==
    Done("search") =>
        LET Times(s, r) == Cardinality({i \in DOMAIN s : s[i] = r}) IN
        /\ \A i \in 1..(Len(result[1]) - 1) : result[1][i] <= result[1][i + 1]
        /\ \A r \in Range(job.in.hits) : Times(result[1], r) \in 1..Times(job.in.hits, r)
        /\ Range(result[1]) \subseteq Range(job.in.hits)

\* useLocalSearchQuery.ts:22-25: the cursor has the time too, because "`createdAt`
\* disambiguates rank ties across pages": every hit is listed.
\* The code does not keep this: see "Disagreements" in the README.
TiesAreListed == Done("search") => result[1] = job.in.hits

\* server.ts: what asks for data or for a binary asset never gets the page
\* of the app, every other GET does or gets a file, and both come with the
\* headers that isolate the page, which the device store needs to persist.
PagesAreNotData ==
    Done("route") =>
        LET req == job.in
            data == \E dir \in {"api", "pcs-collateral", "models", "ort"} : StartsWith(req.path, dir)
            answer == result[1] IN
        /\ data => answer.by # "page"
        /\ req.static /\ req.method = "GET" /\ ~ data /\ req.path # <<"health">>
              /\ req.path # <<"pcs-collateral">> => answer.by \in {"page", "file"}
        /\ answer.by \in {"page", "file"} => answer.secured

\* server.ts: with a bundle mounted or without, each query of the boot is
\* answered by the shim itself, in JSON and not with a 404 (the banner with
\* nothing), the root CRL as text and not as relayed bytes, and only the
\* gateway's routes set the cookie.
BootAnswered ==
    Done("route") /\ job.in.method = "GET" =>
        LET path == job.in.path
            answer == result[1] IN
        /\ path \in BootQueries =>
              /\ answer.by = "shim" /\ answer.status # 404
              /\ answer.type = (IF path = <<"api", "banner">> THEN "empty" ELSE "json")
        /\ path = <<"pcs-collateral", "root-ca-crl">> => answer.type = "text"
        /\ answer.cookie => StartsWith(path, "api") /\ path[2] = "caladon"

\* server.ts: every request is answered by the handler that it is meant for.
RoutesAnswer == PagesAreNotData /\ BootAnswered

\* extractFmspc: the FMSPC of the leaf is found however long the entries
\* around it are and wherever it stands, and no other value is taken for it.
\* An extension marked critical is not found, and the handshake fails.
FmspcFound ==
    Done("quote") => result[1] = IF job.in.critical THEN None ELSE Fmspc
=============================================================================
