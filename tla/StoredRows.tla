----------------------------- MODULE StoredRows -----------------------------
(***************************************************************************)
(* How conversations and messages are turned into rows of the device store *)
(* and back.  A turn, a fork and an import each write rows their own way;  *)
(* the sidebar, the chat pane, a fork and an import each read them their   *)
(* own way.  A field that is null or undefined is None; the JSON kept in a *)
(* row is a record, or None if it cannot be parsed.                        *)
(***************************************************************************)
EXTENDS Naturals, Sequences

CONSTANTS
    None,
    NoParent,       \* Constants.NO_PARENT
    NewChat,        \* 'New Chat'
    Whole,          \* the message that a content of kind "message" is
    ForkOf(_)       \* the title of a fork

Or(a, b) == IF a = None THEN b ELSE a

-----------------------------------------------------------------------------
(* Messages.  Their content is None or of a kind: an array with "text" parts *)
(* alone or with a "rich" part among them, a "message" (an object that has a *)
(* messageId), or "other", which is neither.  Times are left out: a timestamp*)
(* that cannot be read becomes the time of the write.                        *)

\* toStoredMessage
ToStoredMessage(msg, conversationId) ==
    [messageId |-> msg.messageId, conversationId |-> conversationId,
     parentMessageId |-> msg.parentMessageId, isCreatedByUser |-> msg.isCreatedByUser = TRUE,
     text |-> Or(msg.text, ""), contentJson |-> msg.content, model |-> msg.model]

\* extractText: a rich content may have no text.
ExtractText(content) == IF content = "text" THEN "text of the content" ELSE ""

\* importChatExport: a message without a text has it taken out of its content,
\* if that is an array.
ToImportedMessage(raw, conversationId, newId) ==
    [messageId |-> Or(raw.messageId, newId), conversationId |-> conversationId,
     parentMessageId |-> raw.parentMessageId,
     isCreatedByUser |-> Or(raw.isCreatedByUser, raw.sender = "User"),
     text |-> IF raw.text # None THEN raw.text
              ELSE IF raw.content \in {"text", "rich"} THEN ExtractText(raw.content) ELSE "",
     contentJson |-> raw.content, model |-> raw.model]

\* The message of a row, from its columns.
FromColumns(row, content) ==
    [messageId |-> row.messageId, conversationId |-> row.conversationId,
     parentMessageId |-> Or(row.parentMessageId, NoParent),
     isCreatedByUser |-> row.isCreatedByUser, text |-> row.text,
     content |-> content, model |-> row.model]

\* Mutant: whatever content there is, is attached again.
HydratedMessageAll(row) ==
    IF row.contentJson = "message" THEN Whole ELSE FromColumns(row, row.contentJson)

\* useHydrateConversation: a content that is a message is returned as it is;
\* text-only content is not attached again, because the chat pane shows it empty.
HydratedMessage(row) ==
    IF row.contentJson = "message" THEN Whole
    ELSE FromColumns(row, IF row.contentJson = "rich" THEN "rich" ELSE None)

\* useForkConversation: the content is restored as it is.
ForkedMessage(row) ==
    [FromColumns(row, row.contentJson) EXCEPT !.parentMessageId = row.parentMessageId]

\* What the chat pane renders of a message: content before text, and of a
\* content in the static view only what is not text.
Rendered(msg) == IF msg.content = None THEN msg.text ELSE IF msg.content = "rich" THEN "rich" ELSE ""

-----------------------------------------------------------------------------
(* Conversations *)

\* toStoredConversation: the conversation is serialised as it is.
ToStoredConversation(convo, conversationId) ==
    [conversationId |-> conversationId, title |-> convo.title, convoJson |-> convo]

\* A finished turn stamps its conversation with the id it is stored under.
PersistedConversation(convo, conversationId) ==
    ToStoredConversation([convo EXCEPT !.conversationId = conversationId], conversationId)

\* importChatExport: the id may be called conversationId or id, or be missing.
ToImportedConversation(raw, newId) ==
    [conversationId |-> Or(Or(raw.conversationId, raw.id), newId), title |-> raw.title,
     convoJson |-> [conversationId |-> raw.conversationId, title |-> raw.title]]

\* forkConversation: the copy's JSON gets the new id, and not the new title.
ForkedRow(row, newId) ==
    [conversationId |-> newId, title |-> ForkOf(row.title),
     convoJson |-> IF row.convoJson = None THEN None
                   ELSE [row.convoJson EXCEPT !.conversationId = newId]]

\* toTConversation of the chat pane.
HydratedConversation(row) ==
    IF row.convoJson = None
    THEN [conversationId |-> row.conversationId, title |-> Or(row.title, NewChat)]
    ELSE [row.convoJson EXCEPT !.conversationId = Or(@, row.conversationId)]

\* toTConversation of the sidebar and of an import: two more copies of it.
ListedConversation(row) == HydratedConversation(row)
ImportedConversation(row) == HydratedConversation(row)

\* toTConversation of a fork.
ForkedConversation(row) ==
    IF row.convoJson = None
    THEN [conversationId |-> row.conversationId, title |-> row.title]
    ELSE [conversationId |-> row.conversationId, title |-> Or(row.title, row.convoJson.title)]

-----------------------------------------------------------------------------
(* Paging through the hits of a search.  Hits are ranks, best (lowest) first; *)
(* rank 0 does not occur.                                                     *)

\* The worker's page: at most `most` hits ranked behind the cursor.
SearchPage(hits, cursor, limit, most) ==
    LET behind == SelectSeq(hits, LAMBDA h : cursor = None \/ h > cursor)
        n == IF limit < most THEN limit ELSE most IN
    SubSeq(behind, 1, IF Len(behind) < n THEN Len(behind) ELSE n)

\* Mutant: a page that is full is taken to be the last one.
EncodeCursorFull(page, limit) == IF Len(page) <= limit THEN None ELSE page[Len(page)]

\* encodeCursor and decodeRankCursor: the last rank, or none after a short page.
EncodeCursor(page, limit) == IF Len(page) < limit THEN None ELSE page[Len(page)]

\* useLocalSearchQuery: pages are fetched while there is a next cursor.
RECURSIVE Pages(_, _, _, _)
Pages(hits, cursor, limit, most) ==
    LET page == SearchPage(hits, cursor, limit, most)
        next == EncodeCursor(page, limit) IN
    IF next = None THEN page ELSE page \o Pages(hits, next, limit, most)
=============================================================================
