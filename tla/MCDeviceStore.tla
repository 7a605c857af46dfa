--------------------------- MODULE MCDeviceStore ---------------------------
(* A small device store: two conversations, two words, one vector owner,    *)
(* two memories, one agent and one skill.                                   *)
EXTENDS DeviceStore

Turn(c, u, a, p, words) ==
    [t |-> "PERSIST_TURN", conv |-> c, user |-> u, asst |-> a, parent |-> p, text |-> words]

\* A second turn of conversation 1, a regenerated answer with another text, and another
\* conversation; an export that names its ids and brings message 2 again, and one that has
\* no ids and two conversations.
ChatOps ==
    { Turn(1, 1, 2, Null, {1}), Turn(1, 3, 4, 2, {1}), Turn(1, 1, 2, Null, {1, 2}),
      Turn(2, 5, 6, Null, {2}),
      [t |-> "FORK", conv |-> 1, from |-> 2],
      [t |-> "IMPORT", convos |-> << [conv |-> 2, at |-> 1, msgs |->
            << [id |-> 2, parent |-> 5, user |-> FALSE, text |-> {2}, at |-> 1] >>] >>],
      [t |-> "IMPORT", convos |->
            << [conv |-> Null, at |-> Null, msgs |->
                 << [id |-> Null, parent |-> Null, user |-> TRUE, text |-> {1}, at |-> Null] >>],
               [conv |-> Null, at |-> Null, msgs |-> <<>>] >>],
      [t |-> "DELETE_CONVO", conv |-> 1],
      [t |-> "HYDRATE_CONVO", conv |-> 1],
      [t |-> "LIST_CONVOS", lim |-> 1],
      [t |-> "SEARCH", word |-> 1, lim |-> 1] }

LibraryOps ==
    { [t |-> "STORE_VECTORS", owner |-> 1, chunks |-> <<1, 2>>],
      [t |-> "STORE_VECTORS", owner |-> 1, chunks |-> <<>>],
      [t |-> "HYDRATE_VECTORS"],
      [t |-> "UPSERT_MEMORY", key |-> 1, val |-> 1, prev |-> Null],
      [t |-> "UPSERT_MEMORY", key |-> 2, val |-> 2, prev |-> 1],
      [t |-> "DELETE_MEMORY", key |-> 1], [t |-> "LIST_MEMORIES"],
      [t |-> "UPSERT_AGENT", key |-> 1, val |-> 1],
      [t |-> "DELETE_AGENT", key |-> 1], [t |-> "LIST_AGENTS"], [t |-> "GET_AGENT", key |-> 1],
      [t |-> "UPSERT_SKILL", key |-> 1, val |-> 1],
      [t |-> "DELETE_SKILL", key |-> 1], [t |-> "LIST_SKILLS"], [t |-> "GET_SKILL", key |-> 1],
      [t |-> "CLEAR_ALL"] }

\* The chat uses one slot, the panels of the library the other.
CONSTANTS chat, library
MCOps == [c \in Calls |-> IF c = chat THEN ChatOps ELSE LibraryOps]
=============================================================================
