----------------------------- MODULE MCSurfaces -----------------------------
(* What the tab shows of state kept elsewhere: the conversations, the panels *)
(* of the library, and the model picker.  A behaviour is of one of the three. *)
EXTENDS ConversationCache

CONSTANTS
    A, c1, i1,
    Panels, Ids, Fields, MaxEdits,
    Opens, TTL, MaxTime, MaxLists, Fallback

OneConversation == [s \in Seeds |-> IF s = A THEN {c1} ELSE {}]
OneRow == [s \in Seeds |-> IF s = A THEN {i1} ELSE {}]

VARIABLES
    surface,
    panel, lident, lopen, lunlocks, lrows, lcalls, lanswers, lfetch, llist, lseen, detail, active,
    edits, wanted, crossed,
    now, plist, published, modelsCache, call

lvars == <<panel, lident, lopen, lunlocks, lrows, lcalls, lanswers, lfetch, llist, lseen, detail,
           active, edits, wanted, crossed>>
pvars == <<now, plist, published, modelsCache, call>>

Library ==
    INSTANCE LibraryCache WITH
        History <- OneRow, ident <- lident, open <- lopen, unlocks <- lunlocks, rows <- lrows,
        calls <- lcalls, answers <- lanswers, fetch <- lfetch, list <- llist, seen <- lseen

Picker == INSTANCE ModelPicker WITH Calls <- Opens, list <- plist

\* The bounds are numbers, the fallback is none of the gateway's lists, and None is no entry.
ASSUME PickerAssumption ==
    /\ TTL \in Nat /\ MaxTime \in Nat /\ MaxLists \in Nat
    /\ Fallback \notin 0..MaxLists /\ Fallback # 1
    /\ None \notin [at : 0..MaxTime, ids : 0..MaxLists]

\* The ids are finitely many, and None is no id, no row and no list.
ASSUME LibraryAssumption ==
    /\ IsFiniteSet(Ids) /\ MaxEdits \in Nat
    /\ None \notin Ids \union [Fields -> Nat] /\ None \notin Seq([id : Ids, row : [Fields -> Nat]])

allVars == <<surface, vars, lvars, pvars>>

MCInit ==
    /\ surface \in {"conversations", "library", "picker"}
    /\ Init /\ Library!Init /\ Picker!Init
    /\ surface # "library" => panel = "skills"

MCNext ==
    \/ surface = "conversations" /\ Next /\ UNCHANGED <<surface, lvars, pvars>>
    \/ surface = "library" /\ Library!Next /\ UNCHANGED <<surface, vars, pvars>>
    \/ surface = "picker" /\ Picker!Next /\ UNCHANGED <<surface, vars, lvars>>

MCSpec == MCInit /\ [][MCNext]_allVars /\ Library!Fairness

-----------------------------------------------------------------------------
\* ConversationCache: the empty answer of /api/convos does not cost the sidebar its history,
\* but for the three cases of SeedSurvives.
SidebarKept == TypeOK /\ SeedSurvives

\* LibraryCache: mutations that do not overlap store what they ask for, a patched cache agrees
\* with the table, and the active skill is one that is stored.
LibraryAgrees ==
    /\ Library!TypeOK
    /\ Library!UpdatesMerge
    /\ Library!CachesAgree
    /\ Library!ActiveIsStored

\* LibraryCache: the panel's polling shows what the store holds.
PollsCatchUp == Library!PollsCatchUp

\* ModelPicker: the picker offers no list older than its time to live.
PickerFresh == Picker!PickerFresh
=============================================================================
