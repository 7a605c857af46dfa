------------------------------ MODULE TurnRouting ------------------------------
(***************************************************************************)
(* The second half of POST /v1/chat: which model an opened prompt is sent  *)
(* to, what the receipt of the turn says, and the events of its reply.     *)
(*                                                                         *)
(* gen() first fetches the provider's attestation report of the model it   *)
(* expects to use; in ENFORCE mode a report outside the allowlist ends the *)
(* turn.  Then it runs the tool loop on the tool model, or calls           *)
(* get_inference's _complete, which asks the model catalog whether to      *)
(* honour the model that the client named.  Without an inference provider  *)
(* the Letta agent answers.  Turns run concurrently and share the catalog, *)
(* with each other and with the pickers, the callers that are not turns.   *)
(*                                                                         *)
(* A report is what ENFORCE mode makes of it: the enclave is allowed,      *)
(* refused, or the report is unavailable; the provider may answer          *)
(* differently each time.  An event is its kind.                           *)
(***************************************************************************)
EXTENDS ModelCatalog, Sequences

CONSTANTS
    Turns,
    Default,        \* Settings.inference_model
    ToolModel,      \* Settings.tool_model
    MaxSteps,       \* Settings.tool_max_steps
    MaxDeltas,      \* bound: deltas of a Letta reply
    SettingsSet,    \* the deployments considered
    NoModel

ASSUME RoutingAssumption ==
    /\ {Default, ToolModel} \subseteq Attested
    /\ NoModel \notin Models
    /\ Turns \subseteq Callers
    /\ MaxSteps \in Nat \ {0} /\ MaxDeltas \in Nat
    /\ SettingsSet \subseteq [inference : BOOLEAN, receipt : BOOLEAN, enforce : BOOLEAN,
                              cloud : BOOLEAN, mcp : BOOLEAN]
    \* Settings.receipt_enforce: ENFORCE mode fetches receipts.
    /\ \A s \in SettingsSet : s.inference /\ s.enforce => s.receipt

VARIABLES
    settings,   \* read once, constant
    turn        \* turn[t]: the state of gen() for one request

vars == <<catalogVars, settings, turn>>

NewTurn == [pc |-> "idle", model |-> NoModel, tools |-> FALSE, report |-> "none",
            to |-> NoModel, steps |-> 0, events |-> <<>>]

Init ==
    /\ CatalogInit
    /\ settings \in SettingsSet
    /\ turn = [t \in Turns |-> NewTurn]

-----------------------------------------------------------------------------
\* chosen_model: what the receipt is fetched for.
ChosenModel(r) ==
    IF r.tools THEN ToolModel ELSE IF r.model # NoModel THEN r.model ELSE Default

Emit(t, pc, events) ==
    turn' = [turn EXCEPT ![t].pc = pc, ![t].events = @ \o events]

\* The session opened the prompt: use_tools and chosen_model are fixed.
Chat(t, model, tools) ==
    /\ turn[t].pc = "idle"
    /\ turn' = [turn EXCEPT ![t].model = model,
                            ![t].tools = tools /\ settings.mcp /\ settings.inference,
                            ![t].pc = IF ~settings.inference THEN "letta"
                                      ELSE IF settings.receipt THEN "report" ELSE "route"]
    /\ UNCHANGED <<catalogVars, settings>>

\* fetch_receipt never raises: a report that cannot be had is unavailable.
Reports == {"allowed", "refused", "unavailable"}

\* _enforce_violation, asked in ENFORCE mode only.
EnforceViolation(report) == settings.enforce /\ report # "allowed"

\* Mutant: gen() goes on after it rejected the turn.
ReportContinues(t, report) ==
    /\ turn[t].pc = "report"
    /\ IF EnforceViolation(report)
       THEN turn' = [turn EXCEPT ![t].pc = "route", ![t].report = report,
                                 ![t].events = <<"receipt", "rejected">>]
       ELSE turn' = [turn EXCEPT ![t].pc = "route", ![t].report = report]
    /\ UNCHANGED <<catalogVars, settings>>

\* receipt_fetcher answered; a violation ends the turn.
Report(t, report) ==
    /\ turn[t].pc = "report"
    /\ IF EnforceViolation(report)
       THEN turn' = [turn EXCEPT ![t].pc = "closed", ![t].report = report,
                                 ![t].events = <<"receipt", "rejected">>]
       ELSE turn' = [turn EXCEPT ![t].pc = "route", ![t].report = report]
    /\ UNCHANGED <<catalogVars, settings>>

\* inference_backend.complete posts the prompt; the lookups are over.
Post(t, model) ==
    /\ turn' = [turn EXCEPT ![t].pc = "completing", ![t].to = model]
    /\ call' = [call EXCEPT ![t] = NoCall]

\* A catalog lookup on behalf of the turn.
LookUp(t, pc) ==
    /\ FetchAll(t)
    /\ turn' = [turn EXCEPT ![t].pc = pc]

\* The tool loop, or _complete: is_attested is asked about attested slugs only.
Route(t) ==
    LET m == turn[t].model IN
    /\ turn[t].pc = "route"
    /\ IF turn[t].tools
       THEN turn' = [turn EXCEPT ![t].pc = "asking", ![t].to = ToolModel] /\ UNCHANGED call
       ELSE IF m \in {NoModel, Default} THEN Post(t, Default)
       ELSE IF m \in Attested THEN LookUp(t, "attested")
       ELSE IF settings.cloud THEN LookUp(t, "known")
       ELSE Post(t, Default)
    /\ UNCHANGED <<clock, live, published, cache, settings>>

Answered(t) == call[t].pc \in {"done", "failed"}

\* Mutant: an empty catalog confirms every attested slug.
AttestedOpen(t) ==
    LET m == turn[t].model IN
    /\ turn[t].pc = "attested" /\ Answered(t)
    /\ IF m \in call[t].out \/ call[t].out = {} THEN Post(t, m)
       ELSE IF settings.cloud THEN LookUp(t, "known")
       ELSE Post(t, Default)
    /\ UNCHANGED <<clock, live, published, cache, settings>>

\* is_attested: a slug that the catalog does not confirm may still be honoured
\* as a known one.
IsAttested(t) ==
    LET m == turn[t].model IN
    /\ turn[t].pc = "attested" /\ Answered(t)
    /\ IF m \in call[t].out THEN Post(t, m)
       ELSE IF settings.cloud THEN LookUp(t, "known")
       ELSE Post(t, Default)
    /\ UNCHANGED <<clock, live, published, cache, settings>>

\* is_known_model: else the default model.
IsKnown(t) ==
    LET m == turn[t].model IN
    /\ turn[t].pc = "known" /\ Answered(t)
    /\ Post(t, IF m \in call[t].out THEN m ELSE Default)
    /\ UNCHANGED <<clock, live, published, cache, settings>>

\* One sealed completion, the receipt and the end of the stream.
Completed(t) ==
    /\ turn[t].pc = "completing"
    /\ Emit(t, "closed", <<"token", "receipt", "done">>)
    /\ UNCHANGED <<catalogVars, settings>>

-----------------------------------------------------------------------------
(* inference_backend.complete_with_tools *)

\* The model asks for tools, which are executed here; what they return or raise
\* is fed back.  The calls of one answer count as one.
ToolCalls(t) ==
    /\ turn[t].pc = "asking"
    /\ turn' = [turn EXCEPT ![t].pc = "executing"]
    /\ UNCHANGED <<catalogVars, settings>>

\* Mutant: the steps of the loop are not counted.
ToolsUncounted(t) ==
    /\ turn[t].pc = "executing"
    /\ turn' = [turn EXCEPT ![t].pc = "asking"]
    /\ UNCHANGED <<catalogVars, settings>>

\* The loop asks at most MaxSteps times; nothing of an unfinished loop is shown.
ToolsExecuted(t) ==
    /\ turn[t].pc = "executing"
    /\ turn' = [turn EXCEPT ![t].steps = @ + 1,
                            ![t].pc = IF turn[t].steps + 1 < MaxSteps THEN "asking" ELSE "failing"]
    /\ UNCHANGED <<catalogVars, settings>>

\* A final answer.
ToolAnswer(t) ==
    /\ turn[t].pc = "asking"
    /\ turn' = [turn EXCEPT ![t].pc = "showing"]
    /\ UNCHANGED <<catalogVars, settings>>

\* Each step of the loop is an event of its own, sealed when its turn comes.
ToolShown(t) ==
    /\ turn[t].pc = "showing"
    /\ Len(turn[t].events) < turn[t].steps
    /\ Emit(t, "showing", <<"tool">>)
    /\ UNCHANGED <<catalogVars, settings>>

\* The steps are shown; the reply, as without tools.
ToolReply(t) ==
    /\ turn[t].pc = "showing"
    /\ Len(turn[t].events) = turn[t].steps
    /\ Emit(t, "closed", <<"token", "receipt", "done">>)
    /\ UNCHANGED <<catalogVars, settings>>

-----------------------------------------------------------------------------
(* The Letta agent *)

LettaDelta(t) ==
    /\ turn[t].pc = "letta"
    /\ Len(turn[t].events) < MaxDeltas
    /\ Emit(t, "letta", <<"token">>)
    /\ UNCHANGED <<catalogVars, settings>>

LettaEnds(t) ==
    /\ turn[t].pc = "letta"
    /\ Emit(t, "closed", <<"receipt", "done">>)
    /\ UNCHANGED <<catalogVars, settings>>

-----------------------------------------------------------------------------
\* The provider or the agent fails, its answer is empty or malformed, a lookup
\* of the catalog raised, the tool loop was exhausted, or the session ended
\* before an event of the reply was sealed.
Failing(t) ==
    \/ turn[t].pc \in {"completing", "asking", "showing", "failing", "letta"}
    \/ turn[t].pc \in {"attested", "known"} /\ call[t].pc = "raised"

\* gen() answers any exception with chat_failed, at whatever point of the stream.
Fails(t) ==
    /\ Failing(t)
    /\ Emit(t, "closed", <<"failed">>)
    /\ UNCHANGED <<catalogVars, settings>>

LettaStep(t) == LettaDelta(t) \/ LettaEnds(t)

InferenceStep(t) ==
    \/ \E r \in Reports : Report(t, r)
    \/ Route(t) \/ IsAttested(t) \/ IsKnown(t) \/ Completed(t)
    \/ ToolCalls(t) \/ ToolsExecuted(t)
    \/ ToolAnswer(t) \/ ToolShown(t) \/ ToolReply(t)
    \/ Fails(t)
    \/ CatalogStep(t) /\ UNCHANGED <<settings, turn>>

Next ==
    \/ Provider /\ UNCHANGED <<settings, turn>>
    \/ \E c \in Callers \ Turns : (Pick(c) \/ CatalogStep(c)) /\ UNCHANGED <<settings, turn>>
    \/ \E t \in Turns : InferenceStep(t) \/ LettaStep(t)
    \/ \E t \in Turns, m \in Models \cup {NoModel}, tools \in BOOLEAN : Chat(t, m, tools)

Spec == Init /\ [][Next]_vars

\* Every request to the provider has a timeout, and the event loop resumes every
\* coroutine that is ready.  Nothing is assumed of the Letta agent, whose stream
\* is read without a timeout.
FairSpec == Spec /\ \A t \in Turns : WF_vars(InferenceStep(t) /\ turn[t].pc # "letta")

-----------------------------------------------------------------------------
(***************************************************************************)
(* Every variable of the chat turns has its type.                          *)
(***************************************************************************)
TypeOK ==
    /\ CatalogTypeOK
    /\ settings \in SettingsSet
    /\ turn \in [Turns -> [pc : {"idle", "report", "route", "attested", "known", "completing",
                                 "asking", "executing", "showing", "failing", "letta",
                                 "closed"},
                           model : Models \cup {NoModel}, tools : BOOLEAN,
                           report : Reports \cup {"none"},
                           to : Models \cup {NoModel}, steps : 0..MaxSteps,
                           events : Seq({"tool", "token", "receipt", "done", "failed", "rejected"})]]

(***************************************************************************)
(* config.py:27-35: a prompt goes to a model outside the TEEs only when the*)
(* client named that very model and the deployment opted into cloud models;*)
(* a strict deployment never sends one there.                              *)
(***************************************************************************)
CloudOnlyIfAsked ==
    \A t \in Turns : turn[t].to \notin Attested \cup {NoModel} =>
        settings.cloud /\ turn[t].to = turn[t].model

(***************************************************************************)
(* models_catalog.is_attested: "Membership is granted only against a       *)
(* confirmed live catalog": a model other than the configured ones receives*)
(* a prompt only if the provider has published it, although lookups fail,  *)
(* answers are late and the list changes meanwhile.                        *)
(***************************************************************************)
RoutedWasPublished ==
    \A t \in Turns : turn[t].to \notin {NoModel, Default, ToolModel} =>
        \E p \in published : turn[t].to \in p[2]

(***************************************************************************)
(* chat.py gen(): in ENFORCE mode a turn without an allowed report emits no*)
(* part of a reply, and its prompt is sent to no model.                    *)
(***************************************************************************)
RejectedIsSilent ==
    \A t \in Turns : settings.enforce /\ settings.inference /\ turn[t].report # "allowed" =>
        turn[t].to = NoModel /\ ~\E i \in DOMAIN turn[t].events : turn[t].events[i] \in {"token", "tool"}

(***************************************************************************)
(* gateway-api.md section 3: a reply is its deltas, one receipt and `done`,*)
(* or is cut short by one error, after which nothing follows.              *)
(***************************************************************************)
OneTerminalEvent ==
    \A t \in Turns :
        LET ev == turn[t].events
            Ends == {"done", "failed", "rejected"} IN
        /\ \A i \in DOMAIN ev : ev[i] \in Ends => i = Len(ev)
        /\ turn[t].pc = "closed" => ev # <<>> /\ ev[Len(ev)] \in Ends
        /\ \A i \in DOMAIN ev : ev[i] = "done" => ev[i - 1] = "receipt"
        /\ \A i, j \in DOMAIN ev : ev[i] = "receipt" /\ ev[j] \in {"token", "tool"} => j < i

(***************************************************************************)
(* Every turn that the inference provider serves closes its stream: the    *)
(* tool loop is bounded and no lookup is waited for without an answer.     *)
(***************************************************************************)
TurnEnds ==
    \A t \in Turns : turn[t].pc # "idle" /\ settings.inference ~> turn[t].pc = "closed"

(***************************************************************************)
(* chat.py:142-144: "the report endpoint is keyed by this same slug, so the*)
(* receipt reflects the serving enclave": a turn with a report sends its   *)
(* prompt to the model that the report is about.                           *)
(* The code does not keep this: see "Disagreements" in the README.         *)
(***************************************************************************)
ReceiptReflectsServing ==
    \A t \in Turns : turn[t].to # NoModel /\ turn[t].report # "none" =>
        turn[t].to = ChosenModel(turn[t])
\* The stream of a turn: nothing follows a rejection, and one terminal event ends it
\* (routes/chat.py, gen).
StreamInOrder == TypeOK /\ RejectedIsSilent /\ OneTerminalEvent

\* Where a prompt goes: to a cloud model only if it was asked for and is allowed, and to a
\* named model only if the provider published it (deps.py, get_inference).
RoutedAsAllowed == CloudOnlyIfAsked /\ RoutedWasPublished
=============================================================================
