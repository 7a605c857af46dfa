----------------------------- MODULE ShimRoutes -----------------------------
(***************************************************************************)
(* shim/src/server.ts: which answer a request to the relay shim gets.      *)
(*                                                                         *)
(* A request is a method, a path (the sequence of its segments) and an     *)
(* origin.  Hono runs the handlers whose pattern matches in the order they *)
(* were registered, until one answers instead of calling next().  A        *)
(* pattern is a path in which ":" stands for one segment and a last "*"    *)
(* for any rest.                                                           *)
(***************************************************************************)
EXTENDS Naturals, Sequences, SequencesExt, FiniteSets

CONSTANTS
    Files,              \* the files under CALADON_STATIC_DIR, as paths
    AllowedOrigins,     \* config.allowedOrigins
    RouteMap            \* the names ROUTE_MAP knows

Matches(pattern, path) ==
    LET n == Len(pattern)
        open == n > 0 /\ pattern[n] = "*"
        fixed == IF open THEN n - 1 ELSE n IN
    /\ IF open THEN Len(path) >= fixed ELSE Len(path) = fixed
    /\ \A i \in 1..fixed :
          IF pattern[i] = ":" THEN path[i] # "" ELSE path[i] = pattern[i]

\* p.startsWith('/dir/')
StartsWith(path, dir) == Len(path) > 1 /\ path[1] = dir

-----------------------------------------------------------------------------
(* Answers.  A body is what it is made of; `by` tells a relayed answer, one *)
(* the shim makes itself, a file and the page of the app apart.             *)

Answer(by, status, type, body) ==
    [by |-> by, status |-> status, type |-> type, body |-> body,
     secured |-> FALSE, cookie |-> FALSE, origin |-> "none"]

Json(status, body) == Answer("shim", status, "json", body)
Relayed(upstream) == Answer("relay", 200, "upstream", upstream)
NotFound == Answer("shim", 404, "text", {})
Page == Answer("page", 200, "html", {})

\* GET /api/config: the flags of TStartupConfig that are on.
StartupConfig ==
    LET interface == {"temporaryChat", "autoSubmitFromUrl", "modelSelect"} IN
    Json(200, interface)

\* GET /api/banner: no banner, and no bytes either.
Banner == Answer("shim", 200, "empty", {})

\* GET /api/user: nobody is logged in, so that the unlock screen is shown.
User == Json(401, {})

\* GET /api/roles/:role: the permissions that are granted; every other
\* permission type is there with nothing granted.
Role ==
    Json(200, {"MEMORIES.USE", "MEMORIES.CREATE", "MEMORIES.UPDATE", "MEMORIES.READ",
               "MEMORIES.OPT_OUT", "AGENTS.USE", "AGENTS.CREATE", "TEMPORARY_CHAT.USE"})

\* GET /api/endpoints: the one custom endpoint, and the agents kept on the device.
Endpoints == Json(200, {"caladon", "agents"})

\* GET /api/models: reshaped from the gateway's list (see ModelPicker).
Models == Json(200, {"caladon"})

\* GET /health: always answered, with the gateway's health in it.
Health == Json(200, {"shim", "gatewayBase", "gateway"})

\* The lists the chat shell asks for, all empty, and the flag that turns
\* the search of the device store on.
EmptyLists ==
    <<<<"api", "convos">>, <<"api", "projects">>, <<"api", "user", "settings", "favorites">>,
      <<"api", "agents", "chat", "active">>, <<"api", "agents", "tools">>,
      <<"api", "agents", "categories">>, <<"api", "agents", "marketplace">>, <<"api", "files">>>>

SearchEnabled == Json(200, {TRUE})

\* handleCaladon
HandleCaladon(path) ==
    IF path[3] \in RouteMap THEN Relayed("gateway") ELSE Json(404, {"unknown caladon route"})

\* GET /pcs-collateral/root-ca-crl: fetched and given back as hexadecimal text.
RootCaCrl == Answer("shim", 200, "text", {"hex"})

-----------------------------------------------------------------------------
(* The handlers that answer, in the order of their registration. *)

Route(methods, pattern, name) == [methods |-> methods, pattern |-> pattern, name |-> name]

RelayRoutes ==
    <<Route({"GET"}, <<"health">>, "health"),
      Route({"GET", "POST"}, <<"api", "caladon", ":">>, "caladon")>>

\* Mutant: the wildcard comes first.
CollateralRoutesSwapped ==
    <<Route({"GET"}, <<"pcs-collateral", "*">>, "pcs"),
      Route({"GET"}, <<"pcs-collateral", "root-ca-crl">>, "crl")>>

CollateralRoutes ==
    <<Route({"GET"}, <<"pcs-collateral", "root-ca-crl">>, "crl"),
      Route({"GET"}, <<"pcs-collateral", "*">>, "pcs")>>

StubRoutes ==
    <<Route({"GET"}, <<"api", "config">>, "config"), Route({"GET"}, <<"api", "banner">>, "banner"),
      Route({"GET"}, <<"api", "user">>, "user"), Route({"GET"}, <<"api", "roles", ":">>, "role"),
      Route({"GET"}, <<"api", "endpoints">>, "endpoints"),
      Route({"GET"}, <<"api", "models">>, "models")>>
    \o [i \in DOMAIN EmptyLists |-> Route({"GET"}, EmptyLists[i], "list")]
    \o <<Route({"GET"}, <<"api", "search", "enable">>, "search")>>

Routes == RelayRoutes \o CollateralRoutes \o StubRoutes

Answered(name, path) ==
    CASE name = "health" -> Health [] name = "caladon" -> HandleCaladon(path)
      [] name = "crl" -> RootCaCrl [] name = "pcs" -> Relayed("pcs")
      [] name = "config" -> StartupConfig [] name = "banner" -> Banner
      [] name = "user" -> User [] name = "role" -> Role
      [] name = "endpoints" -> Endpoints [] name = "models" -> Models
      [] name = "list" -> Json(200, {}) [] name = "search" -> SearchEnabled

-----------------------------------------------------------------------------
(* The static front door, only there if a bundle is mounted. *)

\* What is asked for and is neither data nor a binary asset is a page of the app.
SpaFallback(req) ==
    IF \/ req.method # "GET"
       \/ \E dir \in {"api", "pcs-collateral", "models", "ort"} : StartsWith(req.path, dir)
    THEN NotFound ELSE Page

\* setSecurityHeaders, on what the front door answers and not on data.
Stamped(req, answer) ==
    [answer EXCEPT !.secured = ~ StartsWith(req.path, "api")
                               /\ ~ StartsWith(req.path, "pcs-collateral")]

\* serveStatic, then the fallback.  The path of a directory is its index.html.
FrontDoorAnswer(req) ==
    LET file == IF req.path \in Files THEN Answer("file", 200, "file", {})
                ELSE IF Append(req.path, "index.html") \in Files THEN Page
                ELSE SpaFallback(req)
    IN Stamped(req, file)

-----------------------------------------------------------------------------
\* Every answer names the origin of the request if it is an allowed one; a
\* preflight goes no further.
Cors(req, answer) ==
    [answer EXCEPT !.origin = IF req.origin \in AllowedOrigins THEN req.origin ELSE "none"]

\* A browser without the session cookie is given one on the relayed routes.
SessionCookie(req, answer) ==
    [answer EXCEPT !.cookie = Matches(<<"api", "caladon", "*">>, req.path) /\ ~ req.cookie]

\* The answer to a request, with a bundle mounted or without.
Handle(req, static) ==
    LET hits == {i \in 1..Len(Routes) : /\ req.method \in Routes[i].methods
                                        /\ Matches(Routes[i].pattern, req.path)}
        answer == IF hits # {} THEN Answered(Routes[Min(hits)].name, req.path)
                  ELSE IF static THEN FrontDoorAnswer(req)
                  ELSE NotFound IN
    IF req.method = "OPTIONS" THEN Cors(req, Answer("shim", 204, "empty", {}))
    ELSE Cors(req, SessionCookie(req, answer))
=============================================================================
