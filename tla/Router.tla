------------------------------- MODULE Router -------------------------------
(***************************************************************************)
(* Which provider serves a model name: the catalog and the user's overlay  *)
(* (domain/catalog.rs), the router built from both (domain/router.rs) and  *)
(* the choice of model and account for a request (application/proxy.rs).   *)
(* Pure operators; module Serve uses them on the state of a proxy.         *)
(*                                                                         *)
(* A model name is a sequence of atoms, "/" being one of them, so that     *)
(* <<"p", "/", "m">> is p/m.  An absent or empty name is NoModel.          *)
(* A configuration is a record                                             *)
(*   [providers : a sequence of [name, models, auto],                      *)
(*    routes : a sequence of [model, provider, prefix, upstream, effort],  *)
(*    provider, model, effort : the defaults]                              *)
(* and `on` is the set of names of the connected providers.                *)
(***************************************************************************)
EXTENDS Integers, Sequences, FiniteSets, SequencesExt

NoModel == <<>>
NoProvider == "none"
NoEffort == "none"
NoAlias == "none"

Marker == "anthropic:"
Hint == "[1m]"
AutoModel == << "auto" >>
FamilyAtoms == {"claude", "anthropic", Marker}

Found(p, m, e) == [error |-> "ok", provider |-> p, model |-> m, effort |-> e]
Failed(error) == [error |-> error, provider |-> NoProvider, model |-> NoModel, effort |-> NoEffort]

Or(x, none, y) == IF x = none THEN y ELSE x

QualifiedId(p, m) == IF IsPrefix(<< p, "/" >>, m) THEN m ELSE << p, "/" >> \o m

-----------------------------------------------------------------------------
(* effective_config: a provider of the overlay replaces the one of the same *)
(* name, a route of the catalog is hidden by one of the same model, the     *)
(* overlay's defaults win where they are set.                               *)

Has(providers, name) == \E n \in DOMAIN providers : providers[n].name = name

Overlaid(providers, p) ==
    IF Has(providers, p.name)
    THEN [providers EXCEPT ![SelectInSeq(providers, LAMBDA q : q.name = p.name)] = p]
    ELSE Append(providers, p)

Unhidden(routes, r) ==
    IF \E n \in DOMAIN routes : routes[n].model = r.model THEN routes ELSE Append(routes, r)

EffectiveConfig(base, overlay) ==
    [providers |-> FoldLeft(Overlaid, base.providers, overlay.providers),
     routes |-> FoldLeft(Unhidden, overlay.routes, base.routes),
     provider |-> Or(overlay.provider, NoProvider, base.provider),
     model |-> Or(overlay.model, NoModel, base.model),
     effort |-> Or(overlay.effort, NoEffort, base.effort)]

(* discover_models: a connected provider without a list of its own has the  *)
(* models its upstream reports, none when the upstream cannot be asked.     *)
Discover(c, on, reported) ==
    LET Reported(p) == [name |-> p.name, auto |-> p.auto,
                        models |-> IF p.models = <<>> /\ p.name \in on
                                   THEN reported[p.name] ELSE p.models]
    IN  [c EXCEPT !.providers = [n \in DOMAIN @ |-> Reported(@[n])]]

(* Router::new fails on a route to a provider that does not exist.          *)
Builds(c) == \A n \in DOMAIN c.routes : Has(c.providers, c.routes[n].provider)

-----------------------------------------------------------------------------
(* Resolution.                                                              *)

ByRoute(r, m) == Found(r.provider, Or(r.upstream, NoModel, m), r.effort)

ByAuto(p) == IF p.auto = NoModel THEN Failed("no auto model") ELSE Found(p.name, p.auto, NoEffort)

(* resolve_auto: the default provider if it is connected, the first         *)
(* connected provider, else the default or the first one.                   *)
ResolveAuto(c, on) ==
    LET able == SelectSeq(c.providers, LAMBDA p : p.auto # NoModel)
        default == SelectSeq(able, LAMBDA p : p.name = c.provider)
        ready == SelectSeq(default \o able, LAMBDA p : p.name \in on)
    IN  IF ready # <<>> THEN ByAuto(ready[1])
        ELSE IF able # <<>> THEN ByAuto((default \o able)[1])
        ELSE Failed("no auto model")

Unhinted(m) == IF m # NoModel /\ Last(m) = Hint THEN Front(m) ELSE m

(* Router::exact and Router::providers: places, where a later entry of the  *)
(* same name wins.                                                          *)
Exact(routes, m) == SelectLastInSeq(routes, LAMBDA r : ~r.prefix /\ r.model = m)
Named(providers, name) == SelectLastInSeq(providers, LAMBDA p : p.name = name)

(* resolve_model_impl.                                                      *)
ResolveName(c, on, name, strict) ==
    LET m == Unhinted(name)
        exact == Exact(c.routes, m)
        slash == SelectInSeq(m, LAMBDA x : x = "/")
        named == IF slash = 2 THEN Named(c.providers, m[1]) ELSE 0
        prefixed == SelectSeq(c.routes, LAMBDA r : r.prefix /\ IsPrefix(r.model, m))
        longest == SelectSeq(prefixed, LAMBDA r :
                       \A n \in DOMAIN prefixed : Len(prefixed[n].model) <= Len(r.model))
        native == SelectSeq(c.providers, LAMBDA p : m \in Range(p.models))
        ready == SelectSeq(native, LAMBDA p : p.name \in on)
    IN  CASE exact # 0 -> ByRoute(c.routes[exact], m)
          [] exact = 0 /\ m = AutoModel -> ResolveAuto(c, on)
          [] exact = 0 /\ m # AutoModel /\ named # 0 ->
                LET upstream == SubSeq(m, 3, Len(m))
                IN  IF upstream = AutoModel THEN ByAuto(c.providers[named])
                    ELSE Found(m[1], upstream, NoEffort)
          [] OTHER ->
                CASE longest # <<>> -> ByRoute(longest[1], m)
                  [] longest = <<>> /\ native # <<>> -> Found((ready \o native)[1].name, m, NoEffort)
                  [] longest = <<>> /\ native = <<>> ->
                        IF ~strict /\ Has(c.providers, c.provider)
                        THEN Found(c.provider, m, NoEffort) ELSE Failed("unknown model")

(* list_models.                                                             *)
ListModels(c) ==
    { c.routes[n].model : n \in { i \in DOMAIN c.routes : ~c.routes[i].prefix } }
    \cup UNION { LET p == c.providers[n]
                 IN  { QualifiedId(p.name, m) :
                         m \in Range(p.models) \cup (IF p.auto = NoModel THEN {} ELSE {AutoModel}) }
                 : n \in DOMAIN c.providers }

PassesGatewayFilter(m) == Range(m) \cap FamilyAtoms # {}

(* The id of a listed model as an Anthropic client sees it, and back.       *)
Shown(m) == IF PassesGatewayFilter(m) THEN m ELSE << Marker >> \o m

\* Mutant: the marker is not taken off again.
UnmarkedNot(m) == m

Unmarked(m) == IF m # NoModel /\ m[1] = Marker THEN Tail(m) ELSE m

(* resolve_model: the client's model unless the instance enforces its own;  *)
(* a Claude-family name nobody serves gives way to the active model too.    *)
ResolveModel(c, on, sent, enforce) ==
    LET m == Unmarked(sent)
        clients == /\ ~enforce /\ m # NoModel
                   /\ \/ c.model = NoModel
                      \/ ~PassesGatewayFilter(m)
                      \/ ResolveName(c, on, m, TRUE).error = "ok"
        listed == SelectSeq(c.providers, LAMBDA p : p.name \in on /\ p.models # <<>>)
        first == IF listed = <<>> THEN NoModel ELSE QualifiedId(listed[1].name, listed[1].models[1])
        requested == IF clients THEN m ELSE Or(c.model, NoModel, first)
        found == ResolveName(c, on, requested, clients)
    IN  CASE requested = NoModel -> Failed("no model")
          [] requested # NoModel /\ found.error = "ok" /\ found.provider \notin on ->
                Failed("not connected")
          [] OTHER -> found

(* account_for: the header's alias, else the one chosen for the session;    *)
(* each must be among the accounts clients were built for.  Without either, *)
(* whatever is called "default".                                            *)
AccountFor(built, header, chosen) ==
    CASE header # NoAlias -> IF header \in built THEN header ELSE "unknown account"
      [] header = NoAlias /\ chosen # NoAlias ->
            IF chosen \in built THEN chosen ELSE "stale account"
      [] OTHER -> IF "default" \in built THEN "default" ELSE "no account selected"
=============================================================================
