------------------------------- MODULE Serve -------------------------------
(***************************************************************************)
(* One running proxy as its clients meet it: concurrent chat handlers      *)
(* (application/proxy.rs), the `$proxy` commands and the admin writes      *)
(* (application/commands.rs, settings.rs), the defaults each session       *)
(* freezes, and the hot-reload of config.yaml (application/runtime.rs),    *)
(* while other processes edit the file and the account store.  Routing is  *)
(* module Router.  The store is that of module AccountStore reduced to     *)
(* what a request reads and the revision of its accounts; a poll that      *)
(* follows it, from module AccountTracking, is one atomic step (Refreshed) *)
(* here, a reload is three, so that requests can overtake it.              *)
(***************************************************************************)
EXTENDS Router

CONSTANTS
    Base,          \* the embedded catalog
    Overlays,      \* what users write into config.yaml
    Reports,       \* models an upstream may report, by provider
    Session,       \* session ids
    NoSession,     \* a client without one
    Provider, Alias,
    Starts,        \* [stored : Provider -> SUBSET Alias, launch : [override, enforce],
                   \* touched : BOOLEAN]: the accounts there are, how the instance is
                   \* started, whether the file has been saved again since
    Requests,      \* the requests clients make
    Handler,       \* concurrent request handlers
    MaxRequests,   \* bound: requests
    MaxOutside     \* bound: steps of other processes

(* A configuration's lists are lists.  A provider's name is one atom of a   *)
(* model name, so it is not the separator.                                  *)
IsList(s) == s \in Seq(Range(s))
IsListOfNames(s) == IsList(s) /\ \A n \in DOMAIN s : IsList(s[n])
IsProvider(p) == p.name # "/" /\ IsListOfNames(p.models) /\ IsList(p.auto)
IsCatalog(c) ==
    /\ {"providers", "routes"} \subseteq DOMAIN c
    /\ IsList(c.providers) /\ \A n \in DOMAIN c.providers : IsProvider(c.providers[n])
    /\ IsList(c.routes) /\ \A n \in DOMAIN c.routes : IsList(c.routes[n].model)
NamedOnce(providers) ==
    \A m, n \in DOMAIN providers : providers[m].name = providers[n].name => m = n

ASSUME CatalogAssumption ==
    /\ IsCatalog(Base) /\ NamedOnce(Base.providers)
    /\ \A o \in Overlays : IsCatalog(o)
    /\ \A r \in Reports : \A p \in Provider : IsListOfNames(r[p])

ASSUME ServeAssumption ==
    /\ NoSession \notin Session
    /\ NoProvider \notin Provider /\ NoAlias \notin Alias
    /\ {"unknown account", "stale account", "no account selected"} \cap Alias = {}
    /\ \A s \in Starts : s.stored \in [Provider -> SUBSET Alias] /\ s.touched \in BOOLEAN
    /\ \A q \in Requests : q.kind \in {"account", "pin", "unpin"} => q.provider \in Provider
    /\ MaxRequests \in Nat /\ MaxOutside \in Nat

VARIABLES
    file,      \* config.yaml
    touched,   \* a change of it the watcher has not taken up
    stored, selected, bound,   \* the account store: accounts, selections, snapshots
    revision,  \* its account revision, which other processes move
    launch,    \* the instance's launch flags
    mem,       \* RuntimeState [config, built], the revision `seen` (accounts_version)
               \* and, as history, whether an `overtaken` reload put accounts back
    defaults,  \* AppState.sessions
    watcher,   \* << the config a reload has read >>, or << >>
    rebuilt,   \* << the state a reload has built >>, or << >>
    pc, req, loc, answer,      \* the handlers
    requests, outside,         \* counters for the bounds
    moved,     \* history: handlers in whose request the store changed, or was not
               \* taken up because the config file could not be built
    served,    \* history: the account of a session's last answer, by provider
    stranded   \* history: a command wrote memory after the last reload

store == << stored, selected, bound, revision >>
handlers == << pc, req, loc, answer >>
history == << moved, served, stranded >>
reload == << watcher, rebuilt >>
vars == << file, touched, store, launch, mem, defaults, reload, handlers,
           requests, outside, history >>

NoState == [config |-> Base, built |-> [p \in Provider |-> {}]]
NoDefaults == [model |-> NoModel, effort |-> "unset"]
Answered(route, account) ==
    [error |-> "ok", provider |-> route.provider, model |-> route.model,
     effort |-> route.effort, account |-> account]
Said(error) == [Answered(Failed(error), NoAlias) EXCEPT !.error = error]
NoAnswer == Said("none")
NoRequest == [kind |-> "none", session |-> NoSession]

On(accounts) == { p \in Provider : accounts[p] # {} }
DefaultsOf(c) == [model |-> c.model, effort |-> c.effort]

(* carry_instance_state: `--model` outranks the persisted model.            *)
Carry(c) == [c EXCEPT !.model = Or(launch.override, NoModel, @)]

(* build_runtime_state: a config and the accounts stored now.               *)
Built(c, r) == [config |-> Discover(c, On(stored), r), built |-> stored, of |-> revision]

Installed(b, seen) ==
    [config |-> Carry(b.config), built |-> b.built, seen |-> seen, overtaken |-> b.of < seen]

\* Mutant: accounts are rebuilt only when a provider came or went.
RefreshedRarely(r) ==
    LET c == EffectiveConfig(Base, file)
    IN  IF mem.seen # revision /\ On(stored) # On(mem.built) /\ Builds(c)
        THEN Installed(Built(c, r), revision) ELSE mem

(* `snapshot`: a new account revision is picked up, with a whole rebuild    *)
(* when a provider gained or lost its only account.  Under the revision it  *)
(* has seen, memory is taken as it is.                                      *)
Refreshed(r) ==
    LET c == EffectiveConfig(Base, file)
    IN  IF mem.seen = revision THEN mem
        ELSE IF On(stored) = On(mem.built)
             THEN [mem EXCEPT !.built = stored, !.seen = revision, !.overtaken = FALSE]
             ELSE IF Builds(c) THEN Installed(Built(c, r), revision) ELSE mem

Init ==
    /\ file \in { o \in Overlays : Builds(EffectiveConfig(Base, o)) }
    /\ \E s \in Starts : stored = s.stored /\ launch = s.launch /\ touched = s.touched
    /\ selected = [p \in Provider |-> IF stored[p] = {} THEN NoAlias ELSE CHOOSE a \in stored[p] : TRUE]
    /\ bound = [s \in Session |-> [p \in Provider |-> NoAlias]]
    /\ revision = 0
    /\ \E r \in Reports : mem = Installed(Built(EffectiveConfig(Base, file), r), revision)
    /\ watcher = <<>> /\ rebuilt = <<>>
    /\ defaults = [s \in Session |-> NoDefaults]
    /\ pc = [h \in Handler |-> "idle"]
    /\ req = [h \in Handler |-> NoRequest]
    /\ loc = [h \in Handler |-> NoState]
    /\ answer = [h \in Handler |-> NoAnswer]
    /\ requests = 0 /\ outside = 0
    /\ moved = {} /\ stranded = FALSE
    /\ served = [s \in Session |-> [p \in Provider |-> NoAlias]]

-----------------------------------------------------------------------------
(* Other processes and users.                                               *)

Outside ==
    /\ outside < MaxOutside
    /\ outside' = outside + 1
    /\ UNCHANGED << launch, mem, defaults, reload, handlers, requests, stranded >>

Forgotten(p, a) ==
    [s \in Session |-> [served[s] EXCEPT ![p] = IF @ = a THEN NoAlias ELSE @]]

(* The connected models by their qualified ids, from the file and the store.*)
ConnectedModels(r) ==
    LET c == Discover(EffectiveConfig(Base, file), On(stored), r)
    IN  ListModels([c EXCEPT !.routes = <<>>,
                             !.providers = SelectSeq(@, LAMBDA p : p.name \in On(stored))])

Connect(p, a) ==
    /\ Outside
    /\ a \notin stored[p]
    /\ stored' = [stored EXCEPT ![p] = @ \cup {a}]
    /\ selected' = [selected EXCEPT ![p] = Or(@, NoAlias, a)]
    /\ revision' = revision + 1
    /\ moved' = Handler
    /\ UNCHANGED << bound, file, touched, served >>

Disconnect(p, a) ==
    /\ Outside
    /\ a \in stored[p] /\ (stored[p] = {a} \/ selected[p] # a)
    /\ stored' = [stored EXCEPT ![p] = @ \ {a}]
    /\ selected' = [selected EXCEPT ![p] = IF stored[p] = {a} THEN NoAlias ELSE @]
    /\ revision' = revision + 1
    /\ moved' = Handler
    /\ served' = Forgotten(p, a)
    /\ UNCHANGED << bound, file, touched >>

Select(p, a) ==
    /\ Outside
    /\ a \in stored[p]
    /\ selected' = [selected EXCEPT ![p] = a]
    /\ UNCHANGED << stored, bound, revision, file, touched, moved, served >>

(* A proxy that starts forgets the snapshots no request used for 30 days.   *)
Prune(s, p) ==
    /\ Outside
    /\ bound[s][p] # NoAlias
    /\ bound' = [bound EXCEPT ![s][p] = NoAlias]
    /\ served' = [served EXCEPT ![s][p] = NoAlias]
    /\ UNCHANGED << stored, selected, revision, file, touched, moved >>

EditFile(o) ==
    /\ Outside
    /\ file' = o /\ touched' = TRUE
    /\ UNCHANGED << store, moved, served >>

-----------------------------------------------------------------------------
(* The watcher's reload: a snapshot and the config, the accounts, and the   *)
(* install under the lock.  Between them requests go on.                    *)

ReloadRead ==
    /\ touched /\ watcher = <<>> /\ rebuilt = <<>>
    /\ touched' = FALSE
    /\ \E r \in Reports : mem' = Refreshed(r)
    /\ watcher' = << EffectiveConfig(Base, file) >>
    /\ UNCHANGED << file, store, launch, defaults, rebuilt, handlers, requests, outside, history >>

\* Mutant: what was built is installed whether its router builds or not.
ReloadBuildUnchecked ==
    /\ watcher # <<>>
    /\ watcher' = <<>>
    /\ \E r \in Reports : rebuilt' = << Built(watcher[1], r) >>
    /\ UNCHANGED << file, touched, store, launch, mem, defaults, handlers, requests, outside,
                    history >>

(* A failed build keeps the current state.                                  *)
ReloadBuild ==
    /\ watcher # <<>>
    /\ watcher' = <<>>
    /\ \E r \in Reports :
          rebuilt' = IF Builds(watcher[1]) THEN << Built(watcher[1], r) >> ELSE <<>>
    /\ UNCHANGED << file, touched, store, launch, mem, defaults, handlers, requests, outside,
                    history >>

\* Mutant: changes noticed while the new state was built are dropped.
ReloadDraining ==
    /\ rebuilt # <<>>
    /\ rebuilt' = <<>> /\ touched' = FALSE
    /\ mem' = Installed(rebuilt[1], mem.seen)
    /\ stranded' = FALSE
    /\ UNCHANGED << file, store, launch, defaults, watcher, handlers, requests, outside, moved,
                    served >>

(* The seen revision stays: accounts built before a request rebuilt them    *)
(* come back as current.                                                    *)
ReloadInstall ==
    /\ rebuilt # <<>>
    /\ rebuilt' = <<>>
    /\ mem' = Installed(rebuilt[1], mem.seen)
    /\ stranded' = FALSE
    /\ UNCHANGED << file, touched, store, launch, defaults, watcher, handlers, requests, outside,
                    moved, served >>

-----------------------------------------------------------------------------
(* The handlers.                                                            *)

AdminKinds == {"pin", "unpin"}   \* not chats: the panel's requests

Finish(h, a) ==
    /\ answer' = [answer EXCEPT ![h] = a]
    /\ pc' = [pc EXCEPT ![h] = "idle"]
    /\ req' = [req EXCEPT ![h] = NoRequest]
    /\ loc' = [loc EXCEPT ![h] = NoState]

Took(h, mine, next) ==
    /\ mem' = mine
    /\ loc' = [loc EXCEPT ![h] = [config |-> mine.config, built |-> mine.built]]
    /\ pc' = [pc EXCEPT ![h] = next]

(* chat: authenticate against one snapshot.                                 *)
Arrive(h) ==
    /\ pc[h] = "idle" /\ requests < MaxRequests
    /\ requests' = requests + 1
    /\ \E r \in Reports, q \in Requests :
          /\ q.kind \notin AdminKinds
          /\ mem' = Refreshed(r)
          /\ req' = [req EXCEPT ![h] = q]
    /\ pc' = [pc EXCEPT ![h] = "enter"]
    /\ answer' = [answer EXCEPT ![h] = NoAnswer]
    /\ moved' = moved \ {h}
    /\ UNCHANGED << file, touched, store, launch, defaults, reload, loc, outside,
                    served, stranded >>

(* session_state: another snapshot, then the session's own defaults.        *)
Enter(h) ==
    /\ pc[h] = "enter"
    /\ \E r \in Reports : Took(h, Refreshed(r), IF req[h].session = NoSession THEN "run" ELSE "freeze")
    /\ moved' = IF Builds(EffectiveConfig(Base, file)) /\ ~mem'.overtaken
                THEN moved \ {h} ELSE moved \cup {h}
    /\ UNCHANGED << file, touched, store, launch, defaults, reload, req, answer, requests,
                    outside, served, stranded >>

\* Mutant: a session follows the instance.
FrozenAnew(s, c) == DefaultsOf(c)

(* The first request of a session freezes the instance's defaults for it.   *)
Frozen(s, c) == IF defaults[s] = NoDefaults THEN DefaultsOf(c) ELSE defaults[s]

Freeze(h) ==
    /\ pc[h] = "freeze"
    /\ LET d == Frozen(req[h].session, loc[h].config)
       IN  /\ defaults' = [defaults EXCEPT ![req[h].session] = d]
           /\ loc' = [loc EXCEPT ![h].config = [@ EXCEPT !.model = d.model, !.effort = d.effort]]
    /\ pc' = [pc EXCEPT ![h] = "run"]
    /\ UNCHANGED << file, touched, store, launch, mem, reload, req, answer, requests, outside,
                    history >>

\* Mutant: every request goes by the live selection.
ChosenLive(s, p) == selected[p]

(* request_account: a bound session keeps its account, an unbound one takes *)
(* the selection; without a session it is the selection.                    *)
Chosen(s, p) ==
    IF s # NoSession /\ bound[s][p] \in stored[p] THEN bound[s][p] ELSE selected[p]

Chat(h) ==
    /\ pc[h] = "run" /\ req[h].kind = "chat"
    /\ LET q == req[h]
           built == loc[h].built
           route == ResolveModel(loc[h].config, On(built), q.model, launch.enforce)
           p == route.provider
           asks == route.error = "ok" /\ q.header = NoAlias
           chosen == IF asks THEN Chosen(q.session, p) ELSE NoAlias
           account == AccountFor(built[p], q.header, chosen)
       IN  IF route.error # "ok"
           THEN Finish(h, Said(route.error)) /\ UNCHANGED << bound, served >>
           ELSE /\ Finish(h, IF account \in Alias THEN Answered(route, account)
                             ELSE [Said(account) EXCEPT !.provider = p, !.account = chosen])
                /\ bound' = IF asks /\ q.session # NoSession /\ chosen # NoAlias
                            THEN [bound EXCEPT ![q.session][p] = chosen] ELSE bound
                /\ served' = IF asks /\ q.session # NoSession /\ account \in stored[p]
                             THEN [served EXCEPT ![q.session][p] = account] ELSE served
    /\ UNCHANGED << file, touched, stored, selected, revision, launch, mem, defaults, reload, requests,
                    outside, moved, stranded >>

(* `$proxy account`: the session's snapshot and the selection together.     *)
CommandAccount(h) ==
    /\ pc[h] = "run" /\ req[h].kind = "account"
    /\ LET p == req[h].provider
           a == req[h].alias
           s == req[h].session
       IN  IF a \notin stored[p]
           THEN Finish(h, Said("unknown account")) /\ UNCHANGED << selected, bound, served >>
           ELSE /\ pc' = [pc EXCEPT ![h] = "announce"] /\ UNCHANGED << req, loc, answer >>
                /\ selected' = [selected EXCEPT ![p] = a]
                /\ bound' = IF s = NoSession THEN bound ELSE [bound EXCEPT ![s][p] = a]
                /\ served' = IF s = NoSession THEN served ELSE [served EXCEPT ![s][p] = NoAlias]
    /\ UNCHANGED << file, touched, stored, revision, launch, mem, defaults, reload, requests, outside,
                    moved, stranded >>

(* `$proxy model` and `$proxy effort`, PUT /admin/model and /admin/effort:  *)
(* validate, persist, apply.                                                *)
Validate(h) ==
    /\ pc[h] = "run" /\ req[h].kind \in {"model", "effort"}
    /\ \E r \in Reports :
          /\ mem' = Refreshed(r)
          /\ \/ /\ req[h].kind = "effort" \/ req[h].value \in ConnectedModels(r) \cup {NoModel}
                /\ pc' = [pc EXCEPT ![h] = "persist"] /\ UNCHANGED << req, loc, answer >>
             \/ /\ req[h].kind = "model" /\ req[h].value \notin ConnectedModels(r) \cup {NoModel}
                /\ IF On(stored) # {} THEN Finish(h, Said("unknown model"))
                   ELSE /\ pc' = [pc EXCEPT ![h] = "announce"]
                        /\ answer' = [answer EXCEPT ![h] = Said("not connected")]
                        /\ UNCHANGED << req, loc >>
    /\ UNCHANGED << file, touched, store, launch, defaults, reload, requests, outside, history >>

Set(d, q) == IF q.kind = "model" THEN [d EXCEPT !.model = q.value]
             ELSE [d EXCEPT !.effort = q.value]

Persist(h) ==
    /\ pc[h] = "persist"
    /\ file' = Set(file, req[h]) /\ touched' = TRUE
    /\ pc' = [pc EXCEPT ![h] = "apply"]
    /\ UNCHANGED << store, launch, mem, defaults, reload, req, loc, answer, requests, outside,
                    history >>

(* update_defaults: a session's own after another snapshot, else memory's.  *)
Apply(h) ==
    /\ pc[h] = "apply"
    /\ IF req[h].session = NoSession
       THEN /\ mem' = [mem EXCEPT !.config = Set(@, req[h])]
            /\ stranded' = (stranded \/ (~touched /\ watcher = <<>> /\ rebuilt = <<>>))
            /\ UNCHANGED defaults
       ELSE /\ \E r \in Reports : mem' = Refreshed(r)
            /\ defaults' = [defaults EXCEPT ![req[h].session] = Set(@, req[h])]
            /\ UNCHANGED stranded
    /\ pc' = [pc EXCEPT ![h] = "announce"]
    /\ UNCHANGED << file, touched, store, launch, reload, req, loc, answer, requests, outside,
                    moved, served >>

(* emit_config announces one more snapshot; what a command answers when it  *)
(* succeeds is left out.                                                    *)
Announce(h) ==
    /\ pc[h] = "announce"
    /\ \E r \in Reports : mem' = Refreshed(r)
    /\ Finish(h, answer[h])
    /\ UNCHANGED << file, touched, store, launch, defaults, reload, requests, outside, history >>

(* The panel pins a session to an account, or lets go of it.                *)
Admin(q, pinned) ==
    /\ requests < MaxRequests
    /\ requests' = requests + 1
    /\ bound' = [bound EXCEPT ![q.session][q.provider] = pinned]
    /\ served' = [served EXCEPT ![q.session][q.provider] = NoAlias]
    /\ UNCHANGED << file, touched, stored, selected, revision, launch, mem, defaults, reload, handlers,
                    outside, moved, stranded >>

PinAccount ==
    \E q \in Requests : q.kind = "pin" /\ q.alias \in stored[q.provider] /\ Admin(q, q.alias)

UnpinAccount == \E q \in Requests : q.kind = "unpin" /\ Admin(q, NoAlias)

-----------------------------------------------------------------------------

Reload == ReloadRead \/ ReloadBuild \/ ReloadInstall

Handle(h) ==
    Arrive(h) \/ Enter(h) \/ Freeze(h) \/ Chat(h) \/ CommandAccount(h)
    \/ Validate(h) \/ Persist(h) \/ Apply(h) \/ Announce(h)

Other ==
    \/ \E p \in Provider, a \in Alias : Connect(p, a) \/ Disconnect(p, a) \/ Select(p, a)
    \/ \E s \in Session, p \in Provider : Prune(s, p)
    \/ \E o \in Overlays : EditFile(o)

Next == Reload \/ Other \/ PinAccount \/ UnpinAccount \/ \E h \in Handler : Handle(h)

Spec == Init /\ [][Next]_vars

(* The watcher is a task of its own that the runtime keeps polling.         *)
FairSpec == Spec /\ WF_vars(Reload)

-----------------------------------------------------------------------------
(* Properties.                                                              *)

(* Every state is well typed; in particular memory never holds a            *)
(* configuration whose router cannot be built.                              *)
TypeOK ==
    /\ stored \in [Provider -> SUBSET Alias]
    /\ selected \in [Provider -> Alias \cup {NoAlias}]
    /\ bound \in [Session -> [Provider -> Alias \cup {NoAlias}]]
    /\ mem.built \in [Provider -> SUBSET Alias]
    /\ pc \in [Handler -> {"idle", "enter", "freeze", "run", "persist", "apply", "announce"}]
    /\ Builds(mem.config)
    /\ \A h \in Handler : answer[h].account \in Alias \cup {NoAlias}
    /\ requests \in 0 .. MaxRequests /\ outside \in 0 .. MaxOutside
    /\ touched \in BOOLEAN /\ stranded \in BOOLEAN

(* Every model the proxy lists is one it serves: the id a client sends back *)
(* after a choice in its model menu, with the marker that got it into the   *)
(* menu, is resolved strictly, and to the provider the id names unless a    *)
(* configured route has exactly that name.  Three kinds of ids are not what *)
(* they look like: one that begins with the marker itself, a route's name   *)
(* that ends in the hint, and p/auto listed as a model of a provider that   *)
(* has no auto model.                                                       *)
PickedIsServed ==
    LET c == mem.config
        Resolved(id) == ResolveName(c, On(mem.built), Unmarked(Shown(id)), TRUE)
        Routed(m) == \E n \in DOMAIN c.routes : ~c.routes[n].prefix /\ c.routes[n].model = m
        Misread(id) == Unmarked(id) # id \/ (Routed(id) /\ Unhinted(id) # id)
        Autoless(m) == \E n \in DOMAIN c.providers :
                          c.providers[n].auto = NoModel
                          /\ m = << c.providers[n].name, "/" >> \o AutoModel
    IN  \A id \in { i \in ListModels(c) : ~Misread(i) } :
           LET m == Unhinted(id)
           IN  /\ Resolved(id).error = "ok" <=> Routed(m) \/ ~Autoless(m)
               /\ ~Routed(m) /\ ~Autoless(m) => Resolved(id).provider = id[1]

(* A session keeps the defaults it started from: neither a reload, nor      *)
(* another session, nor a command without a session changes them, only a    *)
(* command of its own.                                                      *)
SessionKeepsDefaults ==
    [][ \A s \in Session :
            defaults[s] # NoDefaults /\ defaults'[s] # defaults[s] =>
                \E h \in Handler : pc[h] = "apply" /\ req[h].session = s ]_vars

(* All requests of a session that name no account go through one account of *)
(* a provider, whatever is selected meanwhile, until a command of the       *)
(* session or the panel picks another, that account is disconnected, or the *)
(* session goes unused for 30 days and a proxy that starts forgets it.      *)
SessionKeepsAccount ==
    [][ \A s \in Session, p \in Provider :
            served[s][p] # NoAlias => served'[s][p] \in {served[s][p], NoAlias} ]_vars

(* A request is told that its session's account is gone only if it is not   *)
(* in the store, or the store changed while the request was handled, a      *)
(* config file that cannot be built kept the proxy from following it, or an *)
(* overtaken reload brought older accounts back under the newest revision.  *)
(* A change that slipped in while the proxy started, before it tracked the  *)
(* store, comes before Init (AccountTracking).                              *)
RefusalTold ==
    \A h \in Handler, p \in Provider :
        LET a == answer[h]
        IN  a.error = "stale account" /\ a.provider = p /\ h \notin moved
                => a.account \notin stored[p]

(* The instance ends up with the defaults of the file (its own `--model`    *)
(* first) after the last change of either, unless a command without a       *)
(* session wrote its value to memory after the reload its own write set off.*)
Follows ==
    mem.config.model = Or(launch.override, NoModel, EffectiveConfig(Base, file).model)
    /\ mem.config.effort = EffectiveConfig(Base, file).effort

FollowsFile == []<>(Follows \/ stranded \/ ~Builds(EffectiveConfig(Base, file)))
=============================================================================
