----------------------------- MODULE ServeProofs -----------------------------
(* TLAPS proofs about a proxy that serves concurrent requests, for any        *)
(* catalog, config files, accounts, sessions, requests and handlers.          *)
EXTENDS Serve, FiniteSetTheorems, SequenceTheorems, WellFoundedInduction, TLAPS

Overlaying == INSTANCE Folding WITH Op <- Overlaid
Unhiding == INSTANCE Folding WITH Op <- Unhidden

-----------------------------------------------------------------------------
(* The router's operators.                                                    *)

\* A request that is routed is routed to a connected provider.
LEMMA ResolvedConnected ==
    ASSUME NEW c, NEW on, NEW sent, NEW enforce,
           ResolveModel(c, on, sent, enforce).error = "ok"
    PROVE  ResolveModel(c, on, sent, enforce).provider \in on
BY DEF ResolveModel, Failed

\* Without a header the account is the one chosen, or an error says why not.
LEMMA AccountForChosen ==
    ASSUME NEW built, NEW chosen, chosen # NoAlias
    PROVE  AccountFor(built, NoAlias, chosen) =
              IF chosen \in built THEN chosen ELSE "stale account"
BY DEF AccountFor

\* The account a request is answered with is one that clients were built for.
LEMMA AccountForBuilt ==
    ASSUME NEW built, NEW header, NEW chosen, AccountFor(built, header, chosen) \in Alias
    PROVE  AccountFor(built, header, chosen) \in built
BY ServeAssumption DEF AccountFor

\* A session's own account wins while it is stored.
LEMMA ChosenBound ==
    ASSUME NEW s, NEW p, s # NoSession, bound[s][p] \in stored[p]
    PROVE  Chosen(s, p) = bound[s][p]
BY DEF Chosen

-----------------------------------------------------------------------------
(* Configurations and states keep their shape.                                *)

\* c has the fields of a configuration, and no other.
Shaped(c) ==
    c = [providers |-> c.providers, routes |-> c.routes, provider |-> c.provider,
         model |-> c.model, effort |-> c.effort]

\* m has the fields of memory, and no other.
IsState(m) == m = [config |-> m.config, built |-> m.built, seen |-> m.seen,
                   overtaken |-> m.overtaken]

\* l has the fields of a RuntimeState, and no other.
IsView(l) == l = [config |-> l.config, built |-> l.built]

\* A configuration that a proxy may run.
Runnable(c) == Shaped(c) /\ Builds(c)

\* The effective configuration has the fields of one.
LEMMA EffectiveShaped ==
    ASSUME NEW b, NEW o
    PROVE  Shaped(EffectiveConfig(b, o))
BY DEF Shaped, EffectiveConfig

\* Discovery adds models to providers: the routes and the providers' names stay.
LEMMA DiscoverKeeps ==
    ASSUME NEW c, NEW on, NEW r, Shaped(c)
    PROVE  /\ Shaped(Discover(c, on, r))
           /\ Builds(c) <=> Builds(Discover(c, on, r))
<1> DEFINE d == Discover(c, on, r)
<1>1. /\ d = [c EXCEPT !.providers = d.providers]
      /\ DOMAIN d.providers = DOMAIN c.providers
      /\ \A n \in DOMAIN c.providers : d.providers[n].name = c.providers[n].name
  BY DEF Shaped, Discover
<1>2. Shaped(d) /\ d.routes = c.routes
  BY <1>1 DEF Shaped
<1>3. \A name : Has(d.providers, name) <=> Has(c.providers, name)
  BY <1>1 DEF Has
<1>4. QED
  BY <1>2, <1>3 DEF Builds

\* A new default model, effort or launch override concerns no route.
LEMMA DefaultsKeep ==
    ASSUME NEW c, NEW m, NEW e, Runnable(c)
    PROVE  Runnable([c EXCEPT !.model = m]) /\ Runnable([c EXCEPT !.effort = e])
BY DEF Runnable, Shaped, Builds

\* What a build makes can be run when it was built from a configuration that can.
LEMMA BuiltKeeps ==
    ASSUME NEW c, NEW r, Runnable(c)
    PROVE  /\ Runnable(Built(c, r).config)
           /\ Built(c, r).built = stored /\ Built(c, r).of = revision
<1>1. Runnable(Discover(c, On(stored), r))
  BY DiscoverKeeps DEF Runnable
<1>2. QED
  BY <1>1 DEF Built

\* Installing it changes no more than the default model.
LEMMA InstalledKeeps ==
    ASSUME NEW b, NEW seen, Runnable(b.config)
    PROVE  /\ IsState(Installed(b, seen)) /\ Runnable(Installed(b, seen).config)
           /\ Installed(b, seen).built = b.built /\ Installed(b, seen).seen = seen
           /\ Installed(b, seen).overtaken <=> b.of < seen
<1>1. Runnable(Carry(b.config))
  BY DefaultsKeep DEF Carry
<1>2. QED
  <2>1. Installed(b, seen).overtaken <=> b.of < seen
    BY Zenon DEF Installed
  <2>2. QED
    BY <1>1, <2>1 DEF Installed, IsState

\* A snapshot leaves memory as it was or brings the stored accounts in; the
\* revision stays unseen only if the config file cannot be built.
LEMMA RefreshedKeeps ==
    ASSUME IsState(mem), Runnable(mem.config), revision \in Nat, NEW r
    PROVE  /\ IsState(Refreshed(r)) /\ Runnable(Refreshed(r).config)
           /\ \/ /\ Refreshed(r) = mem
                 /\ mem.seen = revision \/ ~Builds(EffectiveConfig(Base, file))
              \/ /\ Refreshed(r).built = stored /\ Refreshed(r).seen = revision
                 /\ ~Refreshed(r).overtaken
<1> DEFINE c == EffectiveConfig(Base, file)
<1>1. CASE mem.seen = revision
  BY <1>1 DEF Refreshed
<1>2. CASE mem.seen # revision /\ On(stored) = On(mem.built)
  <2>1. Refreshed(r) = [mem EXCEPT !.built = stored, !.seen = revision, !.overtaken = FALSE]
    BY <1>2 DEF Refreshed
  <2>2. Refreshed(r) = [config |-> mem.config, built |-> stored, seen |-> revision,
                        overtaken |-> FALSE]
    BY <2>1 DEF IsState
  <2>3. QED
    BY <2>2 DEF IsState
<1>3. CASE mem.seen # revision /\ On(stored) # On(mem.built) /\ Builds(c)
  <2>1. Runnable(Built(c, r).config) /\ Built(c, r).built = stored /\ Built(c, r).of = revision
    BY <1>3, EffectiveShaped, BuiltKeeps DEF Runnable
  <2>2. Refreshed(r) = Installed(Built(c, r), revision)
    BY <1>3 DEF Refreshed
  <2>3. /\ IsState(Refreshed(r)) /\ Runnable(Refreshed(r).config)
        /\ Refreshed(r).built = stored /\ Refreshed(r).seen = revision
        /\ Refreshed(r).overtaken <=> revision < revision
    BY <2>1, <2>2, InstalledKeeps
  <2>4. ~(revision < revision)
    OBVIOUS
  <2>5. QED
    BY <2>3, <2>4
<1>4. CASE mem.seen # revision /\ On(stored) # On(mem.built) /\ ~Builds(c)
  BY <1>4 DEF Refreshed
<1>5. QED
  BY <1>1, <1>2, <1>3, <1>4

\* A command's value concerns no route either.
LEMMA SetKeeps ==
    ASSUME NEW c, NEW q, Runnable(c)
    PROVE  Runnable(Set(c, q))
BY DefaultsKeep DEF Set

-----------------------------------------------------------------------------
(* Types.                                                                     *)

\* Memory and the handlers' clones are states, and memory and the reload under
\* way hold configurations; what a reload has built can be run.
MemoryInv ==
    /\ IsState(mem) /\ Runnable(mem.config) /\ revision \in Nat
    /\ watcher # <<>> => Shaped(watcher[1])
    /\ rebuilt # <<>> => Runnable(rebuilt[1].config)
                         /\ rebuilt[1].built \in [Provider -> SUBSET Alias]
    /\ DOMAIN loc = Handler
    /\ \A h \in Handler : IsView(loc[h])

\* The variables TypeOK says little of.
HistoryTyped ==
    /\ served \in [Session -> [Provider -> Alias \cup {NoAlias}]]
    /\ DOMAIN defaults = Session
    /\ DOMAIN req = Handler
    /\ DOMAIN answer = Handler
    /\ \A h \in Handler : pc[h] # "idle" => req[h] \in Requests

TypeInv == TypeOK /\ MemoryInv /\ HistoryTyped

\* What a session is given, or a client without one, is an account or none.
LEMMA ChosenTyped ==
    ASSUME TypeOK, NEW s, NEW p \in Provider
    PROVE  Chosen(s, p) \in Alias \cup {NoAlias}
BY DEF TypeOK, Chosen

\* Memory stays a state that can be run, whatever a step does to it.
LEMMA MemoryStep ==
    ASSUME TypeInv, [Next]_vars
    PROVE  MemoryInv' /\ mem'.built \in [Provider -> SUBSET Alias]
<1> DEFINE Held == IsState(mem) /\ Runnable(mem.config) /\ mem.built \in [Provider -> SUBSET Alias]
           Reloading ==
              /\ watcher # <<>> => Shaped(watcher[1])
              /\ rebuilt # <<>> => Runnable(rebuilt[1].config)
                                   /\ rebuilt[1].built \in [Provider -> SUBSET Alias]
           Viewed == DOMAIN loc = Handler /\ \A h \in Handler : IsView(loc[h])
<1>0. Held /\ Reloading /\ Viewed /\ stored \in [Provider -> SUBSET Alias] /\ revision \in Nat
  BY DEF TypeInv, MemoryInv, TypeOK
<1>1. ASSUME NEW r, mem' = Refreshed(r)
      PROVE  Held'
  BY <1>0, <1>1, RefreshedKeeps
<1>2. ASSUME NEW h \in Handler, NEW a, Finish(h, a)
      PROVE  Viewed'
  <2>1. IsView(NoState)
    BY DEF NoState, IsView
  <2>2. QED
    BY <1>0, <1>2, <2>1 DEF Finish
<1>3. revision' \in Nat
  <2>1. ASSUME NEW h \in Handler, Handle(h) PROVE revision' = revision
    BY <2>1 DEF Handle, Arrive, Enter, Freeze, Chat, CommandAccount, Validate, Persist, Apply,
         Announce, store
  <2>2. ASSUME Reload \/ PinAccount \/ UnpinAccount \/ UNCHANGED vars PROVE revision' = revision
    BY <2>2 DEF Reload, ReloadRead, ReloadBuild, ReloadInstall, PinAccount, UnpinAccount, Admin,
         vars, store
  <2>3. ASSUME Other PROVE revision' \in {revision, revision + 1}
    BY <2>3 DEF Other, Connect, Disconnect, Select, Prune, EditFile, store
  <2>4. QED
    BY <1>0, <2>1, <2>2, <2>3 DEF Next
<1>4. Held'
  <2>1. CASE \E r : mem' = Refreshed(r)
    BY <1>1, <2>1
  <2>2. CASE mem' = mem
    BY <1>0, <2>2
  <2>3. CASE ReloadInstall
    BY <1>0, <2>3, InstalledKeeps DEF ReloadInstall
  <2>4. ASSUME NEW h \in Handler, Apply(h)
        PROVE  Held'
    <3>1. CASE mem' = [mem EXCEPT !.config = Set(@, req[h])]
      <4>1. Runnable(Set(mem.config, req[h]))
        BY <1>0, SetKeeps
      <4>2. IsState(mem') /\ mem'.config = Set(mem.config, req[h]) /\ mem'.built = mem.built
        BY <1>0, <3>1 DEF IsState
      <4>3. QED
        BY <1>0, <4>1, <4>2
    <3>2. QED
      BY <2>1, <2>4, <3>1 DEF Apply
  <2>5. ASSUME NEW h \in Handler, Handle(h), ~Apply(h)
        PROVE  (\E r : mem' = Refreshed(r)) \/ mem' = mem
    BY <2>5 DEF Handle, Arrive, Enter, Took, Freeze, Chat, CommandAccount, Validate, Persist, Announce
  <2>6. ASSUME ReloadRead \/ ReloadBuild \/ Other \/ PinAccount \/ UnpinAccount \/ UNCHANGED vars
        PROVE  (\E r : mem' = Refreshed(r)) \/ mem' = mem
    BY <2>6 DEF ReloadRead, ReloadBuild, Other, Connect, Disconnect, Select, Prune, EditFile, Outside,
         PinAccount, UnpinAccount, Admin, vars
  <2>7. QED
    BY <2>1, <2>2, <2>3, <2>4, <2>5, <2>6 DEF Next, Reload
<1>5. Reloading'
  <2>1. CASE UNCHANGED reload
    BY <1>0, <2>1 DEF reload
  <2>2. CASE ReloadRead
    BY <1>0, <2>2, EffectiveShaped DEF ReloadRead
  <2>3. CASE ReloadBuild
    <3>1. PICK r \in Reports :
             rebuilt' = IF Builds(watcher[1]) THEN << Built(watcher[1], r) >> ELSE <<>>
      BY <2>3 DEF ReloadBuild
    <3>2. watcher # <<>> /\ watcher' = <<>>
      BY <2>3 DEF ReloadBuild
    <3>3. CASE Builds(watcher[1])
      BY <1>0, <3>1, <3>2, <3>3, BuiltKeeps DEF Runnable
    <3>4. QED
      BY <3>1, <3>2, <3>3
  <2>4. CASE ReloadInstall
    BY <1>0, <2>4 DEF ReloadInstall
  <2>5. ASSUME NEW h \in Handler, Handle(h)
        PROVE  UNCHANGED reload
    BY <2>5 DEF Handle, Arrive, Enter, Took, Freeze, Chat, CommandAccount, Validate, Persist,
         Apply, Announce
  <2>6. ASSUME Other \/ PinAccount \/ UnpinAccount \/ UNCHANGED vars
        PROVE  UNCHANGED reload
    BY <2>6 DEF Other, Connect, Disconnect, Select, Prune, EditFile, Outside, PinAccount,
         UnpinAccount, Admin, vars
  <2>7. QED
    BY <2>1, <2>2, <2>3, <2>4, <2>5, <2>6 DEF Next, Reload
<1>6. Viewed'
  <2>1. CASE loc' = loc
    BY <1>0, <2>1
  <2>2. ASSUME NEW h \in Handler, Enter(h)
        PROVE  Viewed'
    <3>1. PICK v : loc' = [loc EXCEPT ![h] = v] /\ IsView(v)
      BY <2>2 DEF Enter, Took, IsView
    <3>2. QED
      BY <1>0, <3>1
  <2>3. ASSUME NEW h \in Handler, Freeze(h)
        PROVE  Viewed'
    <3>1. PICK c : loc' = [loc EXCEPT ![h].config = c]
      BY <2>3 DEF Freeze
    <3>2. QED
      BY <1>0, <3>1 DEF IsView
  <2>4. ASSUME NEW h \in Handler, Handle(h), ~Enter(h), ~Freeze(h)
        PROVE  loc' = loc \/ \E a : Finish(h, a)
    BY <2>4 DEF Handle, Arrive, Chat, CommandAccount, Validate, Persist, Apply, Announce
  <2>5. ASSUME Reload \/ Other \/ PinAccount \/ UnpinAccount \/ UNCHANGED vars
        PROVE  loc' = loc
    BY <2>5 DEF Reload, ReloadRead, ReloadBuild, ReloadInstall, Other, Connect, Disconnect, Select,
         Prune, EditFile, Outside, PinAccount, UnpinAccount, Admin, vars, handlers
  <2>6. QED
    BY <1>2, <2>1, <2>2, <2>3, <2>4, <2>5 DEF Next
<1>7. QED
  BY <1>3, <1>4, <1>5, <1>6 DEF MemoryInv

\* What a finished request leaves of its handler.
LEMMA FinishTyped ==
    ASSUME TypeInv, NEW h \in Handler, NEW a, Finish(h, a), a.account \in Alias \cup {NoAlias}
    PROVE  /\ DOMAIN answer' = Handler /\ DOMAIN req' = Handler
           /\ \A g \in Handler : pc'[g] # "idle" => req'[g] \in Requests
           /\ \A g \in Handler : answer'[g].account \in Alias \cup {NoAlias}
           /\ pc' \in [Handler -> {"idle", "enter", "freeze", "run", "persist", "apply", "announce"}]
BY DEF Finish, TypeInv, TypeOK, HistoryTyped

\* The answer of a chat: an account that was built, the router's error, or the
\* reason why the chosen account cannot be used.
LEMMA ChatAnswer ==
    ASSUME TypeInv, NEW h \in Handler, Chat(h)
    PROVE  \E a : /\ Finish(h, a)
                 /\ a.account \in Alias \cup {NoAlias}
                 /\ \/ a.error = "ok"
                    \/ a.provider = NoProvider
                    \/ \E p \in Provider :
                          /\ a.provider = p /\ a.error \notin Alias
                          /\ LET chosen == IF req[h].header = NoAlias
                                           THEN Chosen(req[h].session, p) ELSE NoAlias
                             IN  /\ a.account = chosen
                                 /\ a.error = AccountFor(loc[h].built[p], req[h].header, chosen)
<1> DEFINE q == req[h]
           built == loc[h].built
           route == ResolveModel(loc[h].config, On(built), q.model, launch.enforce)
           p == route.provider
           asks == route.error = "ok" /\ q.header = NoAlias
           chosen == IF asks THEN Chosen(q.session, p) ELSE NoAlias
           account == AccountFor(built[p], q.header, chosen)
           reason == [Said(account) EXCEPT !.provider = p, !.account = chosen]
<1> HIDE DEF route
<1>1. CASE route.error # "ok"
  <2>1. Finish(h, Said(route.error))
    BY <1>1 DEF Chat, route
  <2>2. Said(route.error).account = NoAlias /\ Said(route.error).provider = NoProvider
    BY DEF Said, Answered, Failed
  <2>3. QED
    BY <2>1, <2>2
<1>2. CASE route.error = "ok"
  <2>1. p \in Provider
    BY <1>2, ResolvedConnected DEF On, route
  <2>2. Finish(h, IF account \in Alias THEN Answered(route, account) ELSE reason)
    BY <1>2 DEF Chat, route
  <2>3. CASE account \in Alias
    <3>1. Answered(route, account).error = "ok" /\ Answered(route, account).account \in Alias
      BY <2>3 DEF Answered
    <3>2. QED
      BY <2>2, <2>3, <3>1
  <2>4. CASE account \notin Alias
    <3>1. reason.error = account /\ reason.provider = p /\ reason.account = chosen
      BY DEF Said, Answered
    <3>2. chosen \in Alias \cup {NoAlias}
      BY <2>1, ChosenTyped DEF TypeInv
    <3>3. chosen = IF q.header = NoAlias THEN Chosen(q.session, p) ELSE NoAlias
      BY <1>2
    <3>4. QED
      BY <2>1, <2>2, <2>4, <3>1, <3>2, <3>3
  <2>5. QED
    BY <2>3, <2>4
<1>3. QED
  BY <1>1, <1>2

\* TypeOK and HistoryTyped by the parts of the state they speak of.
StoresTyped ==
    /\ stored \in [Provider -> SUBSET Alias]
    /\ selected \in [Provider -> Alias \cup {NoAlias}]
    /\ bound \in [Session -> [Provider -> Alias \cup {NoAlias}]]
    /\ served \in [Session -> [Provider -> Alias \cup {NoAlias}]]

HandlersTyped ==
    /\ pc \in [Handler -> {"idle", "enter", "freeze", "run", "persist", "apply", "announce"}]
    /\ DOMAIN answer = Handler /\ DOMAIN req = Handler
    /\ \A h \in Handler : pc[h] # "idle" => req[h] \in Requests
    /\ \A h \in Handler : answer[h].account \in Alias \cup {NoAlias}

CountersTyped ==
    /\ requests \in 0 .. MaxRequests /\ outside \in 0 .. MaxOutside
    /\ touched \in BOOLEAN /\ stranded \in BOOLEAN
    /\ DOMAIN defaults = Session

\* A row of a session keeps the type of its table, whatever the session.
LEMMA RowTyped ==
    ASSUME NEW table \in [Session -> [Provider -> Alias \cup {NoAlias}]], NEW s, NEW p,
           NEW a \in Alias \cup {NoAlias}
    PROVE  [table EXCEPT ![s][p] = a] \in [Session -> [Provider -> Alias \cup {NoAlias}]]
<1>1. CASE s \in Session
  <2>1. [table[s] EXCEPT ![p] = a] \in [Provider -> Alias \cup {NoAlias}]
    BY <1>1
  <2>2. QED
    BY <2>1
<1>2. CASE s \notin Session
  BY <1>2
<1>3. QED
  BY <1>1, <1>2

\* The bounds are numbers, and requests name providers.
LEMMA ConstantFacts ==
    /\ MaxRequests \in Nat /\ MaxOutside \in Nat
    /\ \A q \in Requests : q.kind \in {"account", "pin", "unpin"} => q.provider \in Provider
BY ServeAssumption

\* Every variable keeps its type.
LEMMA TypesStep ==
    ASSUME TypeInv, [Next]_vars
    PROVE  TypeInv'
<1>0. StoresTyped /\ HandlersTyped /\ CountersTyped
  BY DEF TypeInv, TypeOK, HistoryTyped, StoresTyped, HandlersTyped, CountersTyped
<1>1. ASSUME UNCHANGED vars
      PROVE  StoresTyped' /\ HandlersTyped' /\ CountersTyped'
  BY <1>0, <1>1 DEF StoresTyped, HandlersTyped, CountersTyped, vars, store, handlers, history
<1>2. ASSUME Other
      PROVE  StoresTyped' /\ HandlersTyped' /\ CountersTyped'
  <2>1. Outside /\ touched' \in BOOLEAN
    BY <1>0, <1>2 DEF CountersTyped, Other, Connect, Disconnect, Select, Prune, EditFile
  <2>2. HandlersTyped' /\ CountersTyped'
    BY <1>0, <2>1, ConstantFacts DEF HandlersTyped, CountersTyped, Outside, handlers
  <2>3. StoresTyped'
    <3>1. CASE \E p \in Provider, a \in Alias : Connect(p, a) \/ Select(p, a)
      <4>1. PICK p \in Provider, a \in Alias : Connect(p, a) \/ Select(p, a)
        BY <3>1
      <4>2. /\ stored' = stored \/ stored' = [stored EXCEPT ![p] = @ \cup {a}]
            /\ \E b \in Alias \cup {NoAlias} : selected' = [selected EXCEPT ![p] = b]
        BY <1>0, <4>1 DEF StoresTyped, Connect, Select, Or
      <4>3. UNCHANGED << bound, served >>
        BY <4>1 DEF Connect, Select
      <4>4. QED
        BY <1>0, <4>2, <4>3 DEF StoresTyped
    <3>2. CASE \E p \in Provider, a \in Alias : Disconnect(p, a)
      BY <1>0, <3>2 DEF StoresTyped, Disconnect, Outside, Forgotten
    <3>3. CASE \E o \in Overlays : EditFile(o)
      BY <1>0, <3>3 DEF StoresTyped, EditFile, Outside, store
    <3>4. CASE \E s \in Session, p \in Provider : Prune(s, p)
      BY <1>0, <3>4, RowTyped DEF StoresTyped, Prune
    <3>5. QED
      BY <1>2, <3>1, <3>2, <3>3, <3>4 DEF Other
  <2>4. QED
    BY <2>2, <2>3
<1>3. ASSUME Reload
      PROVE  StoresTyped' /\ HandlersTyped' /\ CountersTyped'
  BY <1>0, <1>3 DEF StoresTyped, HandlersTyped, CountersTyped, Reload, ReloadRead, ReloadBuild, ReloadInstall,
       store, handlers, history
<1>4. ASSUME PinAccount \/ UnpinAccount
      PROVE  StoresTyped' /\ HandlersTyped' /\ CountersTyped'
  <2>1. PICK q \in Requests, a \in Alias \cup {NoAlias} : Admin(q, a)
    <3>1. CASE PinAccount
      <4>1. PICK q \in Requests : q.kind = "pin" /\ q.alias \in stored[q.provider] /\ Admin(q, q.alias)
        BY <3>1 DEF PinAccount
      <4>2. q.alias \in Alias
        BY <1>0, <4>1, ConstantFacts DEF StoresTyped
      <4>3. QED
        BY <4>1, <4>2
    <3>2. CASE UnpinAccount
      BY <3>2 DEF UnpinAccount
    <3>3. QED
      BY <1>4, <3>1, <3>2
  <2>2. HandlersTyped' /\ CountersTyped'
    BY <1>0, <2>1, ConstantFacts DEF HandlersTyped, CountersTyped, Admin, handlers
  <2>3. StoresTyped'
    BY <1>0, <2>1, RowTyped DEF StoresTyped, Admin
  <2>4. QED
    BY <2>2, <2>3
<1>5. ASSUME NEW h \in Handler, Arrive(h) \/ Enter(h) \/ Freeze(h) \/ Persist(h)
      PROVE  StoresTyped' /\ HandlersTyped' /\ CountersTyped'
  <2>1. NoAnswer.account = NoAlias
    BY DEF NoAnswer, Said, Answered, Failed
  <2>2. StoresTyped'
    BY <1>0, <1>5 DEF StoresTyped, Arrive, Enter, Freeze, Persist, store, history
  <2>3. CountersTyped'
    <3>1. CASE Arrive(h)
      BY <1>0, <3>1, ConstantFacts DEF CountersTyped, Arrive
    <3>2. CASE Enter(h) \/ Persist(h)
      BY <1>0, <3>2 DEF CountersTyped, Enter, Persist, history
    <3>3. CASE Freeze(h)
      <4>1. DOMAIN defaults' = DOMAIN defaults
        BY <3>3 DEF Freeze
      <4>2. QED
        BY <1>0, <3>3, <4>1 DEF CountersTyped, Freeze, history
    <3>4. QED
      BY <1>5, <3>1, <3>2, <3>3
  <2>4. HandlersTyped'
    BY <1>0, <1>5, <2>1 DEF HandlersTyped, Arrive, Enter, Took, Freeze, Persist
  <2>5. QED
    BY <2>2, <2>3, <2>4
<1>6. ASSUME NEW h \in Handler, Chat(h)
      PROVE  StoresTyped' /\ HandlersTyped' /\ CountersTyped'
  <2>1. HandlersTyped'
    BY <1>6, ChatAnswer, FinishTyped DEF HandlersTyped
  <2>2. CountersTyped' /\ UNCHANGED << stored, selected >>
    BY <1>0, <1>6 DEF CountersTyped, Chat
  <2>3. StoresTyped'
    <3> DEFINE q == req[h]
               route == ResolveModel(loc[h].config, On(loc[h].built), q.model, launch.enforce)
               p == route.provider
               asks == route.error = "ok" /\ q.header = NoAlias
               chosen == IF asks THEN Chosen(q.session, p) ELSE NoAlias
               account == AccountFor(loc[h].built[p], q.header, chosen)
    <3> HIDE DEF route, account
    <3>1. /\ bound' = bound \/ (route.error = "ok" /\ bound' = [bound EXCEPT ![q.session][p] = chosen])
          /\ served' = served \/ (route.error = "ok" /\ account \in stored[p] /\
                                  served' = [served EXCEPT ![q.session][p] = account])
      BY <1>6 DEF Chat, route, account
    <3>2. route.error = "ok" => p \in Provider
      BY ResolvedConnected DEF On, route
    <3>3. route.error = "ok" => chosen \in Alias \cup {NoAlias}
      BY <3>2, ChosenTyped DEF TypeInv
    <3>4. route.error = "ok" /\ account \in stored[p] => account \in Alias \cup {NoAlias}
      BY <1>0, <3>2 DEF StoresTyped
    <3> HIDE DEF chosen, p, q
    <3>5. bound' \in [Session -> [Provider -> Alias \cup {NoAlias}]]
      <4>1. CASE route.error = "ok" /\ bound' = [bound EXCEPT ![q.session][p] = chosen]
        BY <1>0, <3>3, <4>1, RowTyped DEF StoresTyped
      <4>2. QED
        BY <1>0, <3>1, <4>1 DEF StoresTyped
    <3>6. served' \in [Session -> [Provider -> Alias \cup {NoAlias}]]
      <4>1. CASE route.error = "ok" /\ account \in stored[p] /\ served' = [served EXCEPT ![q.session][p] = account]
        BY <1>0, <3>4, <4>1, RowTyped DEF StoresTyped
      <4>2. QED
        BY <1>0, <3>1, <4>1 DEF StoresTyped
    <3>7. QED
      BY <1>0, <2>2, <3>5, <3>6 DEF StoresTyped
  <2>4. QED
    BY <2>1, <2>2, <2>3
<1>7. ASSUME NEW h \in Handler, CommandAccount(h) \/ Validate(h) \/ Announce(h)
      PROVE  StoresTyped' /\ HandlersTyped' /\ CountersTyped'
  <2>1. \A e : Said(e).account = NoAlias
    BY DEF Said, Answered, Failed
  <2>2. CountersTyped'
    BY <1>0, <1>7 DEF CountersTyped, CommandAccount, Validate, Announce, history
  <2>3. \/ Finish(h, answer[h])
        \/ \E e : Finish(h, Said(e))
        \/ /\ req' = req /\ pc[h] = "run"
           /\ pc' = [pc EXCEPT ![h] = "announce"] \/ pc' = [pc EXCEPT ![h] = "persist"]
           /\ answer' = answer \/ \E e : answer' = [answer EXCEPT ![h] = Said(e)]
    BY <1>7 DEF CommandAccount, Validate, Announce
  <2>4. HandlersTyped'
    <3>1. CASE \E e : Finish(h, Said(e))
      BY <2>1, <3>1, FinishTyped DEF HandlersTyped
    <3>2. CASE Finish(h, answer[h])
      BY <1>0, <3>2, FinishTyped DEF HandlersTyped
    <3>3. CASE /\ req' = req /\ pc[h] = "run"
               /\ pc' = [pc EXCEPT ![h] = "announce"] \/ pc' = [pc EXCEPT ![h] = "persist"]
               /\ answer' = answer \/ \E e : answer' = [answer EXCEPT ![h] = Said(e)]
      <4>1. /\ pc' \in [Handler -> {"idle", "enter", "freeze", "run", "persist", "apply", "announce"}]
            /\ \A g \in Handler : pc'[g] # "idle" => pc[g] # "idle"
        BY <1>0, <3>3 DEF HandlersTyped
      <4>2. DOMAIN answer' = Handler /\ \A g \in Handler : answer'[g].account \in Alias \cup {NoAlias}
        BY <1>0, <2>1, <3>3 DEF HandlersTyped
      <4>3. QED
        BY <1>0, <3>3, <4>1, <4>2 DEF HandlersTyped
    <3>4. QED
      BY <2>3, <3>1, <3>2, <3>3
  <2>5. StoresTyped'
    <3>1. CASE CommandAccount(h)
      <4> DEFINE p == req[h].provider
                 a == req[h].alias
                 s == req[h].session
      <4>1. p \in Provider
        BY <1>0, <3>1, ConstantFacts DEF HandlersTyped, CommandAccount
      <4>2. CASE a \notin stored[p]
        BY <1>0, <3>1, <4>2 DEF StoresTyped, CommandAccount
      <4>3. CASE a \in stored[p]
        <5>1. a \in Alias \cup {NoAlias}
          BY <1>0, <4>1, <4>3 DEF StoresTyped
        <5>2. /\ stored' = stored /\ selected' = [selected EXCEPT ![p] = a]
              /\ \/ bound' = bound /\ served' = served
                 \/ bound' = [bound EXCEPT ![s][p] = a] /\ served' = [served EXCEPT ![s][p] = NoAlias]
          BY <3>1, <4>3 DEF CommandAccount
        <5> HIDE DEF p, a, s
        <5>3. /\ bound' \in [Session -> [Provider -> Alias \cup {NoAlias}]]
              /\ served' \in [Session -> [Provider -> Alias \cup {NoAlias}]]
          <6>1. CASE bound' = [bound EXCEPT ![s][p] = a] /\ served' = [served EXCEPT ![s][p] = NoAlias]
            BY <1>0, <5>1, <6>1, RowTyped DEF StoresTyped
          <6>2. QED
            BY <1>0, <5>2, <6>1 DEF StoresTyped
        <5>4. QED
          BY <1>0, <5>1, <5>2, <5>3 DEF StoresTyped
      <4>4. QED
        BY <4>2, <4>3
    <3>2. CASE Validate(h) \/ Announce(h)
      BY <1>0, <3>2 DEF StoresTyped, Validate, Announce, store, history
    <3>3. QED
      BY <1>7, <3>1, <3>2
  <2>6. QED
    BY <2>2, <2>4, <2>5
<1>8. ASSUME NEW h \in Handler, Apply(h)
      PROVE  StoresTyped' /\ HandlersTyped' /\ CountersTyped'
  BY <1>0, <1>8 DEF StoresTyped, HandlersTyped, CountersTyped, Apply, store
<1>9. StoresTyped' /\ HandlersTyped' /\ CountersTyped'
  BY <1>1, <1>2, <1>3, <1>4, <1>5, <1>6, <1>7, <1>8 DEF Next, Handle
<1>10. QED
  BY <1>9, MemoryStep
  DEF TypeInv, TypeOK, HistoryTyped, MemoryInv, Runnable, StoresTyped, HandlersTyped, CountersTyped

\* The proxy starts well typed.
LEMMA TypesInit ==
    ASSUME Init
    PROVE  TypeInv
<1>1. stored \in [Provider -> SUBSET Alias]
  BY ServeAssumption DEF Init
<1>2. selected \in [Provider -> Alias \cup {NoAlias}]
  <2>1. \A p \in Provider : stored[p] # {} => (CHOOSE a \in stored[p] : TRUE) \in Alias
    BY <1>1
  <2>2. QED
    BY <2>1 DEF Init
<1>3. IsState(mem) /\ Runnable(mem.config) /\ mem.built = stored
  <2>1. Runnable(EffectiveConfig(Base, file))
    BY EffectiveShaped DEF Init, Runnable
  <2>2. QED
    BY <2>1, BuiltKeeps, InstalledKeeps DEF Init
<1>4. IsView(NoState) /\ NoAnswer.account = NoAlias
  BY DEF NoState, IsView, NoAnswer, Said, Answered, Failed
<1>5. TypeOK
  <2>1. /\ bound \in [Session -> [Provider -> Alias \cup {NoAlias}]]
        /\ pc \in [Handler -> {"idle", "enter", "freeze", "run", "persist", "apply", "announce"}]
        /\ \A h \in Handler : answer[h].account \in Alias \cup {NoAlias}
    BY <1>4 DEF Init
  <2>2. requests = 0 /\ outside = 0
    BY DEF Init
  <2>3. requests \in 0 .. MaxRequests /\ outside \in 0 .. MaxOutside
    BY <2>2, ConstantFacts
  <2>4. touched \in BOOLEAN /\ stranded \in BOOLEAN
    BY ServeAssumption DEF Init
  <2>5. mem.built \in [Provider -> SUBSET Alias] /\ Builds(mem.config)
    BY <1>1, <1>3 DEF Runnable
  <2>6. QED
    BY <1>1, <1>2, <2>1, <2>3, <2>4, <2>5 DEF TypeOK
<1>6. QED
  BY <1>3, <1>4, <1>5 DEF Init, TypeInv, MemoryInv, HistoryTyped

-----------------------------------------------------------------------------
(* Requests, sessions and accounts.                                           *)

\* The selected account of a provider is stored; there is one whenever the
\* provider has an account.
SelectionInv ==
    \A p \in Provider : selected[p] \in stored[p] \/ (selected[p] = NoAlias /\ stored[p] = {})

\* The account a session was last served by is the one it is bound to, and is
\* stored.
ServedInv ==
    \A s \in Session, p \in Provider :
        served[s][p] # NoAlias => bound[s][p] = served[s][p] /\ served[s][p] \in stored[p]

\* A request that met no change of the store works on the stored accounts.
SnapshotInv ==
    \A h \in Handler : pc[h] \in {"freeze", "run"} /\ h \notin moved => loc[h].built = stored

\* A request under way has not been refused for an account.
AnswerInv == \A h \in Handler : pc[h] # "idle" => answer[h].provider \notin Provider

\* Under the revision it has seen, memory holds the stored accounts, unless an
\* overtaken reload put others there; so does a reload under way under the
\* revision it built them of.
FreshInv ==
    /\ revision \in Nat /\ mem.seen \in 0 .. revision
    /\ mem.seen = revision /\ ~mem.overtaken => mem.built = stored
    /\ rebuilt # <<>> => /\ rebuilt[1].of \in 0 .. revision
                         /\ rebuilt[1].of = revision => rebuilt[1].built = stored

AccountInv == SelectionInv /\ ServedInv
RequestInv == SnapshotInv /\ AnswerInv /\ RefusalTold

\* Bound and served accounts of other sessions and providers stay when a row is
\* written.
LEMMA RowRead ==
    ASSUME NEW table \in [Session -> [Provider -> Alias \cup {NoAlias}]],
           NEW t, NEW q, NEW a,
           NEW s \in Session, NEW p \in Provider
    PROVE  [table EXCEPT ![t][q] = a][s][p] = IF t = s /\ q = p THEN a ELSE table[s][p]
OBVIOUS

\* What a chat does to the store and the history, and why: the account a session
\* is answered by is the one it was bound to or has just been bound to.
LEMMA ChatAccounts ==
    ASSUME TypeInv, AccountInv, NEW h \in Handler, Chat(h)
    PROVE  \/ UNCHANGED << bound, served >>
           \/ \E p \in Provider :
                 LET s == req[h].session
                     a == Chosen(s, p)
                 IN  /\ s # NoSession /\ a # NoAlias
                     /\ bound' = [bound EXCEPT ![s][p] = a]
                     /\ \/ served' = served
                        \/ a \in stored[p] /\ served' = [served EXCEPT ![s][p] = a]
<1> DEFINE q == req[h]
           route == ResolveModel(loc[h].config, On(loc[h].built), q.model, launch.enforce)
           p == route.provider
           asks == route.error = "ok" /\ q.header = NoAlias
           chosen == IF asks THEN Chosen(q.session, p) ELSE NoAlias
           account == AccountFor(loc[h].built[p], q.header, chosen)
<1> HIDE DEF route
<1>1. CASE ~(asks /\ q.session # NoSession)
  BY <1>1 DEF Chat, route
<1>2. CASE asks /\ q.session # NoSession
  <2>1. p \in Provider
    BY <1>2, ResolvedConnected DEF On, route
  <2>2. /\ bound' = IF chosen # NoAlias THEN [bound EXCEPT ![q.session][p] = chosen] ELSE bound
        /\ served' = IF account \in stored[p]
                     THEN [served EXCEPT ![q.session][p] = account] ELSE served
    BY <1>2 DEF Chat, route
  <2>3. stored[p] \subseteq Alias
    BY <2>1 DEF TypeInv, TypeOK
  <2>4. CASE chosen = NoAlias
    <3>1. stored[p] = {}
      BY <1>2, <2>1, <2>3, <2>4, ServeAssumption DEF Chosen, AccountInv, SelectionInv
    <3>2. QED
      BY <2>2, <2>4, <3>1
  <2>5. CASE chosen # NoAlias
    <3> HIDE DEF chosen
    <3>1. account = IF chosen \in loc[h].built[p] THEN chosen ELSE "stale account"
      BY <1>2, <2>5, AccountForChosen
    <3>2. account \in stored[p] => account = chosen
      BY <2>3, <3>1, ServeAssumption
    <3> USE DEF chosen
    <3>3. QED
      BY <1>2, <2>1, <2>2, <2>5, <3>2
  <2>6. QED
    BY <2>4, <2>5
<1>3. QED
  BY <1>1, <1>2

\* Selections stay among the stored accounts, and sessions with the account that
\* served them.
LEMMA AccountStep ==
    ASSUME TypeInv, AccountInv, [Next]_vars
    PROVE  AccountInv'
<1>0. /\ stored \in [Provider -> SUBSET Alias] /\ selected \in [Provider -> Alias \cup {NoAlias}]
      /\ bound \in [Session -> [Provider -> Alias \cup {NoAlias}]]
      /\ served \in [Session -> [Provider -> Alias \cup {NoAlias}]]
      /\ SelectionInv /\ ServedInv
  BY DEF TypeInv, TypeOK, HistoryTyped, AccountInv
<1>1. CASE UNCHANGED << stored, selected, bound, served >>
  BY <1>0, <1>1 DEF AccountInv, SelectionInv, ServedInv
<1>2. ASSUME NEW p \in Provider, NEW a \in Alias, Connect(p, a)
      PROVE  AccountInv'
  BY <1>0, <1>2 DEF AccountInv, SelectionInv, ServedInv, Connect, Or
<1>3. ASSUME NEW p \in Provider, NEW a \in Alias, Disconnect(p, a)
      PROVE  AccountInv'
  <2>1. SelectionInv'
    BY <1>0, <1>3 DEF SelectionInv, Disconnect
  <2>2. ServedInv'
    BY <1>0, <1>3 DEF ServedInv, Disconnect, Forgotten
  <2>3. QED
    BY <2>1, <2>2 DEF AccountInv
<1>4. ASSUME NEW p \in Provider, NEW a \in Alias, Select(p, a)
      PROVE  AccountInv'
  BY <1>0, <1>4 DEF AccountInv, SelectionInv, ServedInv, Select
<1>5. ASSUME NEW q, NEW a, Admin(q, a)
      PROVE  AccountInv'
  <2>1. SelectionInv'
    BY <1>0, <1>5 DEF SelectionInv, Admin
  <2>2. ASSUME NEW s \in Session, NEW p \in Provider, served'[s][p] # NoAlias
        PROVE  bound'[s][p] = served'[s][p] /\ served'[s][p] \in stored'[p]
    BY <1>0, <1>5, <2>2, RowRead DEF ServedInv, Admin
  <2>3. QED
    BY <2>1, <2>2 DEF AccountInv, ServedInv
<1>6. ASSUME NEW h \in Handler, Chat(h)
      PROVE  AccountInv'
  <2>1. UNCHANGED << stored, selected >>
    BY <1>6 DEF Chat
  <2>2. SelectionInv'
    BY <1>0, <2>1 DEF SelectionInv
  <2>3. ASSUME NEW q \in Provider, NEW t, NEW b,
               bound' = [bound EXCEPT ![t][q] = b], b = Chosen(t, q), t # NoSession, b # NoAlias,
               \/ served' = served
               \/ b \in stored[q] /\ served' = [served EXCEPT ![t][q] = b]
        PROVE  ServedInv'
    <3>1. ASSUME NEW s \in Session, NEW p \in Provider, served'[s][p] # NoAlias
          PROVE  bound'[s][p] = served'[s][p] /\ served'[s][p] \in stored'[p]
      <4>1. bound'[s][p] = IF t = s /\ q = p THEN b ELSE bound[s][p]
        BY <1>0, <2>3, RowRead
      <4>2. CASE served' = served
        <5>1. bound[s][p] = served[s][p] /\ served[s][p] \in stored[p]
          BY <1>0, <3>1, <4>2 DEF ServedInv
        <5>2. t = s /\ q = p => b = bound[s][p]
          BY <2>3, <5>1, ChosenBound
        <5>3. QED
          BY <2>1, <4>1, <4>2, <5>1, <5>2
      <4>3. CASE b \in stored[q] /\ served' = [served EXCEPT ![t][q] = b]
        <5>1. served'[s][p] = IF t = s /\ q = p THEN b ELSE served[s][p]
          BY <1>0, <4>3, RowRead
        <5>2. QED
          BY <1>0, <2>1, <3>1, <4>1, <4>3, <5>1 DEF ServedInv
      <4>4. QED
        BY <2>3, <4>2, <4>3
    <3>2. QED
      BY <3>1 DEF ServedInv
  <2>4. ServedInv'
    <3>1. CASE UNCHANGED << bound, served >>
      BY <1>0, <2>1, <3>1 DEF ServedInv
    <3>2. CASE ~UNCHANGED << bound, served >>
      <4>1. PICK q \in Provider :
               LET s == req[h].session
                   a == Chosen(s, q)
               IN  /\ s # NoSession /\ a # NoAlias
                   /\ bound' = [bound EXCEPT ![s][q] = a]
                   /\ \/ served' = served
                      \/ a \in stored[q] /\ served' = [served EXCEPT ![s][q] = a]
        BY <1>6, <3>2, ChatAccounts
      <4>2. QED
        BY <2>3, <4>1
    <3>3. QED
      BY <3>1, <3>2
  <2>5. QED
    BY <2>2, <2>4 DEF AccountInv
<1>7. ASSUME NEW h \in Handler, CommandAccount(h)
      PROVE  AccountInv'
  <2> DEFINE q == req[h].provider
             a == req[h].alias
             t == req[h].session
  <2>1. CASE a \notin stored[q]
    BY <1>1, <1>7, <2>1 DEF CommandAccount
  <2>2. CASE a \in stored[q]
    <3>1. /\ stored' = stored /\ selected' = [selected EXCEPT ![q] = a]
          /\ \/ bound' = bound /\ served' = served
             \/ bound' = [bound EXCEPT ![t][q] = a] /\ served' = [served EXCEPT ![t][q] = NoAlias]
      BY <1>7, <2>2 DEF CommandAccount
    <3> HIDE DEF q, a, t
    <3>2. SelectionInv'
      BY <1>0, <2>2, <3>1 DEF SelectionInv
    <3>3. CASE bound' = bound /\ served' = served
      BY <1>0, <3>1, <3>2, <3>3 DEF AccountInv, ServedInv
    <3>4. CASE bound' = [bound EXCEPT ![t][q] = a] /\ served' = [served EXCEPT ![t][q] = NoAlias]
      <4>1. ASSUME NEW s \in Session, NEW p \in Provider, served'[s][p] # NoAlias
            PROVE  bound'[s][p] = served'[s][p] /\ served'[s][p] \in stored'[p]
        BY <1>0, <3>1, <3>4, <4>1, RowRead DEF ServedInv
      <4>2. QED
        BY <3>2, <4>1 DEF AccountInv, ServedInv
    <3>5. QED
      BY <3>1, <3>3, <3>4
  <2>3. QED
    BY <2>1, <2>2
<1>11. ASSUME NEW t \in Session, NEW q \in Provider, Prune(t, q)
       PROVE  AccountInv'
  <2>1. SelectionInv'
    BY <1>0, <1>11 DEF SelectionInv, Prune
  <2>2. ASSUME NEW s \in Session, NEW p \in Provider, served'[s][p] # NoAlias
        PROVE  bound'[s][p] = served'[s][p] /\ served'[s][p] \in stored'[p]
    BY <1>0, <1>11, <2>2, RowRead DEF ServedInv, Prune
  <2>3. QED
    BY <2>1, <2>2 DEF AccountInv, ServedInv
<1>8. ASSUME NEW h \in Handler,
             Arrive(h) \/ Enter(h) \/ Freeze(h) \/ Validate(h) \/ Persist(h) \/ Apply(h) \/ Announce(h)
      PROVE  UNCHANGED << stored, selected, bound, served >>
  BY <1>8 DEF Arrive, Enter, Freeze, Validate, Persist, Apply, Announce, store, history
<1>9. ASSUME Reload \/ UNCHANGED vars \/ \E o \in Overlays : EditFile(o)
      PROVE  UNCHANGED << stored, selected, bound, served >>
  BY <1>9 DEF Reload, ReloadRead, ReloadBuild, ReloadInstall, EditFile, Outside, vars, store, history
<1>10. QED
  BY <1>1, <1>2, <1>3, <1>4, <1>5, <1>6, <1>7, <1>8, <1>9, <1>11
  DEF Next, Other, PinAccount, UnpinAccount, Handle

\* What a snapshot knows of the store.
LEMMA RefreshedFresh ==
    ASSUME FreshInv, IsState(mem), Runnable(mem.config), NEW r
    PROVE  /\ Refreshed(r).seen \in 0 .. revision
           /\ Refreshed(r).seen = revision /\ ~Refreshed(r).overtaken => Refreshed(r).built = stored
           /\ Builds(EffectiveConfig(Base, file)) => Refreshed(r).seen = revision
<1>1. revision \in Nat /\ revision \in 0 .. revision
  BY DEF FreshInv
<1>2. CASE Refreshed(r) = mem /\ (mem.seen = revision \/ ~Builds(EffectiveConfig(Base, file)))
  BY <1>2 DEF FreshInv
<1>3. CASE /\ Refreshed(r).built = stored /\ Refreshed(r).seen = revision
           /\ ~Refreshed(r).overtaken
  BY <1>1, <1>3
<1>4. QED
  BY <1>1, <1>2, <1>3, RefreshedKeeps

\* Memory and a reload under way keep to the revisions they know.
LEMMA FreshStep ==
    ASSUME TypeInv, FreshInv, [Next]_vars
    PROVE  FreshInv'
<1>0. IsState(mem) /\ Runnable(mem.config)
  BY DEF TypeInv, MemoryInv
<1>1. CASE UNCHANGED << stored, revision, mem, rebuilt >>
  BY <1>1 DEF FreshInv
<1>2. ASSUME NEW r, mem' = Refreshed(r), UNCHANGED << stored, revision, rebuilt >>
      PROVE  FreshInv'
  BY <1>0, <1>2, RefreshedFresh DEF FreshInv
<1>3. ASSUME revision' = revision + 1, UNCHANGED << mem, rebuilt >>
      PROVE  FreshInv'
  BY <1>3 DEF FreshInv
<1>4. CASE ReloadBuild
  <2>1. PICK r \in Reports :
           rebuilt' = IF Builds(watcher[1]) THEN << Built(watcher[1], r) >> ELSE <<>>
    BY <1>4 DEF ReloadBuild
  <2>2. UNCHANGED << stored, revision, mem >>
    BY <1>4 DEF ReloadBuild, store
  <2>3. Built(watcher[1], r).built = stored /\ Built(watcher[1], r).of = revision
    BY DEF Built
  <2>4. QED
    BY <2>1, <2>2, <2>3 DEF FreshInv
<1>5. CASE ReloadInstall
  <2>1. /\ rebuilt # <<>> /\ rebuilt' = <<>> /\ UNCHANGED << stored, revision >>
        /\ mem'.seen = mem.seen /\ mem'.built = rebuilt[1].built
        /\ mem'.overtaken <=> rebuilt[1].of < mem.seen
    BY <1>0, <1>5, InstalledKeeps DEF ReloadInstall, store, TypeInv, MemoryInv
  <2>2. QED
    BY <2>1 DEF FreshInv
<1>6. ASSUME NEW h \in Handler, Apply(h)
      PROVE  FreshInv'
  <2>1. UNCHANGED << stored, revision, rebuilt >>
    BY <1>6 DEF Apply, store, reload
  <2>2. CASE mem' = [mem EXCEPT !.config = Set(@, req[h])]
    <3>1. mem'.seen = mem.seen /\ mem'.built = mem.built /\ mem'.overtaken = mem.overtaken
      BY <1>0, <2>2 DEF IsState
    <3>2. QED
      BY <2>1, <3>1 DEF FreshInv
  <2>3. QED
    BY <1>2, <1>6, <2>1, <2>2 DEF Apply
<1>7. ASSUME NEW h \in Handler, Handle(h), ~Apply(h)
      PROVE  /\ UNCHANGED << stored, revision, rebuilt >>
             /\ (\E r : mem' = Refreshed(r)) \/ mem' = mem
  BY <1>7 DEF Handle, Arrive, Enter, Took, Freeze, Chat, CommandAccount, Validate, Persist, Announce,
       store, reload
<1>8. CASE ReloadRead
  BY <1>2, <1>8 DEF ReloadRead, store
<1>9. ASSUME Other
      PROVE  /\ UNCHANGED << mem, rebuilt >>
             /\ UNCHANGED << stored, revision >> \/ revision' = revision + 1
  BY <1>9 DEF Other, Connect, Disconnect, Select, Prune, EditFile, Outside, store, reload
<1>10. ASSUME PinAccount \/ UnpinAccount \/ UNCHANGED vars
       PROVE  UNCHANGED << stored, revision, mem, rebuilt >>
  BY <1>10 DEF PinAccount, UnpinAccount, Admin, vars, store, reload
<1>11. QED
  BY <1>1, <1>2, <1>3, <1>4, <1>5, <1>6, <1>7, <1>8, <1>9, <1>10 DEF Next, Reload

\* A finished request leaves the others' as they were, and is a refusal that is
\* told only if its answer says so.
LEMMA FinishRequest ==
    ASSUME TypeInv, RequestInv, NEW h \in Handler, NEW a, Finish(h, a),
           UNCHANGED << stored, moved >>,
           \A p \in Provider : a.error = "stale account" /\ a.provider = p /\ h \notin moved
                                   => a.account \notin stored[p]
    PROVE  RequestInv'
<1>1. \A g \in Handler :
         /\ pc'[g] = IF g = h THEN "idle" ELSE pc[g]
         /\ answer'[g] = IF g = h THEN a ELSE answer[g]
         /\ g # h => loc'[g] = loc[g]
  BY DEF Finish, TypeInv, TypeOK, MemoryInv, HistoryTyped
<1>2. SnapshotInv' /\ AnswerInv'
  BY <1>1 DEF RequestInv, SnapshotInv, AnswerInv
<1>3. RefusalTold'
  BY <1>1 DEF RequestInv, RefusalTold
<1>4. QED
  BY <1>2, <1>3 DEF RequestInv

\* What is said besides an answer concerns no provider.
LEMMA SaidFacts ==
    \A e : Said(e).provider \notin Provider /\ Said(e).account = NoAlias /\ Said(e).error = e
BY ServeAssumption DEF Said, Answered, Failed

\* Requests work on the accounts they saw, and refusals stay true.
LEMMA RequestStep ==
    ASSUME TypeInv, FreshInv, RequestInv, [Next]_vars
    PROVE  RequestInv'
<1>0. /\ SnapshotInv /\ AnswerInv /\ RefusalTold /\ MemoryInv
      /\ pc \in [Handler -> {"idle", "enter", "freeze", "run", "persist", "apply", "announce"}]
      /\ DOMAIN loc = Handler /\ DOMAIN answer = Handler
  BY DEF RequestInv, TypeInv, TypeOK, HistoryTyped, MemoryInv
<1>1. CASE UNCHANGED << stored, moved, handlers >>
  BY <1>0, <1>1 DEF RequestInv, SnapshotInv, AnswerInv, RefusalTold, handlers
<1>2. CASE moved' = Handler /\ UNCHANGED handlers
  BY <1>0, <1>2 DEF RequestInv, SnapshotInv, AnswerInv, RefusalTold, handlers
<1>3. ASSUME NEW h \in Handler, Arrive(h)
      PROVE  RequestInv'
  <2>1. \A g \in Handler :
           /\ pc'[g] = IF g = h THEN "enter" ELSE pc[g]
           /\ answer'[g] = IF g = h THEN NoAnswer ELSE answer[g]
           /\ loc'[g] = loc[g] /\ (g # h => (g \in moved' <=> g \in moved))
    BY <1>0, <1>3 DEF Arrive
  <2>2. stored' = stored
    BY <1>3 DEF Arrive, store
  <2>4. NoAnswer.provider \notin Provider
    BY SaidFacts DEF NoAnswer
  <2>3. SnapshotInv' /\ AnswerInv'
    BY <1>0, <2>1, <2>2, <2>4 DEF SnapshotInv, AnswerInv
  <2>5. ASSUME NEW g \in Handler, NEW p \in Provider,
               answer'[g].error = "stale account", answer'[g].provider = p, g \notin moved'
        PROVE  answer'[g].account \notin stored'[p]
    <3>1. CASE g = h
      BY <2>1, <2>4, <2>5, <3>1
    <3>2. CASE g # h
      <4>1. answer'[g] = answer[g] /\ g \notin moved
        BY <2>1, <2>5, <3>2
      <4> QED BY <1>0, <2>2, <2>5, <4>1 DEF RefusalTold
    <3> QED BY <3>1, <3>2
  <2>6. RefusalTold'
    BY <2>5 DEF RefusalTold
  <2>7. QED
    BY <2>3, <2>6 DEF RequestInv
<1>4. ASSUME NEW h \in Handler, Enter(h)
      PROVE  RequestInv'
  <2>1. PICK r \in Reports : /\ mem' = Refreshed(r)
                            /\ loc' = [loc EXCEPT ![h] = [config |-> Refreshed(r).config,
                                                          built |-> Refreshed(r).built]]
                            /\ \/ pc' = [pc EXCEPT ![h] = "run"]
                               \/ pc' = [pc EXCEPT ![h] = "freeze"]
    BY <1>4 DEF Enter, Took
  <2>2. pc[h] = "enter" /\ UNCHANGED << stored, answer >>
    BY <1>4 DEF Enter, store
  <2>3. moved' = IF Builds(EffectiveConfig(Base, file)) /\ ~mem'.overtaken
                 THEN moved \ {h} ELSE moved \cup {h}
    BY <1>4 DEF Enter
  <2>4. h \notin moved' => Refreshed(r).built = stored
    BY <1>0, <2>1, <2>3, RefreshedFresh DEF MemoryInv
  <2> DEFINE v == [config |-> Refreshed(r).config, built |-> Refreshed(r).built]
  <2>10. v.built = Refreshed(r).built
    OBVIOUS
  <2> HIDE DEF v
  <2>11. \A g \in Handler : loc'[g] = IF g = h THEN v ELSE loc[g]
    BY <1>0, <2>1 DEF v
  <2>12. \A g \in Handler : g # h => pc'[g] = pc[g] /\ (g \in moved' <=> g \in moved)
    BY <1>0, <2>1, <2>3
  <2>5. SnapshotInv'
    BY <1>0, <2>2, <2>4, <2>10, <2>11, <2>12 DEF SnapshotInv
  <2>6. AnswerInv'
    BY <1>0, <2>1, <2>2 DEF AnswerInv
  <2>7. answer[h].provider \notin Provider
    BY <1>0, <2>2 DEF AnswerInv
  <2>8. RefusalTold'
    BY <1>0, <2>2, <2>3, <2>7 DEF RefusalTold
  <2>9. QED
    BY <2>5, <2>6, <2>8 DEF RequestInv
<1>5. ASSUME NEW h \in Handler, Freeze(h)
      PROVE  RequestInv'
  <2>1. PICK c : loc' = [loc EXCEPT ![h].config = c]
    BY <1>5 DEF Freeze
  <2>2. pc[h] = "freeze" /\ pc' = [pc EXCEPT ![h] = "run"] /\ UNCHANGED << stored, answer, moved >>
    BY <1>5 DEF Freeze, store, history
  <2>3. \A g \in Handler : loc'[g].built = loc[g].built
    BY <1>0, <2>1 DEF MemoryInv, IsView
  <2>4. SnapshotInv' /\ AnswerInv'
    BY <1>0, <2>2, <2>3 DEF SnapshotInv, AnswerInv
  <2>5. RefusalTold'
    BY <1>0, <2>2 DEF RefusalTold
  <2>6. QED
    BY <2>4, <2>5 DEF RequestInv
<1>6. ASSUME NEW h \in Handler, Chat(h)
      PROVE  RequestInv'
  <2>1. pc[h] = "run" /\ UNCHANGED << stored, moved >>
    BY <1>6 DEF Chat
  <2>2. PICK a : /\ Finish(h, a)
                 /\ \/ a.error = "ok"
                    \/ a.provider = NoProvider
                    \/ \E p \in Provider :
                          /\ a.provider = p /\ a.error \notin Alias
                          /\ LET chosen == IF req[h].header = NoAlias
                                           THEN Chosen(req[h].session, p) ELSE NoAlias
                             IN  /\ a.account = chosen
                                 /\ a.error = AccountFor(loc[h].built[p], req[h].header, chosen)
    BY <1>6, ChatAnswer
  <2>3. ASSUME NEW p \in Provider, a.error = "stale account", a.provider = p, h \notin moved
        PROVE  a.account \notin stored[p]
    <3> DEFINE chosen == IF req[h].header = NoAlias THEN Chosen(req[h].session, p) ELSE NoAlias
    <3>1. a.account = chosen /\ a.error = AccountFor(loc[h].built[p], req[h].header, chosen)
      BY <2>2, <2>3, ServeAssumption
    <3>2. loc[h].built = stored
      BY <1>0, <2>1, <2>3 DEF SnapshotInv
    <3>3. AccountFor(stored[p], req[h].header, chosen) = "stale account"
      BY <2>3, <3>1, <3>2
    <3> HIDE DEF chosen
    <3>4. stored[p] \subseteq Alias
      BY DEF TypeInv, TypeOK
    <3>5. chosen \notin stored[p]
      BY <3>3, <3>4, ServeAssumption DEF AccountFor
    <3>6. QED
      BY <3>1, <3>5
  <2>4. QED
    BY <2>1, <2>2, <2>3, FinishRequest
<1>7. ASSUME NEW h \in Handler, CommandAccount(h) \/ Validate(h) \/ Announce(h)
      PROVE  RequestInv'
  <2>1. UNCHANGED << stored, moved >>
    BY <1>7 DEF CommandAccount, Validate, Announce, store, history
  <2>2. CASE \E e : Finish(h, Said(e))
    BY <2>1, <2>2, FinishRequest, SaidFacts
  <2>3. CASE /\ UNCHANGED << loc, answer >> /\ pc[h] = "run"
             /\ \E next \in {"announce", "persist"} : pc' = [pc EXCEPT ![h] = next]
    BY <1>0, <2>1, <2>3 DEF RequestInv, SnapshotInv, AnswerInv, RefusalTold
  <2>4. CASE /\ loc' = loc /\ pc[h] = "run" /\ pc' = [pc EXCEPT ![h] = "announce"]
             /\ \E e : answer' = [answer EXCEPT ![h] = Said(e)]
    <3>1. PICK e : answer' = [answer EXCEPT ![h] = Said(e)]
      BY <2>4
    <3>2. /\ \A g \in Handler : answer'[g] = IF g = h THEN Said(e) ELSE answer[g]
          /\ \A g \in Handler : pc'[g] = IF g = h THEN "announce" ELSE pc[g]
      BY <1>0, <2>4, <3>1
    <3>3. Said(e).provider \notin Provider
      BY SaidFacts
    <3>4. SnapshotInv' /\ AnswerInv'
      BY <1>0, <2>1, <2>4, <3>2, <3>3 DEF SnapshotInv, AnswerInv
    <3>5. RefusalTold'
      BY <1>0, <2>1, <3>2, <3>3 DEF RefusalTold
    <3>6. QED
      BY <3>4, <3>5 DEF RequestInv
  <2>5. CASE Announce(h)
    <3>1. pc[h] = "announce"
      BY <2>5 DEF Announce
    <3>2. answer[h].provider \notin Provider
      BY <1>0, <3>1 DEF AnswerInv
    <3>3. Finish(h, answer[h])
      BY <2>5 DEF Announce
    <3>4. QED
      BY <2>1, <3>2, <3>3, FinishRequest
  <2>6. QED
    BY <1>7, <2>2, <2>3, <2>4, <2>5 DEF CommandAccount, Validate
<1>8. ASSUME NEW h \in Handler, Persist(h) \/ Apply(h)
      PROVE  RequestInv'
  <2>1. /\ UNCHANGED << stored, moved, loc, answer >>
        /\ pc[h] \in {"persist", "apply"}
        /\ \E next \in {"apply", "announce"} : pc' = [pc EXCEPT ![h] = next]
    BY <1>8 DEF Persist, Apply, store, history
  <2>2. QED
    BY <1>0, <2>1 DEF RequestInv, SnapshotInv, AnswerInv, RefusalTold
<1>9. ASSUME Other
      PROVE  RequestInv'
  BY <1>1, <1>2, <1>9 DEF Other, Connect, Disconnect, Select, Prune, EditFile, Outside, store
<1>10. ASSUME Reload \/ PinAccount \/ UnpinAccount \/ UNCHANGED vars
       PROVE  UNCHANGED << stored, moved, handlers >>
  BY <1>10 DEF Reload, ReloadRead, ReloadBuild, ReloadInstall, PinAccount, UnpinAccount, Admin, vars,
       store, history
<1>11. QED
  BY <1>1, <1>3, <1>4, <1>5, <1>6, <1>7, <1>8, <1>9, <1>10 DEF Next, Handle

-----------------------------------------------------------------------------
(* The theorems.                                                              *)

ServeInv == TypeInv /\ AccountInv /\ FreshInv /\ RequestInv

\* A proxy starts with no requests, answers or history.
LEMMA InitInv ==
    ASSUME Init
    PROVE  ServeInv
<1>1. TypeInv
  BY TypesInit
<1>2. AccountInv
  BY DEF Init, AccountInv, SelectionInv, ServedInv
<1>3. SnapshotInv /\ AnswerInv
  BY DEF Init, SnapshotInv, AnswerInv
<1>4. RefusalTold
  BY SaidFacts DEF Init, RefusalTold, NoAnswer
<1>5. FreshInv
  <2>1. PICK r \in Reports : mem = Installed(Built(EffectiveConfig(Base, file), r), revision)
    BY DEF Init
  <2>2. mem.seen = revision /\ mem.built = stored
    BY <2>1 DEF Installed, Built
  <2>3. revision = 0 /\ rebuilt = <<>>
    BY DEF Init
  <2>4. QED
    BY <2>2, <2>3 DEF FreshInv
<1>6. QED
  BY <1>1, <1>2, <1>3, <1>4, <1>5 DEF ServeInv, RequestInv

\* The invariant holds in every state of a proxy.
THEOREM Invariance == Spec => []ServeInv
<1>1. Init => ServeInv
  BY InitInv
<1>2. ServeInv /\ [Next]_vars => ServeInv'
  BY TypesStep, AccountStep, FreshStep, RequestStep DEF ServeInv
<1>3. QED
  BY <1>1, <1>2, PTL DEF Spec

\* Memory never holds a configuration whose router cannot be built, whatever
\* users write into the config file and whenever the watcher reads it.
THEOREM TypeCorrect == Spec => []TypeOK
<1>1. ServeInv => TypeOK
  BY DEF ServeInv, TypeInv
<1>2. QED
  BY <1>1, Invariance, PTL

\* A request is told that its session's account is gone only if it is, unless the
\* store changed under it, the config file cannot be built, or an overtaken reload
\* brought older accounts back.
THEOREM RefusalsTrue == Spec => []RefusalTold
<1>1. ServeInv => RefusalTold
  BY DEF ServeInv, RequestInv
<1>2. QED
  BY <1>1, Invariance, PTL

\* A session's defaults change by a command of the session only.
THEOREM DefaultsKept == Spec => SessionKeepsDefaults
<1> DEFINE Kept == \A s \in Session :
                     defaults[s] # NoDefaults /\ defaults'[s] # defaults[s] =>
                         \E h \in Handler : pc[h] = "apply" /\ req[h].session = s
<1>1. ServeInv /\ [Next]_vars => [Kept]_vars
  <2> SUFFICES ASSUME ServeInv, [Next]_vars
               PROVE  [Kept]_vars
    OBVIOUS
  <2>1. DOMAIN defaults = Session
    BY DEF ServeInv, TypeInv, HistoryTyped
  <2>2. CASE defaults' = defaults
    BY <2>2
  <2>3. ASSUME NEW h \in Handler, Freeze(h)
        PROVE  Kept
    BY <2>1, <2>3 DEF Freeze, Frozen
  <2>4. ASSUME NEW h \in Handler, Apply(h)
        PROVE  Kept
    BY <2>1, <2>4 DEF Apply
  <2>5. ASSUME NEW h \in Handler, Handle(h), ~Freeze(h), ~Apply(h)
        PROVE  defaults' = defaults
    BY <2>5 DEF Handle, Arrive, Enter, Chat, CommandAccount, Validate, Persist, Announce
  <2>6. ASSUME Reload \/ Other \/ PinAccount \/ UnpinAccount \/ UNCHANGED vars
        PROVE  defaults' = defaults
    BY <2>6 DEF Reload, ReloadRead, ReloadBuild, ReloadInstall, Other, Connect, Disconnect, Select,
         Prune, EditFile, Outside, PinAccount, UnpinAccount, Admin, vars
  <2>7. QED
    BY <2>2, <2>3, <2>4, <2>5, <2>6 DEF Next
<1>2. QED
  BY <1>1, Invariance, PTL DEF Spec, SessionKeepsDefaults

\* A session keeps its account until a command, the panel, a disconnect or 30 idle
\* days take it away.
THEOREM AccountKept == Spec => SessionKeepsAccount
<1> DEFINE Kept == \A s \in Session, p \in Provider :
                     served[s][p] # NoAlias => served'[s][p] \in {served[s][p], NoAlias}
<1>1. ServeInv /\ [Next]_vars => [Kept]_vars
  <2> SUFFICES ASSUME ServeInv, [Next]_vars
               PROVE  [Kept]_vars
    OBVIOUS
  <2>1. served \in [Session -> [Provider -> Alias \cup {NoAlias}]] /\ ServedInv
    BY DEF ServeInv, TypeInv, HistoryTyped, AccountInv
  <2>2. CASE served' = served
    BY <2>2
  <2>3. ASSUME NEW p \in Provider, NEW a \in Alias, Disconnect(p, a)
        PROVE  Kept
    BY <2>1, <2>3 DEF Disconnect, Forgotten
  <2>4. ASSUME NEW t, NEW q, served' = [served EXCEPT ![t][q] = NoAlias]
        PROVE  Kept
    BY <2>1, <2>4, RowRead
  <2>5. ASSUME NEW h \in Handler, Chat(h)
        PROVE  Kept
    <3>1. ASSUME NEW q \in Provider, NEW t, t # NoSession,
                 served' = [served EXCEPT ![t][q] = Chosen(t, q)]
          PROVE  Kept
      <4>1. ASSUME NEW s \in Session, NEW p \in Provider, served[s][p] # NoAlias
            PROVE  served'[s][p] = served[s][p]
        <5>1. served'[s][p] = IF t = s /\ q = p THEN Chosen(t, q) ELSE served[s][p]
          BY <2>1, <3>1, RowRead
        <5>2. bound[s][p] = served[s][p] /\ served[s][p] \in stored[p]
          BY <2>1, <4>1 DEF ServedInv
        <5>3. t = s /\ q = p => Chosen(t, q) = bound[s][p]
          BY <3>1, <5>2, ChosenBound
        <5>4. QED
          BY <5>1, <5>2, <5>3
      <4>2. QED
        BY <4>1
    <3>2. served' = served \/ \E q \in Provider :
             req[h].session # NoSession /\
             served' = [served EXCEPT ![req[h].session][q] = Chosen(req[h].session, q)]
      BY <2>5, ChatAccounts DEF ServeInv
    <3>3. QED
      BY <2>2, <3>1, <3>2
  <2>6. ASSUME NEW h \in Handler, CommandAccount(h)
        PROVE  Kept
    BY <2>2, <2>4, <2>6 DEF CommandAccount
  <2>7. ASSUME PinAccount \/ UnpinAccount
        PROVE  Kept
    BY <2>4, <2>7 DEF PinAccount, UnpinAccount, Admin
  <2>8. ASSUME NEW h \in Handler, Handle(h), ~Chat(h), ~CommandAccount(h)
        PROVE  served' = served
    BY <2>8 DEF Handle, Arrive, Enter, Freeze, Validate, Persist, Apply, Announce, history
  <2>9. ASSUME \/ Reload \/ UNCHANGED vars
               \/ \E p \in Provider, a \in Alias : Connect(p, a) \/ Select(p, a)
               \/ \E o \in Overlays : EditFile(o)
        PROVE  served' = served
    BY <2>9 DEF Reload, ReloadRead, ReloadBuild, ReloadInstall, Connect, Select, EditFile, vars, history
  <2>10. ASSUME NEW s \in Session, NEW p \in Provider, Prune(s, p)
         PROVE  Kept
    BY <2>4, <2>10 DEF Prune
  <2>11. QED
    BY <2>2, <2>3, <2>5, <2>6, <2>7, <2>8, <2>9, <2>10 DEF Next, Other
<1>2. QED
  BY <1>1, Invariance, PTL DEF Spec, SessionKeepsAccount

-----------------------------------------------------------------------------
(* What is listed is served.                                                  *)

\* A configuration whose lists are lists and whose providers have different names.
Catalogued(c) == IsCatalog(c) /\ NamedOnce(c.providers)

\* A provider of the overlay takes the place of its namesake or comes last.
LEMMA OverlaidKeeps ==
    ASSUME NEW S, NEW ps \in Seq(S), NamedOnce(ps), NEW p \in S
    PROVE  Overlaid(ps, p) \in Seq(S) /\ NamedOnce(Overlaid(ps, p))
<1> DEFINE I == { n \in 1 .. Len(ps) : ps[n].name = p.name }
           k == SelectInSeq(ps, LAMBDA q : q.name = p.name)
<1>1. DOMAIN ps = 1 .. Len(ps) /\ Len(ps) \in Nat /\ \A n \in DOMAIN ps : ps[n] \in S
  OBVIOUS
<1>2. CASE Has(ps, p.name)
  <2>1. I # {} /\ I \in SUBSET Nat
    BY <1>1, <1>2 DEF Has
  <2>2. k \in I
    <3>1. k = Min(I)
      BY <2>1 DEF SelectInSeq
    <3> QED BY <2>1, <3>1, Overlaying!MinIn DEF Min, Overlaying!Min
  <2> HIDE DEF k
  <2>3. Overlaid(ps, p) = [ps EXCEPT ![k] = p] /\ k \in DOMAIN ps /\ ps[k].name = p.name
    BY <1>1, <1>2, <2>2 DEF Overlaid, k
  <2>4. [ps EXCEPT ![k] = p] \in Seq(S)
    BY <1>1, <2>3
  <2>5. NamedOnce([ps EXCEPT ![k] = p])
    <3>1. \A n \in DOMAIN ps : [ps EXCEPT ![k] = p][n].name = ps[n].name
      BY <2>3
    <3> QED BY <3>1 DEF NamedOnce
  <2> QED BY <2>3, <2>4, <2>5
<1>3. CASE ~Has(ps, p.name)
  <2>1. Overlaid(ps, p) = Append(ps, p)
    BY <1>3 DEF Overlaid
  <2>2. Append(ps, p) \in Seq(S) /\ DOMAIN Append(ps, p) = 1 .. Len(ps) + 1
        /\ (\A n \in 1 .. Len(ps) : Append(ps, p)[n] = ps[n]) /\ Append(ps, p)[Len(ps) + 1] = p
    BY <1>1
  <2>3. \A n \in 1 .. Len(ps) : ps[n].name # p.name
    BY <1>1, <1>3 DEF Has
  <2>4. NamedOnce(Append(ps, p))
    <3> DEFINE t == Append(ps, p)
    <3>1. SUFFICES ASSUME NEW m \in DOMAIN t, NEW n \in DOMAIN t, t[m].name = t[n].name
                   PROVE  m = n
      BY DEF NamedOnce
    <3> HIDE DEF t
    <3>2. m \in 1 .. Len(ps) + 1 /\ n \in 1 .. Len(ps) + 1
      BY <2>2 DEF t
    <3>3. CASE m \in 1 .. Len(ps) /\ n \in 1 .. Len(ps)
      <4>1. ps[m].name = ps[n].name
        BY <2>2, <3>1, <3>3 DEF t
      <4> QED BY <1>1, <3>3, <4>1 DEF NamedOnce
    <3>4. CASE m = Len(ps) + 1 /\ n \in 1 .. Len(ps)
      BY <2>2, <2>3, <3>1, <3>4 DEF t
    <3>5. CASE n = Len(ps) + 1 /\ m \in 1 .. Len(ps)
      BY <2>2, <2>3, <3>1, <3>5 DEF t
    <3> QED BY <1>1, <3>2, <3>3, <3>4, <3>5
  <2> QED BY <2>1, <2>2, <2>4
<1> QED BY <1>2, <1>3

\* A sequence of any set's members is a list of them.
LEMMA SeqIsListed ==
    ASSUME NEW U, NEW s \in Seq(U)
    PROVE  IsList(s) /\ \A n \in DOMAIN s : s[n] \in U
<1>1. DOMAIN s = 1 .. Len(s) /\ Len(s) \in Nat /\ \A n \in DOMAIN s : s[n] \in U
  OBVIOUS
<1>2. s \in [1 .. Len(s) -> Range(s)]
  BY <1>1 DEF Range
<1>3. s \in Seq(Range(s))
  BY <1>1, <1>2
<1> QED BY <1>1, <1>3 DEF IsList

\* The effective configuration is one, too.
LEMMA EffectiveCatalogued ==
    ASSUME NEW b, Catalogued(b), NEW o, IsCatalog(o)
    PROVE  Catalogued(EffectiveConfig(b, o))
<1> DEFINE S == Range(b.providers) \cup Range(o.providers)
           T == Range(b.routes) \cup Range(o.routes)
           G == { ps \in Seq(S) : NamedOnce(ps) }
           e == EffectiveConfig(b, o)
<1>1. /\ b.providers \in Seq(S) /\ o.providers \in Seq(S)
      /\ b.routes \in Seq(T) /\ o.routes \in Seq(T)
  BY SeqMonotonic DEF Catalogued, IsCatalog, IsList
<1>2. \A p \in S : IsProvider(p)
  BY DEF Catalogued, IsCatalog, Range
<1>3. \A r \in T : IsList(r.model)
  BY DEF Catalogued, IsCatalog, Range
<1>4. e.providers = FoldLeft(Overlaid, b.providers, o.providers)
      /\ e.routes = FoldLeft(Unhidden, o.routes, b.routes)
      /\ {"providers", "routes"} \subseteq DOMAIN e
  BY DEF EffectiveConfig
<1>5. e.providers = Overlaying!Fold(b.providers, o.providers)
  BY <1>4 DEF Overlaying!Fold, Overlaying!FoldLeft, Overlaying!MapThenFoldSet, Overlaying!Max,
              FoldLeft, MapThenFoldSet, Max
<1>6. e.routes = Unhiding!Fold(o.routes, b.routes)
  BY <1>4 DEF Unhiding!Fold, Unhiding!FoldLeft, Unhiding!MapThenFoldSet, Unhiding!Max,
              FoldLeft, MapThenFoldSet, Max
<1>7. e.providers \in G
  <2>1. b.providers \in G
    BY <1>1 DEF Catalogued
  <2>2. \A a \in G, k \in 1 .. Len(o.providers) : Overlaid(a, o.providers[k]) \in G
    <3>1. SUFFICES ASSUME NEW a \in Seq(S), NamedOnce(a), NEW k \in 1 .. Len(o.providers)
                   PROVE  Overlaid(a, o.providers[k]) \in G
      OBVIOUS
    <3>2. o.providers[k] \in S
      BY <1>1
    <3> HIDE DEF S
    <3> QED BY <3>1, <3>2, OverlaidKeeps
  <2> HIDE DEF G, S
  <2> QED BY <1>1, <1>5, <2>1, <2>2, Overlaying!FoldKeeps
<1>8. e.routes \in Seq(T)
  <2>1. \A a \in Seq(T), k \in 1 .. Len(b.routes) : Unhidden(a, b.routes[k]) \in Seq(T)
    BY <1>1 DEF Unhidden
  <2> DEFINE H == Seq(T)
  <2>2. o.routes \in H /\ \A a \in H, k \in 1 .. Len(b.routes) : Unhidden(a, b.routes[k]) \in H
    BY <1>1, <2>1
  <2>3. b.routes \in Seq(T)
    BY <1>1
  <2> HIDE DEF H, T
  <2>4. e.routes \in H
    BY <1>6, <2>2, <2>3, Unhiding!FoldKeeps
  <2> QED BY <2>4 DEF H
<1> HIDE DEF e, S, T
<1>9. IsList(e.providers) /\ (\A n \in DOMAIN e.providers : e.providers[n] \in S) /\ NamedOnce(e.providers)
  BY <1>7, SeqIsListed
<1>10. IsList(e.routes) /\ \A n \in DOMAIN e.routes : e.routes[n] \in T
  BY <1>8, SeqIsListed
<1>11. Catalogued(e)
  BY <1>2, <1>3, <1>4, <1>9, <1>10 DEF Catalogued, IsCatalog
<1> QED BY <1>11 DEF e

\* A provider whose models were discovered keeps its name; its models are names.
LEMMA DiscoverCatalogued ==
    ASSUME NEW c, Catalogued(c), NEW on \in SUBSET Provider, NEW r \in Reports
    PROVE  Catalogued(Discover(c, on, r))
<1> DEFINE Reported(p) == [name |-> p.name, auto |-> p.auto,
                           models |-> IF p.models = <<>> /\ p.name \in on
                                      THEN r[p.name] ELSE p.models]
           d == Discover(c, on, r)
           ps == [n \in DOMAIN c.providers |-> Reported(c.providers[n])]
           S == Range(ps)
<1>1. d = [c EXCEPT !.providers = ps]
  BY DEF Discover
<1>2. c.providers \in Seq(Range(c.providers))
  BY DEF Catalogued, IsCatalog, IsList
<1>3. DOMAIN c.providers = 1 .. Len(c.providers) /\ Len(c.providers) \in Nat
  BY <1>2
<1>4. \A n \in DOMAIN ps : ps[n] \in S
  BY DEF Range
<1> HIDE DEF S
<1>5. ps \in Seq(S)
  <2>1. ps \in [1 .. Len(c.providers) -> S]
    BY <1>3, <1>4
  <2> HIDE DEF ps
  <2> QED BY <1>3, <2>1
<1>6. ASSUME NEW n \in DOMAIN ps PROVE IsProvider(ps[n])
  <2> DEFINE p == c.providers[n]
  <2>1. IsProvider(p) /\ ps[n] = Reported(p)
    BY <1>6 DEF Catalogued, IsCatalog
  <2>2. p.models = <<>> /\ p.name \in on => IsListOfNames(r[p.name])
    BY CatalogAssumption
  <2>3. IsListOfNames(Reported(p).models) /\ Reported(p).name = p.name /\ Reported(p).auto = p.auto
    BY <2>1, <2>2 DEF IsProvider
  <2> HIDE DEF Reported, p, ps
  <2> QED BY <2>1, <2>3 DEF IsProvider
<1>7. NamedOnce(ps)
  BY DEF NamedOnce, Catalogued
<1>8. IsList(ps)
  BY <1>5 DEF IsList, S
<1>9. d.providers = ps /\ d.routes = c.routes /\ {"providers", "routes"} \subseteq DOMAIN d
  BY <1>1 DEF Catalogued, IsCatalog
<1> HIDE DEF d, ps
<1>10. Catalogued(d)
  BY <1>6, <1>7, <1>8, <1>9 DEF Catalogued, IsCatalog
<1> QED BY <1>10 DEF d

\* A name in lists, and what it is without the hint.
LEMMA Unhints ==
    ASSUME NEW S, NEW m \in Seq(S)
    PROVE  /\ Unhinted(m) \in Seq(S)
           /\ Unhinted(m) = m \/ (Len(m) > 0 /\ m[Len(m)] = Hint /\ Unhinted(m) = SubSeq(m, 1, Len(m) - 1))
BY DEF Unhinted, Last, Front, NoModel

\* The parts of a name qualified by its provider.
LEMMA QualifiedParts ==
    ASSUME NEW S, NEW p \in S, NEW slash \in S, NEW y \in Seq(S), NEW q, q = << p, slash >> \o y
    PROVE  /\ q \in Seq(S) /\ Len(q) = Len(y) + 2 /\ q[1] = p /\ q[2] = slash
           /\ SubSeq(q, 3, Len(q)) = y
           /\ Len(y) > 0 => /\ q[Len(q)] = y[Len(y)]
                            /\ SubSeq(q, 1, Len(q) - 1) = << p, slash >> \o SubSeq(y, 1, Len(y) - 1)
           /\ Len(y) = 0 => q[Len(q)] = slash
OBVIOUS

\* m is something with p's name before it.
Qualifies(S, p, m) == \E z \in Seq(S) : m = << p, "/" >> \o z

\* The hint is taken off what the provider's name is put before.
LEMMA QualifiedUnhinted ==
    ASSUME NEW S, NEW p \in S, "/" \in S, NEW q, Qualifies(S, p, q)
    PROVE  Qualifies(S, p, Unhinted(q))
<1>0. PICK y \in Seq(S) : q = << p, "/" >> \o y
  BY DEF Qualifies
<1>1. /\ q \in Seq(S) /\ Len(q) = Len(y) + 2 /\ Len(y) \in Nat
      /\ Len(y) > 0 => SubSeq(q, 1, Len(q) - 1) = << p, "/" >> \o SubSeq(y, 1, Len(y) - 1)
      /\ Len(y) = 0 => q[Len(q)] = "/"
  BY <1>0, QualifiedParts
<1>2. Unhinted(q) = q \/ (q[Len(q)] = Hint /\ Unhinted(q) = SubSeq(q, 1, Len(q) - 1))
  BY <1>1, Unhints
<1>3. CASE Unhinted(q) = q
  BY <1>3
<1>4. CASE q[Len(q)] = Hint /\ Unhinted(q) = SubSeq(q, 1, Len(q) - 1)
  <2>1. Len(y) > 0
    BY <1>1, <1>4 DEF Hint
  <2>2. SubSeq(y, 1, Len(y) - 1) \in Seq(S)
    BY <1>1, <2>1
  <2> QED BY <1>1, <1>4, <2>1, <2>2 DEF Qualifies
<1> QED BY <1>2, <1>3, <1>4

\* A listed id that does not begin with the marker comes back as it was.
LEMMA ShownComesBack ==
    ASSUME NEW S, NEW id \in Seq(S), Unmarked(id) = id
    PROVE  Unmarked(Shown(id)) = id
<1>1. CASE Shown(id) = id
  BY <1>1
<1>2. CASE Shown(id) = << Marker >> \o id
  <2> DEFINE T == S \cup {Marker}
             t == << Marker >> \o id
  <2>1. id \in Seq(T) /\ Marker \in T
    OBVIOUS
  <2> HIDE DEF T
  <2>2. t # <<>> /\ t[1] = Marker /\ Tail(t) = id
    BY <2>1
  <2> HIDE DEF t
  <2>3. Unmarked(t) = id
    BY <2>2 DEF Unmarked, NoModel
  <2> QED BY <1>2, <2>3 DEF t
<1> QED BY <1>1, <1>2 DEF Shown

\* A route is found if there is one of the name.
LEMMA ExactFound ==
    ASSUME NEW routes, IsList(routes), NEW m
    PROVE  /\ Exact(routes, m) # 0 => Exact(routes, m) \in DOMAIN routes
           /\ Exact(routes, m) # 0 <=> \E n \in DOMAIN routes : ~routes[n].prefix /\ routes[n].model = m
<1> DEFINE I == { n \in 1 .. Len(routes) : ~routes[n].prefix /\ routes[n].model = m }
<1>1. DOMAIN routes = 1 .. Len(routes) /\ Len(routes) \in Nat
  BY DEF IsList
<1>2. Exact(routes, m) = IF I # {} THEN Max(I) ELSE 0
  BY DEF Exact, SelectLastInSeq
<1>3. I # {} => Max(I) \in I
  <2>1. I \in SUBSET (1 .. Len(routes))
    OBVIOUS
  <2> HIDE DEF I
  <2> QED BY <1>1, <2>1, Overlaying!MaxIn DEF Max, Overlaying!Max
<1> QED BY <1>1, <1>2, <1>3

\* A provider is found by its name.
LEMMA NamedFound ==
    ASSUME NEW ps, IsList(ps), NamedOnce(ps), NEW n \in DOMAIN ps
    PROVE  Named(ps, ps[n].name) = n
<1> DEFINE I == { k \in 1 .. Len(ps) : ps[k].name = ps[n].name }
<1>1. DOMAIN ps = 1 .. Len(ps) /\ Len(ps) \in Nat
  BY DEF IsList
<1>2. n \in I
  BY <1>1
<1>3. Named(ps, ps[n].name) = Max(I)
  BY <1>2 DEF Named, SelectLastInSeq
<1>4. Max(I) \in I
  <2>1. I \in SUBSET (1 .. Len(ps)) /\ I # {}
    BY <1>2
  <2> HIDE DEF I
  <2> QED BY <1>1, <2>1, Overlaying!MaxIn DEF Max, Overlaying!Max
<1> QED BY <1>1, <1>3, <1>4 DEF NamedOnce

\* The two ids that resolution treats apart.
RoutedTo(c, m) == \E n \in DOMAIN c.routes : ~c.routes[n].prefix /\ c.routes[n].model = m
AutolessAt(c, m) == \E n \in DOMAIN c.providers :
                       c.providers[n].auto = NoModel /\ m = << c.providers[n].name, "/" >> \o AutoModel

\* m is provider p's name for z.
IsFor(p, m, z) == m = << p.name, "/" >> \o z /\ IsList(z)

\* A list of names is made of atoms, "/" and a provider's name among them.
LEMMA InAtoms ==
    ASSUME NEW p, NEW z, IsList(z)
    PROVE  \E S : p \in S /\ "/" \in S /\ z \in Seq(S)
<1>1. z \in Seq(Range(z) \cup {p, "/"})
  BY SeqMonotonic DEF IsList
<1> QED BY <1>1

\* Two elements are the first two.
LEMMA PairIsWhole ==
    ASSUME NEW a, NEW b
    PROVE  Len(<< a, b >>) = 2 /\ SubSeq(<< a, b >>, 1, 2) = << a, b >>
<1> DEFINE s == << a, b >>
           t == SubSeq(s, 1, 2)
<1>1. s \in Seq({a, b}) /\ Len(s) = 2 /\ s[1] = a /\ s[2] = b
  OBVIOUS
<1>2. t \in Seq({a, b}) /\ Len(t) = 2 /\ t[1] = s[1] /\ t[2] = s[2]
  <2> HIDE DEF s
  <2> QED BY <1>1
<1> HIDE DEF t
<1>3. t = s
  <2> HIDE DEF s
  <2> QED BY <1>1, <1>2
<1> QED BY <1>1, <1>3 DEF t

\* A listed id is a route's name or qualified by a provider.
LEMMA ListedIds ==
    ASSUME NEW c, Catalogued(c), NEW id \in ListModels(c)
    PROVE  \/ RoutedTo(c, id) /\ IsList(id)
           \/ \E n \in DOMAIN c.providers : \E z : IsFor(c.providers[n], id, z)
<1>1. CASE \E n \in DOMAIN c.routes : ~c.routes[n].prefix /\ id = c.routes[n].model
  BY <1>1 DEF RoutedTo, Catalogued, IsCatalog
<1>2. ASSUME NEW n \in DOMAIN c.providers,
             NEW m \in Range(c.providers[n].models) \cup {AutoModel},
             id = QualifiedId(c.providers[n].name, m)
      PROVE  \E z : IsFor(c.providers[n], id, z)
  <2> DEFINE p == c.providers[n]
  <2>1. IsList(m)
    <3>1. IsListOfNames(p.models)
      BY DEF Catalogued, IsCatalog, IsProvider
    <3>2. IsList(AutoModel)
      <4>1. AutoModel \in Seq({"auto"})
        BY DEF AutoModel
      <4> QED BY <4>1, SeqIsListed
    <3> QED BY <3>1, <3>2 DEF IsListOfNames, Range
  <2>2. CASE ~IsPrefix(<< p.name, "/" >>, m)
    BY <1>2, <2>1, <2>2 DEF QualifiedId, IsFor
  <2>3. CASE IsPrefix(<< p.name, "/" >>, m)
    <3>1. PICK S : p.name \in S /\ "/" \in S /\ m \in Seq(S)
      BY <2>1, InAtoms
    <3> DEFINE q == p.name
               z == SubSeq(m, 3, Len(m))
    <3> HIDE DEF p, q
    <3>2. Len(m) >= 2 /\ SubSeq(m, 1, 2) = << q, "/" >>
      <4>1. Len(<< q, "/" >>) = 2 /\ SubSeq(<< q, "/" >>, 1, 2) = << q, "/" >>
        BY PairIsWhole
      <4> QED BY <2>3, <3>1, <4>1 DEF IsPrefix, q
    <3>3. m = SubSeq(m, 1, 2) \o z /\ z \in Seq(S)
      BY <3>1, <3>2
    <3>4. IsList(z)
      BY <3>3, SeqIsListed
    <3>5. id = m
      BY <1>2, <2>3 DEF QualifiedId, p
    <3> QED BY <3>2, <3>3, <3>4, <3>5 DEF IsFor, p, q
  <2> QED BY <2>2, <2>3
<1>3. ASSUME NEW n \in DOMAIN c.providers,
             id \in { QualifiedId(c.providers[n].name, m) : m \in Range(c.providers[n].models) \cup
                        (IF c.providers[n].auto = NoModel THEN {} ELSE {AutoModel}) }
      PROVE  \E z : IsFor(c.providers[n], id, z)
  BY <1>2, <1>3
<1> QED BY <1>1, <1>3 DEF ListModels

\* A name qualified by a provider goes to that provider, or to the route of
\* exactly that name; what is refused is a provider's auto model it has not.
LEMMA QualifiedResolves ==
    ASSUME NEW c, Catalogued(c), NEW on, NEW n \in DOMAIN c.providers, NEW id, NEW x,
           IsFor(c.providers[n], id, x), NEW m, m = Unhinted(id)
    PROVE  LET r == ResolveName(c, on, id, TRUE)
           IN  /\ r.error = "ok" <=> RoutedTo(c, m) \/ ~AutolessAt(c, m)
               /\ ~RoutedTo(c, m) /\ ~AutolessAt(c, m) => r.provider = id[1]
<1> DEFINE p == c.providers[n]
           r == ResolveName(c, on, id, TRUE)
           I == { k \in 1 .. Len(m) : m[k] = "/" }
<1>1. PICK S : p.name \in S /\ "/" \in S /\ x \in Seq(S)
  BY InAtoms DEF IsFor
<1>2. id = << p.name, "/" >> \o x
  BY DEF IsFor
<1>3. p.name # "/"
  BY DEF Catalogued, IsCatalog, IsProvider
<1> HIDE DEF p, r
<1>4. PICK z \in Seq(S) : m = << p.name, "/" >> \o z
  <2> DEFINE name == p.name
  <2>1. name \in S /\ "/" \in S /\ Qualifies(S, name, id)
    BY <1>1, <1>2 DEF Qualifies
  <2> HIDE DEF name
  <2>2. Qualifies(S, name, Unhinted(id))
    BY <2>1, QualifiedUnhinted
  <2> QED BY <2>2 DEF name, Qualifies
<1>5. /\ m \in Seq(S) /\ Len(m) = Len(z) + 2 /\ m[1] = p.name /\ m[2] = "/"
      /\ SubSeq(m, 3, Len(m)) = z /\ Len(z) \in Nat
  BY <1>1, <1>4, QualifiedParts
<1>6. id[1] = p.name
  BY <1>1, <1>2, QualifiedParts
<1>7. SelectInSeq(m, LAMBDA a : a = "/") = 2
  <2>1. 2 \in I /\ \A k \in I : 2 <= k
    BY <1>3, <1>5
  <2>2. Min(I) = 2
    <3>1. \A k \in I : (\A j \in I : k <= j) => k = 2
      BY <2>1
    <3> QED BY <2>1, <3>1 DEF Min
  <2> QED BY <2>1, <2>2 DEF SelectInSeq
<1>8. Named(c.providers, m[1]) = n /\ n # 0
  <2>1. n \in 1 .. Len(c.providers)
    BY DEF Catalogued, IsCatalog, IsList
  <2> QED BY <1>5, <2>1, NamedFound DEF Catalogued, IsCatalog, p
<1>9. m # AutoModel
  BY <1>5 DEF AutoModel
<1>10. z = AutoModel /\ p.auto = NoModel <=> AutolessAt(c, m)
  <2>1. ASSUME NEW k \in DOMAIN c.providers, c.providers[k].auto = NoModel,
               m = << c.providers[k].name, "/" >> \o AutoModel
        PROVE  z = AutoModel /\ p.auto = NoModel
    <3> DEFINE T == S \cup {c.providers[k].name, "auto"}
    <3>1. /\ c.providers[k].name \in T /\ "/" \in T /\ AutoModel \in Seq(T)
      BY <1>1 DEF AutoModel
    <3> HIDE DEF T
    <3>2. m[1] = c.providers[k].name /\ SubSeq(m, 3, Len(m)) = AutoModel
      BY <2>1, <3>1, QualifiedParts
    <3>3. k = n
      BY <1>5, <3>2 DEF Catalogued, NamedOnce, p
    <3> QED BY <1>5, <2>1, <3>2, <3>3 DEF p
  <2> QED BY <1>4, <2>1 DEF AutolessAt, p
<1>11. CASE RoutedTo(c, m)
  <2>1. Exact(c.routes, m) # 0
    BY <1>11, ExactFound DEF RoutedTo, Catalogued, IsCatalog
  <2>2. r = ByRoute(c.routes[Exact(c.routes, m)], m)
    BY <2>1 DEF r, ResolveName
  <2>3. r.error = "ok"
    BY <2>2 DEF ByRoute, Found
  <2> QED BY <1>11, <2>3 DEF r
<1>12. CASE ~RoutedTo(c, m)
  <2>1. Exact(c.routes, m) = 0
    BY <1>12, ExactFound DEF RoutedTo, Catalogued, IsCatalog
  <2>2. r = IF z = AutoModel THEN ByAuto(p) ELSE Found(m[1], z, NoEffort)
    BY <1>5, <1>7, <1>8, <1>9, <2>1 DEF r, ResolveName, p
  <2>3. CASE z = AutoModel /\ p.auto = NoModel
    <3>1. r.error # "ok"
      BY <2>2, <2>3 DEF ByAuto, Failed
    <3> QED BY <1>10, <1>12, <2>3, <3>1 DEF r
  <2>4. CASE ~(z = AutoModel /\ p.auto = NoModel)
    <3>1. r.error = "ok" /\ r.provider = p.name
      BY <1>5, <2>2, <2>4 DEF ByAuto, Found
    <3> QED BY <1>6, <1>10, <2>4, <3>1 DEF r
  <2> QED BY <2>3, <2>4
<1> QED BY <1>11, <1>12

\* What every configuration in use lists is served.
LEMMA ListedIsServed ==
    ASSUME NEW c, Catalogued(c), NEW on, NEW id \in ListModels(c),
           Unmarked(id) = id, ~(RoutedTo(c, id) /\ Unhinted(id) # id)
    PROVE  LET r == ResolveName(c, on, Unmarked(Shown(id)), TRUE)
               m == Unhinted(id)
           IN  /\ r.error = "ok" <=> RoutedTo(c, m) \/ ~AutolessAt(c, m)
               /\ ~RoutedTo(c, m) /\ ~AutolessAt(c, m) => r.provider = id[1]
<1>1. IsList(id)
  <2>1. ASSUME NEW n \in DOMAIN c.providers, NEW z, IsFor(c.providers[n], id, z)
        PROVE  IsList(id)
    <3>1. PICK S : c.providers[n].name \in S /\ "/" \in S /\ z \in Seq(S)
      BY <2>1, InAtoms DEF IsFor
    <3>2. id \in Seq(S)
      BY <2>1, <3>1, QualifiedParts DEF IsFor
    <3> QED BY <3>2, SeqIsListed
  <2> QED BY <2>1, ListedIds
<1>2. Unmarked(Shown(id)) = id
  BY <1>1, ShownComesBack DEF IsList
<1>3. CASE RoutedTo(c, id)
  <2>1. Unhinted(id) = id
    BY <1>3
  <2>2. Exact(c.routes, id) # 0
    BY <1>3, ExactFound DEF RoutedTo, Catalogued, IsCatalog
  <2> DEFINE r == ResolveName(c, on, id, TRUE)
  <2>3. r = ByRoute(c.routes[Exact(c.routes, id)], id)
    BY <2>1, <2>2 DEF ResolveName
  <2> HIDE DEF r
  <2>4. r.error = "ok"
    BY <2>3 DEF ByRoute, Found
  <2> QED BY <1>2, <1>3, <2>1, <2>4 DEF r
<1>4. CASE \E n \in DOMAIN c.providers : \E z : IsFor(c.providers[n], id, z)
  BY <1>2, <1>4, QualifiedResolves
<1> QED BY <1>3, <1>4, ListedIds

\* The configurations in use, and the file, are of that kind.
CatalogInv ==
    /\ Catalogued(mem.config)
    /\ watcher # <<>> => Catalogued(watcher[1])
    /\ rebuilt # <<>> => Catalogued(rebuilt[1].config)
    /\ IsCatalog(file)

\* Defaults are no part of it.
LEMMA DefaultsCatalogued ==
    ASSUME NEW c, NEW m, NEW e, NEW d, d = [c EXCEPT !.model = m] \/ d = [c EXCEPT !.effort = e]
    PROVE  /\ IsCatalog(c) => IsCatalog(d)
           /\ Catalogued(c) => Catalogued(d)
<1>1. IsCatalog(c) => /\ {"providers", "routes"} \subseteq DOMAIN d
                      /\ d.providers = c.providers /\ d.routes = c.routes
  BY DEF IsCatalog
<1>2. IsCatalog(c) => IsCatalog(d)
  BY <1>1 DEF IsCatalog
<1> QED BY <1>1, <1>2 DEF Catalogued

\* Nor is what a command sets.
LEMMA SetCatalogued ==
    ASSUME NEW c, NEW q
    PROVE  /\ IsCatalog(c) => IsCatalog(Set(c, q))
           /\ Catalogued(c) => Catalogued(Set(c, q))
<1> DEFINE d == Set(c, q)
<1>1. d = [c EXCEPT !.model = q.value] \/ d = [c EXCEPT !.effort = q.value]
  BY DEF Set
<1> HIDE DEF d
<1>2. /\ IsCatalog(c) => IsCatalog(d)
      /\ Catalogued(c) => Catalogued(d)
  BY <1>1, DefaultsCatalogued
<1> QED BY <1>2 DEF d

\* What a build makes, and what is installed of it.
LEMMA BuiltCatalogued ==
    ASSUME NEW c, Catalogued(c), NEW r \in Reports
    PROVE  Catalogued(Built(c, r).config)
<1>1. On(stored) \in SUBSET Provider
  BY DEF On
<1>2. Catalogued(Discover(c, On(stored), r))
  BY <1>1, DiscoverCatalogued
<1> QED BY <1>2 DEF Built

\* What is installed is of the catalog, too.
LEMMA InstalledCatalogued ==
    ASSUME NEW b, Catalogued(b.config), NEW seen
    PROVE  Catalogued(Installed(b, seen).config)
<1>1. Catalogued(Carry(b.config))
  BY DefaultsCatalogued DEF Carry
<1> QED BY <1>1 DEF Installed

\* What a snapshot leaves.
LEMMA RefreshedCatalogued ==
    ASSUME CatalogInv, IsState(mem), NEW r \in Reports
    PROVE  Catalogued(Refreshed(r).config)
<1> DEFINE c == EffectiveConfig(Base, file)
           m == [mem EXCEPT !.built = stored, !.seen = revision, !.overtaken = FALSE]
<1>1. Catalogued(c)
  BY CatalogAssumption, EffectiveCatalogued DEF CatalogInv, Catalogued
<1>2. Catalogued(Installed(Built(c, r), revision).config)
  BY <1>1, BuiltCatalogued, InstalledCatalogued
<1>3. m.config = mem.config
  BY DEF IsState
<1>4. Refreshed(r) \in {m, Installed(Built(c, r), revision), mem}
  BY DEF Refreshed
<1> HIDE DEF c, m
<1> QED BY <1>2, <1>3, <1>4 DEF CatalogInv

\* No step makes another kind of configuration.
LEMMA CatalogStep ==
    ASSUME TypeInv, CatalogInv, [Next]_vars
    PROVE  CatalogInv'
<1>0. IsState(mem)
  BY DEF TypeInv, MemoryInv
<1>1. ASSUME NEW r \in Reports, mem' = Refreshed(r), UNCHANGED << reload, file >>
      PROVE  CatalogInv'
  BY <1>0, <1>1, RefreshedCatalogued DEF CatalogInv, reload
<1>2. CASE UNCHANGED << mem, reload, file >>
  BY <1>2 DEF CatalogInv, reload
<1>3. CASE ReloadRead
  <2>1. PICK r \in Reports : mem' = Refreshed(r)
    BY <1>3 DEF ReloadRead
  <2>2. watcher' = << EffectiveConfig(Base, file) >> /\ UNCHANGED << rebuilt, file >>
    BY <1>3 DEF ReloadRead
  <2>3. Catalogued(EffectiveConfig(Base, file))
    BY CatalogAssumption, EffectiveCatalogued DEF CatalogInv, Catalogued
  <2>4. Catalogued(mem'.config)
    BY <1>0, <2>1, RefreshedCatalogued
  <2> QED BY <2>2, <2>3, <2>4 DEF CatalogInv
<1>4. CASE ReloadBuild
  <2>1. PICK r \in Reports :
           rebuilt' = IF Builds(watcher[1]) THEN << Built(watcher[1], r) >> ELSE <<>>
    BY <1>4 DEF ReloadBuild
  <2>2. watcher # <<>> /\ watcher' = <<>> /\ UNCHANGED << mem, file >>
    BY <1>4 DEF ReloadBuild
  <2>3. Catalogued(Built(watcher[1], r).config)
    BY <2>2, BuiltCatalogued DEF CatalogInv
  <2> QED BY <2>1, <2>2, <2>3 DEF CatalogInv
<1>12. CASE ReloadInstall
  <2>1. /\ rebuilt # <<>> /\ rebuilt' = <<>> /\ UNCHANGED << watcher, file >>
        /\ mem' = Installed(rebuilt[1], mem.seen)
    BY <1>12 DEF ReloadInstall
  <2>2. Catalogued(mem'.config)
    BY <2>1, InstalledCatalogued DEF CatalogInv
  <2> QED BY <2>1, <2>2 DEF CatalogInv
<1>5. ASSUME NEW h \in Handler, Persist(h)
      PROVE  CatalogInv'
  <2>1. file' = Set(file, req[h]) /\ UNCHANGED << mem, reload >>
    BY <1>5 DEF Persist
  <2>2. IsCatalog(Set(file, req[h]))
    BY SetCatalogued DEF CatalogInv
  <2> QED BY <2>1, <2>2 DEF CatalogInv, reload
<1>6. ASSUME NEW h \in Handler, Apply(h)
      PROVE  CatalogInv'
  <2>1. CASE \E r \in Reports : mem' = Refreshed(r)
    BY <1>1, <1>6, <2>1 DEF Apply
  <2>2. CASE mem' = [mem EXCEPT !.config = Set(@, req[h])]
    <3>1. mem'.config = Set(mem.config, req[h])
      BY <1>0, <2>2 DEF IsState
    <3>2. Catalogued(Set(mem.config, req[h]))
      BY SetCatalogued DEF CatalogInv
    <3>3. UNCHANGED << reload, file >>
      BY <1>6 DEF Apply
    <3> QED BY <3>1, <3>2, <3>3 DEF CatalogInv, reload
  <2> QED BY <1>6, <2>1, <2>2 DEF Apply
<1>7. ASSUME NEW h \in Handler, Arrive(h) \/ Enter(h) \/ Validate(h) \/ Announce(h)
      PROVE  CatalogInv'
  BY <1>1, <1>7 DEF Arrive, Enter, Took, Validate, Announce
<1>8. ASSUME NEW o \in Overlays, EditFile(o)
      PROVE  CatalogInv'
  BY <1>8, CatalogAssumption DEF EditFile, Outside, CatalogInv, reload
<1>9. ASSUME NEW h \in Handler, Freeze(h) \/ Chat(h) \/ CommandAccount(h)
      PROVE  UNCHANGED << mem, reload, file >>
  BY <1>9 DEF Freeze, Chat, CommandAccount
<1>10. ASSUME NEW p \in Provider, NEW a \in Alias, Connect(p, a) \/ Disconnect(p, a) \/ Select(p, a)
       PROVE  UNCHANGED << mem, reload, file >>
  BY <1>10 DEF Connect, Disconnect, Select, Outside
<1>13. ASSUME NEW s \in Session, NEW p \in Provider, Prune(s, p)
       PROVE  UNCHANGED << mem, reload, file >>
  BY <1>13 DEF Prune, Outside
<1>11. CASE PinAccount \/ UnpinAccount \/ UNCHANGED vars
  BY <1>2, <1>11 DEF PinAccount, UnpinAccount, Admin, vars
<1> QED BY <1>2, <1>3, <1>4, <1>5, <1>6, <1>7, <1>8, <1>9, <1>10, <1>11, <1>12, <1>13
        DEF Next, Reload, Other, Handle

\* Every model the proxy lists is one it serves, for any catalog with one
\* provider of a name, any config files and anything upstreams report.
THEOREM PicksAreServed == Spec => []PickedIsServed
<1>1. Init => CatalogInv
  <2> SUFFICES ASSUME Init PROVE CatalogInv
    OBVIOUS
  <2>1. IsCatalog(file) /\ watcher = <<>> /\ rebuilt = <<>>
    BY CatalogAssumption DEF Init
  <2>2. Catalogued(EffectiveConfig(Base, file))
    BY <2>1, CatalogAssumption, EffectiveCatalogued DEF Catalogued
  <2>3. PICK r \in Reports : mem = Installed(Built(EffectiveConfig(Base, file), r), revision)
    BY DEF Init
  <2>4. Catalogued(mem.config)
    BY <2>2, <2>3, BuiltCatalogued, InstalledCatalogued
  <2> QED BY <2>1, <2>4 DEF CatalogInv
<1>2. ServeInv /\ CatalogInv /\ [Next]_vars => CatalogInv'
  BY CatalogStep DEF ServeInv
<1>3. CatalogInv => PickedIsServed
  <2> SUFFICES ASSUME CatalogInv PROVE PickedIsServed
    OBVIOUS
  <2>1. ASSUME NEW id \in ListModels(mem.config), Unmarked(id) = id,
               ~(RoutedTo(mem.config, id) /\ Unhinted(id) # id)
        PROVE  LET r == ResolveName(mem.config, On(mem.built), Unmarked(Shown(id)), TRUE)
                   m == Unhinted(id)
               IN  /\ r.error = "ok" <=> RoutedTo(mem.config, m) \/ ~AutolessAt(mem.config, m)
                   /\ ~RoutedTo(mem.config, m) /\ ~AutolessAt(mem.config, m) => r.provider = id[1]
    BY <2>1, ListedIsServed DEF CatalogInv
  <2> QED BY <2>1 DEF PickedIsServed, RoutedTo, AutolessAt
<1>4. QED
  BY <1>1, <1>2, <1>3, Invariance, PTL DEF Spec
=============================================================================
