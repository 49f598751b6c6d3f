--------------------------- MODULE AccountTracking ---------------------------
(***************************************************************************)
(* How one running proxy follows the account database and its config file: *)
(* `AppState` of src/application/runtime.rs, the start-up sequence of      *)
(* `serve` (src/adapters/inbound/cli.rs) and the config watcher            *)
(* (src/adapters/inbound/watcher.rs).                                      *)
(*                                                                         *)
(* Request handlers run concurrently on one tokio runtime.  Each begins    *)
(* with `snapshot`, which compares the store's (data_version,              *)
(* user_version) with the pair the accounts were built from and rebuilds   *)
(* them under the write lock when an account was added or removed.  One    *)
(* watcher task rebuilds everything when config.yaml changes.  The store   *)
(* is the one of module AccountStore, reduced to its set of accounts and   *)
(* its revision: by RevisionCountsAccounts there, a revision identifies a  *)
(* set of accounts.  Every stored credential counts as usable.  A build     *)
(* reads the config first and the accounts last (model discovery over the  *)
(* network lies in between), in two steps.                                 *)
(***************************************************************************)
EXTENDS Naturals

CONSTANTS
    Account,      \* stored provider/alias pairs
    ProviderOf,   \* Account -> provider name
    Request,      \* concurrent request handlers
    Watcher,      \* the task that serialises config reloads
    Main,         \* the task that runs `serve`
    Nobody,       \* no holder of the write lock
    NoVersion,    \* tracking is not on yet
    MaxRevision, MaxData, MaxConfig, MaxFailures   \* bounds on the counters

Task == Request \cup {Watcher, Main}

Version == [data : Nat, rev : Nat]

ASSUME TaskAssumption ==
    /\ Watcher \notin Request
    /\ Main \notin Request \cup {Watcher}
    /\ Nobody \notin Task

ASSUME VersionAssumption == NoVersion \notin Version

VARIABLES
    stored,       \* accounts in the database
    revision,     \* PRAGMA user_version
    dataVersion,  \* PRAGMA data_version of this proxy's connection: moves
                  \*   when another process commits anything
    configFile,   \* version of config.yaml
    touched,      \* a config change the debouncer has not reported yet
    events,       \* reload events in the watcher's channel
    mem,          \* the RuntimeState behind the RwLock
    seen,         \* accounts_version
    lock,         \* holder of the write lock across a rebuild
    pc, loc,      \* what each task does next, and its local variables
    got,          \* the state `snapshot` gave a request
    failures,     \* store and build errors so far
    failed,       \* history: the task met an error since it began
    lastForeign,  \* history: revision of the last account change elsewhere
    start,        \* history: lastForeign and revision when a request began
    overtaken,    \* history: an account change fell between a build that holds
                  \*   no lock and the moment its result is installed or tracked
    unwatched     \* history: config.yaml was edited between the first build
                  \*   and the start of the watch

store == <<stored, revision, dataVersion>>
config == <<configFile, touched, events>>
shared == <<mem, seen, lock>>
tasks == <<pc, loc, got, failures, failed>>
history == <<lastForeign, start, overtaken, unwatched>>
vars == <<store, config, shared, tasks, history>>

State == [accounts : SUBSET Account, rev : Nat, config : Nat]

MainPC == {"down", "loaded", "built", "watching", "polled", "serving"}
TaskPC == {"idle", "data", "rev", "touch", "lock", "build", "rebuild", "discover",
           "install", "read", "done", "reload", "swap"}

TypeOK ==
    /\ stored \subseteq Account
    /\ revision \in Nat /\ dataVersion \in Nat
    /\ configFile \in Nat /\ touched \in BOOLEAN /\ events \in Nat
    /\ mem \in State
    /\ seen \in Version \cup {NoVersion}
    /\ lock \in Request \cup {Watcher, Nobody}
    /\ pc \in [Task -> MainPC \cup TaskPC]
    /\ loc \in [Task -> [seen : Version \cup {NoVersion}, now : Version, built : State]]
    /\ got \in [Request -> State]
    /\ failures \in Nat /\ failed \in [Task -> BOOLEAN]
    /\ lastForeign \in Nat
    /\ start \in [Request -> [foreign : Nat, any : Nat]]
    /\ overtaken \in BOOLEAN /\ unwatched \in BOOLEAN

\* The two reads of a build: the config file, then (`read_all`) the accounts.
BlankState == [accounts |-> {}, rev |-> 0, config |-> 0]
ConfigNow == [BlankState EXCEPT !.config = configFile]
AccountsNow(cfg) == [accounts |-> stored, rev |-> revision, config |-> cfg]

\* `connected_providers`.
Connected(accounts) == {ProviderOf[a] : a \in accounts}

\* A state was built without the lock and is not installed, or not tracked, yet.
Unguarded == pc[Watcher] = "swap" \/ pc[Main] \in {"built", "watching", "polled"}

Goto(t, where) == pc' = [pc EXCEPT ![t] = where]

\* Locals are blank outside the calls that use them.
BlankLoc == [seen |-> NoVersion, now |-> [data |-> 0, rev |-> 0], built |-> BlankState]
Forget(t) == loc' = [loc EXCEPT ![t] = BlankLoc]

Init ==
    /\ stored \in SUBSET Account
    /\ revision = 0 /\ dataVersion = 0
    /\ configFile = 0 /\ touched = FALSE /\ events = 0
    /\ mem = BlankState
    /\ seen = NoVersion
    /\ lock = Nobody
    /\ pc = [t \in Task |-> IF t = Main THEN "down" ELSE "idle"]
    /\ loc = [t \in Task |-> BlankLoc]
    /\ got = [r \in Request |-> BlankState]
    /\ failures = 0 /\ failed = [t \in Task |-> FALSE]
    /\ lastForeign = 0
    /\ start = [r \in Request |-> [foreign |-> 0, any |-> 0]]
    /\ overtaken = FALSE /\ unwatched = FALSE

-----------------------------------------------------------------------------
(* Other processes, the admin API of this one, and the config file.        *)

\* Another process connects or disconnects an account.
ForeignChange(a) ==
    /\ revision < MaxRevision /\ dataVersion < MaxData
    /\ stored' = IF a \in stored THEN stored \ {a} ELSE stored \cup {a}
    /\ revision' = revision + 1
    /\ dataVersion' = dataVersion + 1
    /\ lastForeign' = revision + 1
    /\ overtaken' = (overtaken \/ Unguarded)
    /\ UNCHANGED <<config, shared, tasks, start, unwatched>>

\* Another process commits anything else: a token refresh, a selection, a
\* session snapshot.
ForeignTouch ==
    /\ dataVersion < MaxData
    /\ dataVersion' = dataVersion + 1
    /\ UNCHANGED <<stored, revision, config, shared, tasks, history>>

\* DELETE /admin/accounts on this proxy: a commit on its own connection, which
\* leaves its data_version alone.  The handler rebuilds nothing.
OwnDisconnect(a) ==
    /\ pc[Main] = "serving"
    /\ revision < MaxRevision
    /\ a \in stored
    /\ stored' = stored \ {a}
    /\ revision' = revision + 1
    /\ overtaken' = (overtaken \/ Unguarded)
    /\ UNCHANGED <<dataVersion, config, shared, tasks, lastForeign, start, unwatched>>

\* Someone saves config.yaml; it is noticed only while the watch is on.
EditConfig ==
    /\ configFile < MaxConfig
    /\ configFile' = configFile + 1
    /\ touched' = (touched \/ pc[Main] \notin {"down", "loaded", "built"})
    /\ unwatched' = (unwatched \/ pc[Main] \in {"loaded", "built"})
    /\ UNCHANGED <<store, events, shared, tasks, lastForeign, start, overtaken>>

\* Mutant: events are dropped while a reload runs.
NotifyLossy ==
    /\ touched
    /\ touched' = FALSE
    /\ events' = IF pc[Watcher] = "idle" THEN events + 1 ELSE events
    /\ UNCHANGED <<store, configFile, shared, tasks, history>>

\* The debouncer reports a burst of changes as one event.
Notify ==
    /\ touched
    /\ touched' = FALSE
    /\ events' = events + 1
    /\ UNCHANGED <<store, configFile, shared, tasks, history>>

-----------------------------------------------------------------------------
(* `serve`.                                                                *)

\* build_runtime_state and AppState::new.
BootConfig ==
    /\ pc[Main] = "down"
    /\ Goto(Main, "loaded")
    /\ mem' = ConfigNow
    /\ UNCHANGED <<store, config, seen, lock, loc, got, failures, failed, history>>

BootAccounts ==
    /\ pc[Main] = "loaded"
    /\ Goto(Main, "built")
    /\ mem' = AccountsNow(mem.config)
    /\ UNCHANGED <<store, config, seen, lock, loc, got, failures, failed, history>>

\* watcher::spawn.
Watch ==
    /\ pc[Main] = "built"
    /\ Goto(Main, "watching")
    /\ UNCHANGED <<store, config, shared, loc, got, failures, failed, history>>

\* start_account_tracking: `revision` reads data_version, then user_version,
\* and the accounts count as built from what it finds.
TrackData ==
    /\ pc[Main] = "watching"
    /\ Goto(Main, "polled")
    /\ loc' = [loc EXCEPT ![Main].now.data = dataVersion]
    /\ UNCHANGED <<store, config, shared, got, failures, failed, history>>

Track ==
    /\ pc[Main] = "polled"
    /\ Goto(Main, "serving")
    /\ seen' = [data |-> loc[Main].now.data, rev |-> revision]
    /\ Forget(Main)
    /\ UNCHANGED <<store, config, mem, lock, got, failures, failed, history>>

\* `revision` fails: the proxy serves and never looks at the store again.
TrackFails ==
    /\ pc[Main] = "watching"
    /\ failures < MaxFailures
    /\ failures' = failures + 1
    /\ failed' = [failed EXCEPT ![Main] = TRUE]
    /\ Goto(Main, "serving")
    /\ UNCHANGED <<store, config, shared, loc, got, history>>

-----------------------------------------------------------------------------
(* `snapshot`, as run by task t; its first step reads accounts_version.    *)

Enter(t) ==
    /\ pc[t] = "idle"
    /\ loc' = [loc EXCEPT ![t].seen = seen]
    /\ failed' = [failed EXCEPT ![t] = FALSE]
    /\ Goto(t, IF seen = NoVersion THEN "read" ELSE "data")
    /\ UNCHANGED <<store, shared, got, failures, lastForeign, overtaken, unwatched>>

\* A request comes in.
Arrive(r) ==
    /\ pc[Main] = "serving"
    /\ Enter(r)
    /\ start' = [start EXCEPT ![r] = [foreign |-> lastForeign, any |-> revision]]
    /\ UNCHANGED config

\* Mutant: the watcher does not wait for an event.
TakeEventUnasked ==
    /\ Enter(Watcher)
    /\ events' = events - 1
    /\ UNCHANGED <<configFile, touched, start>>

\* The watcher task takes the next event and calls `reload`.
TakeEvent ==
    /\ events > 0
    /\ Enter(Watcher)
    /\ events' = events - 1
    /\ UNCHANGED <<configFile, touched, start>>

ReadData(t) ==
    /\ pc[t] = "data"
    /\ loc' = [loc EXCEPT ![t].now.data = dataVersion]
    /\ Goto(t, "rev")
    /\ UNCHANGED <<store, config, shared, got, failures, failed, history>>

ReadRevision(t) ==
    /\ pc[t] = "rev"
    /\ IF loc[t].now.data = loc[t].seen.data
         THEN Goto(t, "read") /\ Forget(t)
         ELSE /\ Goto(t, IF revision = loc[t].seen.rev THEN "touch" ELSE "lock")
              /\ loc' = [loc EXCEPT ![t].now.rev = revision]
    /\ UNCHANGED <<store, config, shared, got, failures, failed, history>>

\* Only something other than the accounts changed elsewhere.
SetSeen(t) ==
    /\ pc[t] = "touch"
    /\ seen' = loc[t].now
    /\ Goto(t, "read")
    /\ Forget(t)
    /\ UNCHANGED <<store, config, mem, lock, got, failures, failed, history>>

\* Mutant: try_write instead of write; a rebuild under way counts as this one.
LockOrSkip(t) ==
    /\ pc[t] = "lock"
    /\ IF seen.rev = loc[t].now.rev \/ lock # Nobody
         THEN Goto(t, "read") /\ Forget(t) /\ UNCHANGED lock
         ELSE Goto(t, "build") /\ lock' = t /\ UNCHANGED loc
    /\ UNCHANGED <<store, config, mem, seen, got, failures, failed, history>>

\* Take the write lock, unless another task rebuilt while this one waited.
Lock(t) ==
    /\ pc[t] = "lock"
    /\ lock = Nobody
    /\ IF seen.rev = loc[t].now.rev
         THEN Goto(t, "read") /\ Forget(t) /\ UNCHANGED lock
         ELSE Goto(t, "build") /\ lock' = t /\ UNCHANGED loc
    /\ UNCHANGED <<store, config, mem, seen, got, failures, failed, history>>

\* build_accounts with the installed config.  When a provider gained or lost
\* its only account the whole state is rebuilt from the file.
BuildAccounts(t) ==
    /\ pc[t] = "build"
    /\ loc' = [loc EXCEPT ![t].built = AccountsNow(mem.config)]
    /\ Goto(t, IF Connected(stored) = Connected(mem.accounts) THEN "install" ELSE "rebuild")
    /\ UNCHANGED <<store, config, shared, got, failures, failed, history>>

Rebuild(t) ==
    /\ pc[t] = "rebuild"
    /\ loc' = [loc EXCEPT ![t].built = ConfigNow]
    /\ Goto(t, "discover")
    /\ UNCHANGED <<store, config, shared, got, failures, failed, history>>

\* Mutant: carry_instance_state keeps the accounts, too.
DiscoverCarriesAccounts(t) ==
    /\ pc[t] = "discover"
    /\ loc' = [loc EXCEPT ![t].built = [mem EXCEPT !.config = loc[t].built.config]]
    /\ Goto(t, "install")
    /\ UNCHANGED <<store, config, shared, got, failures, failed, history>>

Discover(t) ==
    /\ pc[t] = "discover"
    /\ loc' = [loc EXCEPT ![t].built = AccountsNow(@.config)]
    /\ Goto(t, "install")
    /\ UNCHANGED <<store, config, shared, got, failures, failed, history>>

\* Mutant: the revision is polled again after the build.
InstallPollsAgain(t) ==
    /\ pc[t] = "install"
    /\ mem' = loc[t].built
    /\ seen' = [data |-> dataVersion, rev |-> revision]
    /\ lock' = Nobody
    /\ Goto(t, "read")
    /\ Forget(t)
    /\ UNCHANGED <<store, config, got, failures, failed, history>>

Install(t) ==
    /\ pc[t] = "install"
    /\ mem' = loc[t].built
    /\ seen' = loc[t].now
    /\ lock' = Nobody
    /\ Goto(t, "read")
    /\ Forget(t)
    /\ UNCHANGED <<store, config, got, failures, failed, history>>

\* Mutant: a failed rebuild counts as done.
FailMarksSeen(t) ==
    /\ failures < MaxFailures
    /\ pc[t] \in {"data", "build", "discover", "reload"}
    /\ failures' = failures + 1
    /\ failed' = [failed EXCEPT ![t] = TRUE]
    /\ seen' = IF lock = t THEN loc[t].now ELSE seen
    /\ lock' = IF lock = t THEN Nobody ELSE lock
    /\ Goto(t, IF pc[t] = "reload" THEN "idle" ELSE "read")
    /\ Forget(t)
    /\ UNCHANGED <<store, config, mem, got, history>>

\* The store, the vault or the config cannot be read: the current state stays.
Fail(t) ==
    /\ failures < MaxFailures
    /\ pc[t] \in {"data", "build", "discover", "reload"}
    /\ failures' = failures + 1
    /\ failed' = [failed EXCEPT ![t] = TRUE]
    /\ lock' = IF lock = t THEN Nobody ELSE lock
    /\ Goto(t, IF pc[t] = "reload" THEN "idle" ELSE "read")
    /\ Forget(t)
    /\ UNCHANGED <<store, config, mem, seen, got, history>>

\* The read lock: clone the installed state.
Read(r) ==
    /\ pc[r] = "read"
    /\ lock = Nobody
    /\ got' = [got EXCEPT ![r] = mem]
    /\ Goto(r, "done")
    /\ UNCHANGED <<store, config, shared, loc, failures, failed, history>>

Finish(r) ==
    /\ pc[r] = "done"
    /\ Goto(r, "idle")
    /\ got' = [got EXCEPT ![r] = BlankState]
    /\ failed' = [failed EXCEPT ![r] = FALSE]
    /\ start' = [start EXCEPT ![r] = [foreign |-> 0, any |-> 0]]
    /\ UNCHANGED <<store, config, shared, loc, failures, lastForeign, overtaken, unwatched>>

-----------------------------------------------------------------------------
(* The rest of `reload`: build without the lock, then swap the state in.   *)

\* The read lock (only for the path of the config), then the config.
ReloadConfig ==
    /\ pc[Watcher] = "read"
    /\ lock = Nobody
    /\ loc' = [loc EXCEPT ![Watcher].built = ConfigNow]
    /\ Goto(Watcher, "reload")
    /\ UNCHANGED <<store, config, shared, got, failures, failed, history>>

ReloadAccounts ==
    /\ pc[Watcher] = "reload"
    /\ loc' = [loc EXCEPT ![Watcher].built = AccountsNow(@.config)]
    /\ Goto(Watcher, "swap")
    /\ UNCHANGED <<store, config, shared, got, failures, failed, history>>

ReloadSwap ==
    /\ pc[Watcher] = "swap"
    /\ lock = Nobody
    /\ mem' = loc[Watcher].built
    /\ Goto(Watcher, "idle")
    /\ Forget(Watcher)
    /\ UNCHANGED <<store, config, seen, lock, got, failures, failed, history>>

-----------------------------------------------------------------------------

Snapshot(t) ==
    \/ ReadData(t)
    \/ ReadRevision(t)
    \/ SetSeen(t)
    \/ Lock(t)
    \/ BuildAccounts(t)
    \/ Rebuild(t)
    \/ Discover(t)
    \/ Install(t)

Environment ==
    \/ \E a \in Account : ForeignChange(a) \/ OwnDisconnect(a)
    \/ ForeignTouch
    \/ EditConfig

StartUp == BootConfig \/ BootAccounts \/ Watch \/ TrackData \/ Track

Serve(r) == Arrive(r) \/ Snapshot(r) \/ Read(r) \/ Finish(r)

Reload == TakeEvent \/ Snapshot(Watcher) \/ ReloadConfig \/ ReloadAccounts \/ ReloadSwap

Next ==
    \/ Environment
    \/ Notify
    \/ StartUp
    \/ \E r \in Request : Serve(r)
    \/ Reload
    \/ TrackFails
    \/ \E t \in Request \cup {Watcher} : Fail(t)

Spec == Init /\ [][Next]_vars

\* tokio runs every ready task, the debouncer fires, and clients keep sending
\* requests: without requests a proxy looks at the store no more.
Fairness ==
    /\ WF_vars(StartUp)
    /\ WF_vars(Notify)
    /\ WF_vars(Reload)
    /\ \A r \in Request : WF_vars(Serve(r))

FairSpec == Spec /\ Fairness

-----------------------------------------------------------------------------

\* accounts_version never claims more than the installed accounts hold: they
\* were read no earlier than the revision it names.  The exception is named:
\* a change that falls between an unlocked build (start-up, config reload) and
\* the moment its result is installed or tracked.
SeenNeverAhead == seen # NoVersion /\ ~overtaken => mem.rev >= seen.rev

\* A request sees every account change another process committed before the
\* request began, however the polls and rebuilds of concurrent requests
\* interleave (README, "Hot reload").  Same exception; a rebuild that fails
\* keeps the accounts there are, but only for the request that met the error.
FreshSnapshot ==
    \A r \in Request :
        pc[r] = "done" /\ ~failed[r] /\ ~failed[Main] /\ ~overtaken
            => got[r].rev >= start[r].foreign

\* Once changes elsewhere stop, the proxy ends up with the accounts they left,
\* rebuild errors included, unless tracking never started.
AccountsConverge == <>[](mem.rev >= lastForeign \/ overtaken \/ failed[Main])

\* Once edits stop, the proxy ends up with the last config, although account
\* rebuilds and reloads install configs they read at different times.  The
\* exceptions: an edit before the watch starts, and a last reload that fails.
ConfigConverges == <>[](mem.config = configFile \/ unwatched \/ failed[Watcher])

\* An account disconnected before a request begins is not used by it, whoever
\* disconnected it (docs/admin-api.md: DELETE is the same as `disconnect`).
DisconnectTakesEffect ==
    \A r \in Request :
        pc[r] = "done" /\ ~failed[r] /\ ~failed[Main] /\ ~overtaken
            => got[r].rev >= start[r].any

=============================================================================
