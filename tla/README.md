# Verification of local-proxy

TLA+ modules, TLC configurations and TLAPS proofs about `local-proxy`, a local
HTTP proxy that serves the Anthropic and OpenAI APIs, translates between them
and forwards to any connected provider account. Source paths below are relative
to the repository.

## The system

| Part | State | Operations | Hard part |
| --- | --- | --- | --- |
| Account database (`src/adapters/outbound/credential_store.rs`) | tables `accounts`, `selected`, `session_accounts`, `user_version`; `auth.json` and its backup | connect, disconnect, select, pin, unpin, session account, token swap, prune, migration | shared by the CLI and every proxy; crashes and races in the migration |
| Account tracking (`src/application/runtime.rs`, `src/adapters/inbound/watcher.rs`, `serve` in `cli.rs`) | `RuntimeState` behind an RwLock, `accounts_version` | snapshot, reload, start-up | polls, builds and installs of concurrent requests, of the watcher and of start-up interleave |
| OAuth refresh (`src/adapters/outbound/upstream.rs`, `oauth.rs`) | tokens of each client, stored tokens, the provider's rotation chain | `oauth_access`, `swap_oauth` | rotating tokens, several processes, lost answers |
| Vault key (`db_key`) | OS keyring entry, the database file | first open | two first runs at once |
| Session settings (`runtime.rs`, `commands.rs`, `settings.rs`) | per-session defaults, config file | in-band `$proxy` commands, admin routes | frozen defaults against hot reload |
| Request pipeline (`application/proxy.rs`, `domain/request.rs`) | none | resolve model, choose account, forward | store and memory read at different times |
| Router and catalog (`domain/router.rs`, `catalog.rs`, `config.rs`) | none | route a model to a provider | precedence of routes, overrides and auto models |
| Streaming (`application/streams.rs`, `domain/sse.rs`) | frame buffer, machine, usage so far | poll, finalize, record | chunk boundaries, errors and hang-ups in mid-stream |
| Translation (`domain/ir/*`, `domain/translate.rs`) | decoder and encoder state | decode, encode one event | open and close content blocks in order, whatever the upstream sends |
| Usage (`outbound/usage_store.rs`, `application/usage.rs`, `account_usage.rs`) | SQLite rows, account-usage cache, cache observations | record, merge, refresh | several writers; stale and partial rate limits |
| Config file (`outbound/config_file.rs`) | `config.yaml` | read, change, rename | lost updates |
| Launching (`cli.rs`, `process.rs`) | pid file | background start, stop | two background proxies |
| Events and logs (`outbound/events.rs`, `log_file.rs`) | broadcast channel | publish, subscribe | slow subscribers |
| Compare (`application/compare.rs`), admin API (`inbound/http/admin.rs`), panel (`claude-mod`) | as the parts they call | | |

How they interact: a request handler calls `snapshot` (tracking), which polls the
database; it chooses an account from the database and a client from the
`RuntimeState`; the client refreshes tokens and swaps them into the database; the
answer is translated and streamed, and its usage recorded. The CLI and other
proxies change the same database and config file at any time. Nothing but those
files, SQLite's locks and the revision counter coordinates them.

What makes each part correct, in a sentence:

* database: accounts come by a connect, go by a disconnect and change by a token refresh,
  and the upgrade from auth.json changes none; a provider with accounts has a stored account
  selected, sessions keep their account, every change of the set of accounts moves the revision;
* tracking: no request works with accounts older than its own start, and the proxy
  ends up with the last accounts and config;
* refresh: the stored refresh token stays good and every client ends up with a
  good access token;
* streaming and translation: whatever frames arrive, the client sees a well-formed
  event sequence that ends once and says what the upstream said, and usage is recorded
  once; a translated conversation keeps everything both sides said, in every request;
* router: a model the proxy lists is one it serves, at the provider its name says;
* sessions: defaults and account stay what they were at the session's start until the
  session itself changes them, while new sessions and the instance follow the file;
* usage: rows are only added and announced once, diagnostics are true, a report agrees
  with itself, and a provider is asked for its quota once in a while, not once per panel;
* config file, vault key, launching: a file, a key and a pid file shared by processes
  that do not coordinate (see "Not modelled").

`PROJECT.json` lists the components with their status, the hazards with the lines
they bite at, and the lines every definition stands for.

## Modules

### AccountStore and AccountBook

The database and the legacy file, for any number of processes. `with_db` runs every
operation on one connection per process, and writers use `BEGIN IMMEDIATE`, so one
transaction is one action: `Insert`, `SwapOAuth`, `Remove`, `SeedSelections`,
`Select`, `SessionAccount`, `PinSession`, `UnpinSession`, `PruneSessions` are the
functions of nearly the same name. An operation that returns an error rolls back;
it is no step. Rows are total functions with a sentinel for a missing row. Ages of
`last_used` are reduced to the three the code tells apart (within the minute in
which a row is not touched again, older, past the 30-day cutoff).

`migrate` touches the file system too, so it is four actions (`MigrateRead`,
`MigrateCommit`, `MigrateVerify`, `MigrateRename`) between which other processes
run and the process may crash. `Ready` says that an operation of a process starts
only after its own migration, which every `with_db` runs while `auth.json` exists.
`orphaned` is a history variable: snapshot rows whose account was disconnected
since the row was written. `FirstByName` stands for the minimum by name in
`pick_selection`: all the code needs of it is that it picks a member.

`AccountBook` is the abstract specification: what the commands and the upgrade promise the
user. It has no migration. The accounts of auth.json are in the book from the start, and four
facts change it: `Connect`, `Disconnect`, `Renew`, `Select`. `AccountStore!Book` maps onto it the
stored accounts, completed while auth.json exists by those it still holds (`Known`), so a migration
that commits, verifies, crashes and starts over is a stutter of the book. `Retire` is the rename;
`Begin` and `End` follow the processes that hold what they read, because of the one exception
`Return`: a process that read the file before it was retired and commits afterwards brings back
its accounts that were disconnected meanwhile. It replaces none, which is what
`credential_store.rs:268` says of a stale migration.

Not in the model: `open_db` and `db_key` (the key and schema are there), decoding of
credentials, which cannot fail on rows the program wrote.

### AccountTracking

One proxy: `snapshot` with `reload_accounts_if_changed`, step by step as the
handler can be preempted (`Enter`, `ReadData`, `ReadRevision`, `SetSeen`, `Lock`,
`BuildAccounts`, `Rebuild`, `Discover`, `Install`, `Read`), the config watcher's
`reload` (`ReloadConfig`, `ReloadAccounts`, `ReloadSwap`, which builds without the
lock), and the start-up of `serve`. The database is reduced to its set of accounts and
its two counters; `RevisionCountsAccounts` of AccountStore is what justifies
comparing revisions instead of sets. `data_version` moves only for commits of *other*
processes, so `ForeignChange` and `ForeignTouch` move it and `OwnDisconnect`, the
admin route, does not. `RuntimeState` is reduced to which accounts and which config
it was built from; `got` is the clone a request works with.

Three flags name what the code does not promise: `overtaken` (an account change fell
between a build that holds no lock and the moment its result is installed or
tracked), `unwatched` (the config was edited between the first build and the start of
the watch) and `failed` (a task met an error).

Reduced: `carry_instance_state` (launch flags survive a reload), the debouncer's
300 ms (a burst is one event), what the provider's model discovery returns.

### OAuthRefresh

One account and several clients of it, in one process or many: after a rebuild the
old client lives on in the requests that hold it, so a process may have two. A
client's mutex is held over all of `oauth_access`, so each client has one program
counter and its tokens. `Adopt` is the check of the store under an expiring token,
`RefreshOk`/`RefreshRefused` the network call, `Swap`/`SwapFails` the compare-and-swap
and its error branch. The token endpoint is external: it issues numbered access tokens
and either rotates the refresh token every time or never. `RefreshLost` covers a
failed transport and a dropped request future, `Drop` a rebuild or the end of a process.
`lost` names the refresh tokens spent for an answer that never reached the store.

Each component module also holds its mutants: variants of an action, marked
`Mutant:`, each with a bug a property must detect. No specification uses them.

### StreamIR and Stream

One streamed answer. `StreamIR` holds the three stream decoders (`AnthropicFrame`,
`OpenAIFrame`, `ResponsesFrame`) that turn frames into IR events through the shared
`Emitter` (`Start`, `Open`, `Delta`, `Close`, `Usage`, `FinishEvents`), the three encoders
(`AnthropicEvent`, `OpenAIEvent`, `ResponsesEvent`), and `AggregateResponses`, the folding
of a Responses stream for a client that does not stream. They are operators from a record of
decoder or encoder state and an input to the next record with its output in `out`.

`Stream` is the system around them: an external upstream that says any legal stream of its
format (parts, pieces of text in them, parallel tool calls, a call that comes only when it
is finished, usage reported early, late or both); the network, which may break the connection at any line
of what is on its way or inside a data line (`UpBreak` keeps a prefix of it, the last line cut short:
no JSON), between the frames that end an answer too, and cuts the bytes into chunks; the driver of `streams.rs`, one
action per way through `drive` (`ReadChunk`, `TakeFrame`, `ReadEnd`, `Finalize`, `Yield`); and
`ScannedStream` for a client of the upstream's own format (`ReadChunk`, `ScanEnd`). The client
may hang up, which drops the stream where it is. Text is numbered pieces; a line of
the wire is one element. A chunk boundary inside a character makes `from_utf8_lossy`
garble it (`Garble`).

The client's reading of its stream (`Receive`) is in the module as well, but belongs to the
properties: it is what a client of that format makes of the payloads.

### Codec and Exchange

`Codec` is the request half of the translation: decoders and encoders of conversations for
each format, `push_message`, the preparation of the body (`Prepare`), the cache policy
(`ApplyPolicy`), and complete answers both ways. `Exchange` is a conversation: the client
asks, is answered, runs tools and asks again, possibly having given up on an answer; every
request carries the history as the client's format keeps it, so what an exchange loses, every
later request lacks. `said` and `asked` are history variables: what upstream and client
said, as words, images, calls and results that name the turn they belong to.
An answer is a thought and then texts and calls in any order its format allows (a Chat Completions
message has one text before its calls). `encode_response` of the other two formats gathers text before
calls, so an OpenAI or Responses client does not give such an answer back as it was; `AnswersReturn` says
that this is all that changes. A tool result is an id and whether it shows an image: the decoders
reduce its content to its text (`ResultText`), so the image is missing from every translated request, the
one thing `EverythingAsked` excepts. The answers of `Exchange` are complete ones; streamed ones are
those of `Stream`.

Reduced: a request's fields are those some format treats differently (system, tools, stop
words, maximum, effort, cache key, store); fields that are copied alone are not in the model,
nor is `tool_choice`.

### Router and Serve

`Router` has pure operators: `EffectiveConfig` (catalog and overlay), `Discover`, `Builds`,
`ResolveName`, `ListModels`, the gateway marker, `ResolveModel` and `AccountFor`. A model name
is a sequence of atoms, "/" among them, so that prefixes and qualified names can be told. The
overlay is folded into the catalog entry by entry, as `catalog.rs` does it, so a file that names a
provider or a route twice is read as the program reads it.

`Serve` is one proxy with concurrent handlers. A chat takes two snapshots (`Arrive`,
`Enter`), freezes its session's defaults or uses the frozen ones (`Freeze`), chooses model and
account and binds the session (`Chat`). A command validates, persists, applies and announces, in
four steps with other handlers, the watcher's reload and other processes in between; one that is refused
because no provider is connected announces that. A reload takes a snapshot and
reads the config file (`ReloadRead`), reads the accounts and builds their clients without the lock
(`ReloadBuild`) and installs them under it (`ReloadInstall`), leaving the seen revision alone. A request's poll that sees a newer revision in
between is overtaken: the older accounts come back and stay until the next revision, since `Refreshed`
returns early while the seen revision is the store's. The panel's pin and unpin are one step each; `PUT /admin/model`, `/effort`
and `/account` are the commands without a session. The account store is reduced to what a
request reads and its revision (AccountStore has all of it), and a snapshot's account tracking to one
step, `Refreshed` (AccountTracking has its interleavings, the window while the proxy starts, and
the blind spot of the proxy's own disconnect; here a disconnect is another process's). `Prune` is a proxy
that starts and forgets a session idle for 30 days. `moved`, `served`, `stranded` and the flag
`overtaken` of memory are history for the properties' conditions.

### Usage and Ledger

`Usage` is what outlives a request: the recorder's map of cache observations, stats.db, the
event channel, a report and the quota cache. A request is observed before it is sent
(`Observe`), its quota headers are written to two tables (`Answered`, `RecordQuota`), its row is
inserted and then announced (`Insert`, `Publish`); every write may fail. `LoadSummary` and
`LoadRest` are the four queries of one report, each of its own transaction. A poll of the quota
takes the refresh lock, reads the cache, fetches and stores (`EnterRefresh`, `LoadCache`,
`FetchOk`, `Save`). A fetch may fail (`FetchFails`), which stores nothing, and the panel may hang up
anywhere (`GoAway`): the poll is dropped and its lock with it, but a write already handed to the
blocking pool still lands (`SaveLeft`). Other processes write rows and quotas; a fetch
of theirs and its store are one step. `asked` is a history variable: when the endpoint was last asked, and
whether the answer was kept. The order of ids is the order of
`rows`; digests, models and keys are values that are equal or not.

`Ledger` is the abstract specification: what recording promises whoever looks at it. It has
three variables and three actions; `Usage!Book` maps the rows, the announced rows and what a
listener heard onto them. An announcement is known by its place in the channel.

### MC modules

`MCAccountStore`, `MCAccountTracking`, `MCOAuthRefresh`, `MCStream`, `MCExchange`, `MCServe` and
`MCUsage` give the constants their values for TLC.

### AccountStoreProofs, AccountTrackingProofs, OAuthRefreshProofs, ServeProofs, UsageProofs, StreamProofs and StreamRecordProofs

TLAPS proofs, see below.

### Folding

Induction over numbers, finite sets and sequences, and what the proofs need to know of sums over
sets and folds over sequences. Its constant `Op` is the operator that is folded; a proof module
instantiates it once for each operator it reasons about.

## Runs

| Run | Checks | Bounds |
| --- | --- | --- |
| `store` | `TypeOK`, `SelectionCovers`, `KeepsBook`, `SessionSticky`, `RevisionCountsAccounts` | 1 provider, 3 aliases, 2 sessions, 2 processes, 1 key and 2 tokens, 5 revisions |
| `legacy_file_kept` | violated: `LegacyFileKept` | as `store` |
| `disconnected_snapshot` | violated: `DisconnectedSnapshotRetaken` | as `store` |
| `tracking` | `TypeOK`, `SeenNeverAhead`, `FreshSnapshot` | 2 accounts, 2 requests and the watcher, 2 revisions, 1 foreign commit, 1 edit, 1 failure |
| `tracking_liveness` | `AccountsConverge`, `ConfigConverges` | 2 accounts, 1 request and the watcher, 1 revision, 2 foreign commits, 2 edits, 1 failure |
| `own_disconnect` | violated: `DisconnectTakesEffect` | 1 request |
| `oauth` | `TypeOK`, `ChainKept`, `StoreNeverRollsBack`, `Recovers` | 2 clients, 2 expiries, 2 logins, 1 failure |
| `oauth_adopt` | violated: `AdoptsOnlyRotated` | as `oauth` |
| `stream` | `TypeOK`, `WellFormed`, `HeardIsSaid`, `RecordedAsTold`, `StopKept`, `AggregateAgrees`, `EndsForTheClient` | all 9 pairs of formats, 2 parts, 2 pieces, 1 or 2 usage reports a format, 3 stop reasons a format, 1 send in flight, broken at any of its lines; characters cut for one pair |
| `exchange` | `TypeOK`, `AnswersReturn`, `EverythingAsked`, `CallsAnswered`, `PrefixStable`, `BreakpointsAdvance` | all 9 pairs of formats, 2 settings, 3 turns of the client, a thought and 3 parts an answer, of them at most 2 texts and 2 calls |
| `serve` | `TypeOK`, `PickedIsServed`, `RefusalTold`, `SessionKeepsDefaults`, `SessionKeepsAccount`, `FollowsFile` | 1 session, 2 handlers, 2 providers, 2 aliases, 3 config files, 1 report of an upstream's models, 2 starts (one with a reload pending), 2 requests of 7 kinds, 1 step of another process |
| `usage` | `TypeOK`, `DiagnosticsTrue`, `ReportConsistent`, `QuotaKept`, `KeepsLedger`, `CatchesUp` | 2 handlers, 2 pollers, 6 budgets of up to 3 requests, 2 polls, 1 report, 2 clock ticks, 1 foreign write; 1 observed session, channel of 1 |

Why the bounds are enough to see the interesting cases. Providers never meet in a
table, so one is enough; three aliases give a selected account, a sibling and the
migrated `default`. Two processes can both be in the migration while the rest of the
operations run. Two accounts of one provider reach both ways of installing accounts
(replace them, or rebuild everything when the provider gains or loses its only one).
Two requests and the watcher contend for the lock; of the two revisions one is another
process's change and the other the proxy's own disconnect, each of which can fall anywhere between
poll, build and install. (A second foreign change is beyond TLC in this run; the proofs below cover
any number.) A config edit can only be lost to another one
that is being applied, hence two edits in the liveness run (which also passes with two
revisions, in five minutes). Two clients race for one refresh token, and two
logins put a second chain, or an API key, under a refresh in flight. Processes and
sessions, and requests and accounts, are symmetric; the symmetry is used for safety
only.

What the runs of streams, conversations, serving and usage show. `stream`: two parts and two pieces reach every change of kind
between blocks, an empty block, parallel calls and a call split over frames; the wire holds
what the upstream sent last, so every chunk boundary between and inside frames happens. The
usage reports are one that comes in two pieces and one that comes only at the end, each where
the format has it (Chat Completions both).
`exchange`: two texts and two calls in an answer, in any order, one turn of tool results and one more question,
or two interruptions, are what merging and splitting of turns can get wrong; a third
request shows that a difference between two requests lasts. The policy is checked for where it puts its
markers on messages; that it has four at most is not. The settings differ in every
field some format treats in its own way. `serve`: the file without anything, one that reroutes
a qualified name, shadows a catalog route, names a provider twice and has a route with the hint
in its name, and one whose router cannot be built; providers
with and without models of their own, an upstream that reports its own `auto`, and two starts: a session with a choice of accounts,
and an instance launched for one model whose provider has one account to lose, with a saved file that
the watcher has still to reload, so that a request overtakes the reload; two handlers are enough for a
command to overtake another or a chat. `usage`: each budget is one question (sessions
that push each other out of the map; a report while requests end; subscribers and clients
without a session; polls against headers, against another process, against the clock).
The constants 1024, 256 and 60 of the code are 1, 1 and 2: only whether the bound is
reached matters. With a bound of one, two sessions never share the map of observations in this run;
`DiagnosticsAreTrue` is for any bound. One of the outcomes counts more cached tokens than input, as
an upstream may (`stats_report.rs:234` tests it), so that the report's subtraction saturates.

Exceptions the properties state, because the code does not promise more: a stream
dropped by its client, or a forwarded one that fails, leaves no row (`RecordedAsTold`), although
README.md:477 says every proxied request is recorded; a Responses client's stream ends
"completed" even when the answer was cut short (`StopKept`); a refusal may be stale if the store
changed during the request, if a config file that cannot be built kept the proxy on its old
accounts, or if an overtaken reload brought older accounts back under the newest revision, where they stay
until the store changes again (`RefusalTold`); text that follows a call comes before it in what an
OpenAI or Responses client gives back (`AnswersReturn`), and an image in a tool result is lost in
translation (`EverythingAsked`); a fetch of a quota that failed, was abandoned or could not be stored is repeated
by the next poll (`QuotaKept`); cached and uncached tokens add up to more than the input if an upstream
does not count the former as input (`ReportConsistent`); a value that a session-less command applied after
the reload its own write set off outlives a newer one in the file (`FollowsFile`, `stranded`);
a cleared map is silent about a change (`DiagnosticsTrue`); three kinds of listed ids are not what
they look like: one that begins with the gateway marker itself, a route's name that ends in the
`[1m]` hint, and `p/auto` listed for a provider that has no auto model (`PickedIsServed`).

`CHECK_DEADLOCK FALSE` is set where a bound makes the model stop (`tracking`, `oauth`, `exchange`,
`serve`, `usage`): the last revision, edit, expiry, login, turn or request is not the end of the
program. In `stream` the end of the connection is a step of its own (`Stopped`), and a stream
that is stuck before it would be found.

The four violations disagree with what the repository says:

* `legacy_file_kept`: the module documentation says the legacy file is never deleted.
  Two first runs after an upgrade can delete the backup: the second migrator unlinks
  what the first just renamed.
* `disconnected_snapshot`: a session's snapshot of a disconnected account is said to
  be retaken from the selection. If the alias is connected again before the session's
  next request, the old row applies.
* `own_disconnect`: `DELETE /admin/accounts/...` is said to be the same as
  `local-proxy disconnect`. The serving proxy keeps using the account, because its own
  commits are invisible to its `data_version` poll.
* `oauth_adopt`: a client adopts stored tokens "if one already rotated the refresh
  token". After a failed store write the difference has another cause, and the client
  replaces its good token by the spent one.

### Fairness

`AccountTracking!FairSpec`: tokio runs every ready task (start-up, reload, a request's
next step), the debouncer reports what it saw, and requests keep arriving. Without
requests nothing looks at the database, and the property would not hold.
`OAuthRefresh!FairSpec`: requests keep coming to every client, and the endpoint answers;
failures are bounded. Weak fairness suffices in both: the write lock is released by a
step that is itself fair, and TLC confirms that no task starves within the bounds.
`Stream!FairSpec`: hyper polls the answer's body as long as the client takes data, so the proxy's
next step is taken when there is one; nothing is assumed of the upstream, which may
stay silent for ever, or of the client. `Serve!FairSpec`: the watcher is a task of its own
(`Reload`); handlers need no fairness, since `FollowsFile` holds also for a command that never
finishes. `Usage!FairSpec`: a subscriber is a response body that the server keeps polling
(`Receive`).

### Refinement

Two components implement an abstract specification, checked by TLC and proved:

* `KeepsBook` (`AccountStore!Book!Spec`): every step of `AccountStore` is a step of `AccountBook` or
  leaves its variables alone. Two processes that migrate at once, crash and start over never lose,
  replace or deselect an account, and auth.json goes only when all it held is stored.
* `KeepsLedger` (`Usage!Book!Spec`): every step of `Usage` is a step of `Ledger` or leaves its
  variables alone. Requests of several handlers, other processes' rows, failing inserts and a lagging
  listener never change or drop a row, announce one twice or before it is there, or let a listener
  hear of one that was not announced.

## Proofs

Every theorem holds for every value of the constants that meets the named assumptions of its module.
Each rests on an inductive invariant, stated in the proof module, that TLC checked on the run's
instance before it was proved.

### The account database

`AccountStoreProofs` is for any providers, aliases, sessions, processes, credentials and legacy file.
It assumes that `default` is an alias, that sentinels are no values and that `FirstByName` picks a
member.

* `TypeCorrect`: `Spec => []TypeOK`. `TypeOK` is inductive; the only step that needs
  care is `SeedSelections`, where `PickSelectionMember` shows that the alias is a
  stored one.
* `SelectionAlwaysCovers`: `Spec => []SelectionCovers`, inductive together with
  `TypeOK` (`SelectionCoversStep`): a disconnect may take the selection along only when
  it takes the last account.
* `BookKept`: `Spec => KeepsBook`. `MigrationInv` says where every process stands in the migration:
  while the file exists, a process past its commit has its providers stored, which no operation can
  undo because none runs before the file is gone. With it, `RenameStep` shows that the rename changes
  no account of the user; `CommitStep` that a commit is a stutter while the file exists, and fills gaps
  after; `OperationKnown` that every other operation acts on exactly the accounts the user knows.
* `SessionsStick`: `Spec => SessionSticky`, by cases over the actions; `SnapshotInOne`
  says a snapshot write touches one row.
* `EveryChangeCounted`: `Spec => RevisionCountsAccounts`, by cases over the actions that
  write credentials. It is what AccountTracking rests on when it compares revisions.

### Account tracking

`AccountTrackingProofs` is for any accounts, any number of requests and any bounds,
from `TaskAssumption` (the task names differ) and `VersionAssumption` (the sentinel is no
version):

* `TypeCorrect`: `Spec => []TypeOK`.
* `VersionHonest`: `Spec => []SeenNeverAhead`.
* `RequestsFresh`: `Spec => []FreshSnapshot`.

Neither of the last two is inductive. A request is fresh because of what it polled, what
the last install recorded, and what the holder of the write lock is building, so
`TrackingInv` has a part for each: `StateInv` (the installed version is `Known`: if no
other process has committed since its first half was read, its second half is no older
than the last change elsewhere), `TaskInv` (the same for the versions a task has read; a
task between lock and install holds the lock, and builds accounts no older than the
revision it polled or than those installed) and `RequestInv` (what a request has polled,
found installed or been given covers the changes that preceded it). The argument that it is
preserved has three steps.
`StoreOnlyGrows`: no step moves a counter back or installs older accounts, but for the
named exception. `OneActor`: a step is one of task u's own or leaves u's locals alone,
and the installed state, too, while u holds the lock. Then `StateInvStep`, `TaskInvStep`
and `RequestInvStep` need to look only at the task's own actions.

### OAuth refresh

`OAuthRefreshProofs` is for any number of clients and any bounds, and for endpoints that rotate
refresh tokens and those that do not (`SentinelAssumption`: `None` is no token or key;
`BoundAssumption`: the bounds are numbers).

* `TypeCorrect`: `Spec => []TypeOK`.
* `ChainAlwaysKept`: `Spec => []ChainKept`.
* `StoreOnlyForward`: `Spec => StoreNeverRollsBack`.

`ChainKept` says that a stored refresh token that is not good is being replaced by a client that holds
its successor. It is not inductive: another client might spend that successor, or put it over a newer
one, before it is stored. `AnswerGood` rules that out: the answer a client is about to swap in holds a
good refresh token no older than the one it was asked with, and, where tokens rotate, nobody else holds
it (`OnlyHeldBy`). For that a new token must differ from all there are, hence `TokensIssued`: every
token in use has a number the endpoint has already given. `StoreOnlyForward` then follows for each action
alone, since `Swap` compares what is stored with the token the answer was asked with.

### Serving

`ServeProofs` is for any configurations, providers, aliases, sessions, handlers and requests
(`ServeAssumption`: sentinels and errors are no names; requests name providers; starts are typed).

* `TypeCorrect`: `Spec => []TypeOK`, which holds that memory's configuration always builds, whatever is
  written into the file and whenever the watcher reads it. That is `MemoryInv`: `Runnable` is kept by
  a build, by discovery, which adds models only, and by a command's value.
* `RefusalsTrue`: `Spec => []RefusalTold`. A refusal is true because the request chose its account from
  the store and its clients from its snapshot, and the two are the same (`SnapshotInv`) unless the
  store moved, the snapshot could not follow it or a reload was overtaken, in each of which cases the
  request is in `moved`. `FreshInv` is what makes that true: memory that records the store's revision
  and was not overtaken holds the store's accounts, and a reload under way has read the accounts of the
  revision it remembers (`RefreshedFresh`, `FreshStep`).
* `AccountKept`: `Spec => SessionKeepsAccount`. `ServedInv` says that the account which served a session
  is the one it is bound to, and is stored; `ChatAccounts` that a chat without a header uses the bound
  account, and binds what it used where there was none.
* `DefaultsKept`: `Spec => SessionKeepsDefaults`, by cases over the actions: what is frozen is written
  again by `Apply` of the same session alone.
* `PicksAreServed`: `Spec => []PickedIsServed`, from `CatalogAssumption` (the built-in catalog names
  each provider once; lists are lists, and what an upstream reports are names). `CatalogInv` says
  that memory, file and watcher hold configurations with that property: `OverlaidKeeps` shows by
  induction over the overlay that folding it in names no provider twice, whatever the file says.
  Resolution then finds, for an id `p/m` of the list, the one provider named p (`QualifiedResolves`),
  once `Unmarked` has taken off what `Shown` put on.

The invariant is `ServeInv`, of `TypeInv`, `FreshInv`, `AccountInv` (also `SelectionInv`: a provider with accounts
has one of them selected) and `RequestInv`; `PicksAreServed` has `CatalogInv` of its own.

### Usage

`UsageProofs` is for any requests, outcomes, handlers, pollers and bounds (`UsageAssumption`: the
limits are numbers and the rows of other processes are of no known request; `NoneAssumption`: `None` is
no observation, quota or poller; `TokensAssumption`: token counts are numbers. Nothing says that
cached tokens are part of the input, since `parse_usage` does not ensure it).

* `TypeCorrect`: `Spec => []TypeOK`.
* `DiagnosticsAreTrue`: `Spec => []DiagnosticsTrue`. A row says what its request was compared with, so
  the proof has to follow it from the map (`ObservedInv`: the map holds the last observation of each
  session in it, is bounded, and misses only sessions that were cleared or never seen), over the request
  under way (`JobsTrue`), to the row.
* `QuotaIsKept`: `Spec => []QuotaKept`. `LockInv` says that one poller is inside a refresh, `StoredInv`
  that the stored quota is at least as new as the last time the endpoint was asked, if that answer was
  kept, `PollInv` that a poller asks only if what it read was old when it began; so nobody can have
  stored a fetch in between.
* `LedgerKept`: `Spec => KeepsLedger`. `PublishInv` carries it: the row a handler is about to announce is
  stored, unannounced, and no other handler's. `AnnouncedAppended` relates the channel, where quota
  events stand between the announcements, to the ledger's.
* `ReportsAreConsistent`: `Spec => []ReportConsistent`. Each query of a report reads the rows of its own
  moment, so the proof needs that rows are only added, that a sum over more rows is no smaller, and
  that a sum over disjoint sets is the sum of the sums. These are inductions over finite sets (`Folding`).

The invariant is `UsageInv`, of `TypeInv`, `RecordInv`, `CacheInv` and `QuotaInv`.

### Streams

`StreamProofs` is for any pairs of formats, any upstream (its answers may have any number of parts and
pieces, the bounds are arbitrary), any chunk boundaries, any line at or in which the connection breaks and
any moment at which the client hangs up (`StreamAssumption`: the formats are those the proxy knows, `MaxWire` is a number).

* `ClientStreamIsWellFormed`: `Spec => []WellFormed`: whatever arrives, the client's events form a legal
  stream of its own format.
* `ClientFollowsDecoder`: `Spec => [](WireInv /\ StreamInv)`, the invariant behind it.

`WellFormed` speaks of a fold of the client's reading over all it received, each payload of which is
the output of an encoder folded over the output of a decoder folded over the frames, so the invariant
relates the three. `WireInv`: what is buffered and in flight is data and blank lines in turn, and every
frame there is about a part the upstream has begun. `StreamInv`: a client that has read what it
received and what waits for it (`Reads`) has met no fault, and stands where the decoder stands. For a
client of each format `Hearer` says what that means: the blocks it has open are the
decoder's open blocks under the names the encoder gave them, names to come are above all that were
used, a Responses item's text in the encoder is the text of its deltas, and the client has not seen the
end before the decoder has ended; every key of the decoder that a frame may still name has its block open.

One frame can put out any number of events, and one event any number of payloads, so every step is an
induction. `HearerFrame` and `HearerEnd` take a frame, or the end of the body, through the operations of
the decoder (`Start`, `Open`, `Delta`, `Close`, `FinishEvents`), each of which is shown to keep the
relation for its own events; `SendKeeps` says that all the upstream's actions keep `WireInv`. A
forwarded stream writes no payloads, and a dropped one none after the hang-up. The
inductions are citations of `Folding`, which states induction for a set of the things that
have the property instead of an operator, proves it from well-founded minimal elements, and derives
from it what folds over appended and concatenated sequences are.

`StreamRecordProofs` goes on from there, with one more assumption, `UsagesAssumption`: an answer's reports
are cumulative, a count that comes again being no smaller. That is what the documentation of `merge_usage`
expects (`src/domain/translate.rs:212`); without it the decoder, which takes the later count, and the
scanner, which takes the higher one, would differ.

* `StreamRecorded`: `Spec => []RecordedAsTold`.
* `StreamTypeOK`: `Spec => []TypeOK`, for any bound on what is in flight.

`RecordedAsTold` compares a row with what the client was told and with a fold over all frames taken, so the
invariant follows a report from the upstream to the row. `CarriedInv`: the lines on their way have a report
in the frames that bear one and nowhere else, and are not too many. `ReportsInv`: the decoder's usage, the
reports ahead of it in order, and those the upstream still has to send are cumulative, each against all that
come later; so `MergedIsLater` applies to every frame that is taken (`FirstMerged`), and the decoder's usage is the
scanner's (`CountInv`, `ScanInv`). `RowsInv` says when there is a row and that it holds that usage. `ToldInv`
says that a terminal event is nowhere before the end, and tells it after: `NotLastYet` gets the first half from
`StreamInv`, since a client whose stream has not ended has read no terminal event (`LastEnds`), and
`EndTells` the second from the events that close a stream. That a decoder has no more open blocks than it
has numbered is the pigeonhole principle (`TracksFew`).

### Only model-checked

* All liveness (`AccountsConverge`, `ConfigConverges`, `Recovers`, `EndsForTheClient`, `FollowsFile`,
  `CatchesUp`): fairness and ENABLED are out of the prover's reach.
* Of `Stream`: `HeardIsSaid`, `StopKept` and `AggregateAgrees`, which relate all the client
  heard to all the upstream said, and need for every way between two formats an invariant over what
  is in flight as well (the relation that `StreamProofs` has between decoder and client would be its
  second half).
* `Exchange`: what an upstream reads after several turns is a conversation encoded, decoded and prepared
  as a whole. Its operators flatten, merge and split sequences of turns with the community
  modules' `SelectSeq`, `FlattenSeq` and the like, which have no usable definition in the prover
  or need facts about each that the library does not state.

## Plan

1. Done: account database and its abstract book, tracking, OAuth refresh, streams, translation, router
   and serving, usage and its abstract ledger.
2. Done: proofs of every safety invariant, action property and refinement of the database, tracking,
   OAuth refresh, serving and usage, and of the form and the record of every translated stream.
3. Left: what a translated stream says (`HeardIsSaid`, `StopKept`), for which an invariant
   between what was said and what decoder and wire hold is needed; the conversations of `Exchange`.

## Not modelled

* Vault key (`db_key`): its only hard case is two first runs that both find no entry. What
  happens then is up to the keyring's backend, about which the repository says nothing.
* Config file: an update is one step. `update` reads, changes and renames through one
  temporary name, so two processes may lose an update; nothing promises otherwise.
* Pid file: a second background proxy overwrites the first one's, and removes it when it stops.
* The PKCE exchange and callback listener of a login, the client-key check, `count_tokens`,
  compare, the log file, installing and self-update, argument parsing and printing, the
  HTTP server and client, the desktop panel, the wording and layout of messages.
* Context lengths, prices and energy of models: numbers that are passed on.

Seen while modelling, not covered by a property:

* `SessionSticky` lets a session's own row change in the step that writes it, so it
  does not say that only a missing account makes the proxy retake it (`disconnected_snapshot` and
  `SessionKeepsAccount` are about that).
* A proxy whose set of connected providers changed rebuilds everything from the config file. If that
  file cannot be built, it stays on all of its old accounts, those of unconcerned providers too.
* `feed_frames` decodes each chunk alone, so a character cut by a chunk boundary is lost in the
  client's copy (`Garble`; `HeardIsSaid` asks only for its place).
* After quota headers were recorded, `fetched_at` is new for the whole row: under steady traffic
  the month and the reset times, which only the usage endpoint reports, are not fetched.
* `account_usage.rs:1-3` says that a provider's usage endpoint is asked at most once a minute. A fetch
  that fails stores nothing, not even that it was tried (117-132), so every poll after it asks again
  at once; `QuotaKept` claims no more than the code does.
* A marker that a client places itself switches the cache policy off for that request, which
  changes the cached prefix it was to keep.
* `apply_account`'s comment speaks of a `clear` that does not exist (a test says so,
  `src/application/commands.rs:310`).
* README.md:156 lists `openrouter/auto` as a model of a provider without an auto model. The catalog of
  models a client may request (`list_models`) offers it, and resolution refuses it, as README.md:173
  says (`PickedIsServed` names the case).
* The config accepts a provider name that holds "/" or begins with the gateway marker, whose models
  no client can then ask for by their qualified names; the model takes names to be single atoms.
* A tool of a kind that a Chat Completions upstream does not have is dropped, while `tool_choice`
  may still name it.
