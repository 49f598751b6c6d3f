---------------------------- MODULE AccountStore ----------------------------
(***************************************************************************)
(* The account database (accounts.db) that the CLI and every running proxy *)
(* share: src/adapters/outbound/credential_store.rs.                       *)
(*                                                                         *)
(* Every operation runs under `with_db`: it takes the process-wide         *)
(* connection, first moves a legacy auth.json into the database (migrate), *)
(* then runs one SQLite transaction.  Transactions of different processes  *)
(* are serialised by BEGIN IMMEDIATE, so one transaction is one action;    *)
(* the file-system steps of `migrate` are not, so they are actions of      *)
(* their own and a process may crash between any two of them.              *)
(*                                                                         *)
(* An operation that fails (account exists, unknown account, selected      *)
(* account) rolls back and changes nothing: it is a stuttering step.       *)
(***************************************************************************)
EXTENDS Naturals, FiniteSets

CONSTANTS
    Provider,      \* provider names
    Alias,         \* valid account aliases
    FirstByName,   \* the first by name of a nonempty set of aliases
    Session,       \* non-empty session ids
    Process,       \* CLI invocations and proxies, each with one connection
    Key, Token,    \* API keys and OAuth refresh tokens
    NoAlias,       \* no row in `selected` or `session_accounts`
    NoCredential,  \* no row in `accounts`
    Default,       \* the alias "default"
    LegacyAuth,    \* contents of auth.json: provider -> credential
    MaxRevision    \* bound on user_version

Credential == [kind : {"api"}, key : Key] \cup [kind : {"oauth"}, refresh : Token]

LegacyProvider == DOMAIN LegacyAuth

ASSUME AliasAssumption ==
    /\ Default \in Alias
    /\ NoAlias \notin Alias
    /\ \A S \in SUBSET Alias : S # {} => FirstByName[S] \in S

ASSUME CredentialAssumption ==
    /\ NoCredential \notin Credential
    /\ LegacyProvider \subseteq Provider
    /\ LegacyAuth \in [LegacyProvider -> Credential]

ASSUME BoundAssumption == MaxRevision \in Nat

VARIABLES
    accounts,    \* table accounts: provider, alias -> credential
    selected,    \* table selected: provider -> alias
    snapshot,    \* table session_accounts: session, provider -> alias
    age,         \* how long ago the last_used of a snapshot row lies
    revision,    \* PRAGMA user_version
    legacyFile,  \* auth.json exists
    backup,      \* auth.json.migrated exists, holding the same credentials
    phase,       \* where in `migrate` each process is
    orphaned     \* history: snapshot rows whose account was disconnected
                 \*          after the row was last written

tables == <<accounts, selected, snapshot, age, revision>>
files == <<legacyFile, backup>>
vars == <<tables, files, phase, orphaned>>

\* Ages of last_used: within the minute, older, and past the 30-day cutoff.
Fresh == 0
Idle == 1
Expired == 2

Phase == {"idle", "read", "committed", "unlinked"}

TypeOK ==
    /\ accounts \in [Provider -> [Alias -> Credential \cup {NoCredential}]]
    /\ selected \in [Provider -> Alias \cup {NoAlias}]
    /\ snapshot \in [Session -> [Provider -> Alias \cup {NoAlias}]]
    /\ age \in [Session -> [Provider -> {Fresh, Idle, Expired}]]
    /\ revision \in Nat
    /\ legacyFile \in BOOLEAN
    /\ backup \in BOOLEAN
    /\ phase \in [Process -> Phase]
    /\ orphaned \subseteq Session \X Provider

-----------------------------------------------------------------------------

\* The aliases stored for provider p.
Stored(p) == {a \in Alias : accounts[p][a] # NoCredential}

\* The alias session s is bound to: its snapshot row joined with `accounts`.
Bound(s, p) ==
    IF snapshot[s][p] \in Stored(p) THEN snapshot[s][p] ELSE NoAlias

\* `pick_selection`.  The code asks for two or more aliases before it prefers
\* "default", which changes nothing: a single alias is the first one.
PickSelection(aliases, legacy) ==
    IF legacy \in aliases THEN legacy
    ELSE IF Default \in aliases THEN Default
    ELSE FirstByName[aliases]

\* A process reaches its transaction only once auth.json is out of the way.
Ready(c) == phase[c] = "idle" /\ ~legacyFile

\* `bump_revision`.
BumpRevision == revision < MaxRevision /\ revision' = revision + 1

\* Mutant: the row is not keyed by session.
SnapshotInEverySession(s, p, a) ==
    /\ snapshot' = [t \in Session |-> [snapshot[t] EXCEPT ![p] = a]]
    /\ age' = [age EXCEPT ![s][p] = Fresh]
    /\ orphaned' = orphaned \ {<<s, p>>}

\* `snapshot_in`: write the row of s and p, last used now.
SnapshotIn(s, p, a) ==
    /\ snapshot' = [snapshot EXCEPT ![s][p] = a]
    /\ age' = [age EXCEPT ![s][p] = Fresh]
    /\ orphaned' = orphaned \ {<<s, p>>}

-----------------------------------------------------------------------------

\* A first start (no file) or an upgrade from a release that kept auth.json.
Init ==
    /\ accounts = [p \in Provider |-> [a \in Alias |-> NoCredential]]
    /\ selected = [p \in Provider |-> NoAlias]
    /\ snapshot = [s \in Session |-> [p \in Provider |-> NoAlias]]
    /\ age = [s \in Session |-> [p \in Provider |-> Fresh]]
    /\ revision = 0
    /\ legacyFile \in BOOLEAN
    /\ backup = FALSE
    /\ phase = [c \in Process |-> "idle"]
    /\ orphaned = {}

\* `insert_account`: an existing account is never overwritten, and a
\* provider's first account becomes its selection.
Insert(c, p, a, cred) ==
    /\ Ready(c)
    /\ a \notin Stored(p)
    /\ accounts' = [accounts EXCEPT ![p][a] = cred]
    /\ selected' = [selected EXCEPT ![p] = IF @ = NoAlias THEN a ELSE @]
    /\ BumpRevision
    /\ UNCHANGED <<snapshot, age, files, phase, orphaned>>

\* Mutant: the bare token is stored instead of the credential.
SwapOAuthBare(c, p, a, used, fresh) ==
    /\ Ready(c)
    /\ a \in Stored(p)
    /\ accounts[p][a].kind = "oauth" => accounts[p][a].refresh = used
    /\ accounts' = [accounts EXCEPT ![p][a] = fresh]
    /\ UNCHANGED <<selected, snapshot, age, revision, files, phase, orphaned>>

\* `swap_oauth_for`, for tokens refreshed with the refresh token `used`.
\* Stored OAuth tokens that moved on meanwhile win and nothing is written.
SwapOAuth(c, p, a, used, fresh) ==
    /\ Ready(c)
    /\ a \in Stored(p)
    /\ accounts[p][a].kind = "oauth" => accounts[p][a].refresh = used
    /\ accounts' = [accounts EXCEPT ![p][a] = [kind |-> "oauth", refresh |-> fresh]]
    /\ UNCHANGED <<selected, snapshot, age, revision, files, phase, orphaned>>

\* Mutant: the selected account may go before the others.
RemoveSelected(c, p, a) ==
    /\ Ready(c)
    /\ a \in Stored(p)
    /\ accounts' = [accounts EXCEPT ![p][a] = NoCredential]
    /\ selected' = [selected EXCEPT ![p] = IF Stored(p) = {a} THEN NoAlias ELSE @]
    /\ orphaned' = orphaned \cup {<<s, p>> : s \in {t \in Session : snapshot[t][p] = a}}
    /\ BumpRevision
    /\ UNCHANGED <<snapshot, age, files, phase>>

\* Mutant: a disconnect leaves the revision alone.
RemoveUncounted(c, p, a) ==
    /\ Ready(c)
    /\ a \in Stored(p)
    /\ Stored(p) # {a} => selected[p] # a
    /\ accounts' = [accounts EXCEPT ![p][a] = NoCredential]
    /\ selected' = [selected EXCEPT ![p] = IF Stored(p) = {a} THEN NoAlias ELSE @]
    /\ orphaned' = orphaned \cup {<<s, p>> : s \in {t \in Session : snapshot[t][p] = a}}
    /\ UNCHANGED <<snapshot, age, revision, files, phase>>

\* `remove_account`: the selected account goes last.  Snapshot rows stay.
Remove(c, p, a) ==
    /\ Ready(c)
    /\ a \in Stored(p)
    /\ Stored(p) # {a} => selected[p] # a
    /\ accounts' = [accounts EXCEPT ![p][a] = NoCredential]
    /\ selected' = [selected EXCEPT ![p] = IF Stored(p) = {a} THEN NoAlias ELSE @]
    /\ orphaned' = orphaned \cup {<<s, p>> : s \in {t \in Session : snapshot[t][p] = a}}
    /\ BumpRevision
    /\ UNCHANGED <<snapshot, age, files, phase>>

\* `seed_selections`, with the legacy `defaults.active_accounts`.
SeedSelections(c, legacy) ==
    /\ Ready(c)
    /\ selected' = [p \in Provider |->
                      IF selected[p] = NoAlias /\ Stored(p) # {}
                        THEN PickSelection(Stored(p), legacy[p])
                        ELSE selected[p]]
    /\ UNCHANGED <<accounts, snapshot, age, revision, files, phase, orphaned>>

\* `select_account`.
Select(c, p, a) ==
    /\ Ready(c)
    /\ a \in Stored(p)
    /\ selected' = [selected EXCEPT ![p] = a]
    /\ UNCHANGED <<accounts, snapshot, age, revision, files, phase, orphaned>>

\* `session_account`: keep the bound account, touching its row at most once a
\* minute, or take the row from the current selection.
SessionAccount(c, s, p) ==
    /\ Ready(c)
    /\ \/ /\ Bound(s, p) # NoAlias
          /\ age[s][p] # Fresh
          /\ SnapshotIn(s, p, Bound(s, p))
       \/ /\ Bound(s, p) = NoAlias
          /\ selected[p] # NoAlias
          /\ SnapshotIn(s, p, selected[p])
    /\ UNCHANGED <<accounts, selected, revision, files, phase>>

\* `pin_session`, optionally selecting the account in the same transaction.
PinSession(c, s, p, a, select) ==
    /\ Ready(c)
    /\ a \in Stored(p)
    /\ selected' = IF select THEN [selected EXCEPT ![p] = a] ELSE selected
    /\ SnapshotIn(s, p, a)
    /\ UNCHANGED <<accounts, revision, files, phase>>

\* Delete the rows of `session_accounts` in `rows`.
DeleteRows(rows) ==
    /\ snapshot' = [s \in Session |-> [p \in Provider |->
                      IF <<s, p>> \in rows THEN NoAlias ELSE snapshot[s][p]]]
    /\ age' = [s \in Session |-> [p \in Provider |->
                      IF <<s, p>> \in rows THEN Fresh ELSE age[s][p]]]
    /\ orphaned' = orphaned \ rows

\* `unpin_session`.
UnpinSession(c, s, p) ==
    /\ Ready(c)
    /\ DeleteRows({<<s, p>>})
    /\ UNCHANGED <<accounts, selected, revision, files, phase>>

\* `prune_sessions`, called with a cutoff 30 days back when a proxy starts.
PruneSessions(c) ==
    /\ Ready(c)
    /\ DeleteRows({r \in Session \X Provider : age[r[1]][r[2]] = Expired})
    /\ UNCHANGED <<accounts, selected, revision, files, phase>>

\* Time passes for one snapshot row.
Age(s, p) ==
    /\ snapshot[s][p] # NoAlias
    /\ age[s][p] # Expired
    /\ age' = [age EXCEPT ![s][p] = @ + 1]
    /\ UNCHANGED <<accounts, selected, snapshot, revision, files, phase, orphaned>>

-----------------------------------------------------------------------------
(* `migrate`, run before every operation while auth.json exists.           *)

MigrateRead(c) ==
    /\ phase[c] = "idle"
    /\ legacyFile
    /\ phase' = [phase EXCEPT ![c] = "read"]
    /\ UNCHANGED <<tables, files, orphaned>>

\* Mutant: INSERT OR REPLACE.
MigratedReplacing ==
    [p \in Provider |->
        IF p \in LegacyProvider THEN [accounts[p] EXCEPT ![Default] = LegacyAuth[p]]
        ELSE accounts[p]]

\* INSERT OR IGNORE every legacy credential as "default".
Migrated ==
    [p \in Provider |->
        IF p \in LegacyProvider /\ Default \notin Stored(p)
        THEN [accounts[p] EXCEPT ![Default] = LegacyAuth[p]]
        ELSE accounts[p]]

\* The insertions are one transaction.
MigrateCommit(c) ==
    /\ phase[c] = "read"
    /\ accounts' = Migrated
    /\ BumpRevision
    /\ phase' = [phase EXCEPT ![c] = "committed"]
    /\ UNCHANGED <<selected, snapshot, age, files, orphaned>>

\* Read every credential back, then drop the previous backup.
MigrateVerify(c) ==
    /\ phase[c] = "committed"
    /\ IF \A p \in LegacyProvider : Default \in Stored(p)
         THEN /\ phase' = [phase EXCEPT ![c] = "unlinked"]
              /\ backup' = FALSE
         ELSE /\ phase' = [phase EXCEPT ![c] = "idle"]
              /\ UNCHANGED backup
    /\ UNCHANGED <<tables, legacyFile, orphaned>>

\* Rename auth.json to auth.json.migrated; an error when it is gone.
MigrateRename(c) ==
    /\ phase[c] = "unlinked"
    /\ phase' = [phase EXCEPT ![c] = "idle"]
    /\ legacyFile' = FALSE
    /\ backup' = (legacyFile \/ backup)
    /\ UNCHANGED <<tables, orphaned>>

\* The process dies in the middle of `migrate` and starts over later.
Crash(c) ==
    /\ phase[c] # "idle"
    /\ phase' = [phase EXCEPT ![c] = "idle"]
    /\ UNCHANGED <<tables, files, orphaned>>

Migrate(c) ==
    \/ MigrateRead(c)
    \/ MigrateCommit(c)
    \/ MigrateVerify(c)
    \/ MigrateRename(c)
    \/ Crash(c)

-----------------------------------------------------------------------------

Next ==
    \/ \E c \in Process :
         \/ \E p \in Provider, a \in Alias, cred \in Credential : Insert(c, p, a, cred)
         \/ \E p \in Provider, a \in Alias, used, fresh \in Token :
              SwapOAuth(c, p, a, used, fresh)
         \/ \E p \in Provider, a \in Alias : Remove(c, p, a)
         \/ \E legacy \in [Provider -> Alias \cup {NoAlias}] : SeedSelections(c, legacy)
         \/ \E p \in Provider, a \in Alias : Select(c, p, a)
         \/ \E s \in Session, p \in Provider : SessionAccount(c, s, p)
         \/ \E s \in Session, p \in Provider, a \in Alias, select \in BOOLEAN :
              PinSession(c, s, p, a, select)
         \/ \E s \in Session, p \in Provider : UnpinSession(c, s, p)
         \/ PruneSessions(c)
         \/ Migrate(c)
    \/ \E s \in Session, p \in Provider : Age(s, p)

Spec == Init /\ [][Next]_vars

-----------------------------------------------------------------------------

\* A provider with stored accounts has a selection, and it is a stored one,
\* whatever interleaving of connect, disconnect, select and migration got it
\* there.  The single exception is the state a migration leaves until the next
\* connect or start: only "default" is stored and nothing is selected.
SelectionCovers ==
    \A p \in Provider :
        \/ selected[p] \in Stored(p)
        \/ selected[p] = NoAlias /\ Stored(p) \subseteq {Default}

\* The accounts a user has, those still in auth.json among them.
Known == IF legacyFile THEN Migrated ELSE accounts

\* The processes that hold what they read of auth.json.
Readers == {c \in Process : phase[c] = "read"}

Book == INSTANCE AccountBook WITH book <- Known, legacy <- legacyFile, readers <- Readers

\* The database keeps the promise of module AccountBook: however many processes
\* migrate auth.json, crash and start over, no account is lost, replaced or
\* deselected by it, and only connects, disconnects and refreshes change one.
KeepsBook == Book!Spec

\* What one step may do to the account a session is bound to: it moves only
\* when its account is disconnected, its own row is rewritten (pinned, which
\* leaves it freshly used) or deleted (unpinned, expired).  In particular a
\* new selection, a connect or a token refresh never moves a session.
SessionSticky ==
    [][\A s \in Session, p \in Provider :
          LET a == Bound(s, p) IN
          a # NoAlias /\ Bound(s, p)' # a =>
             \/ a \notin Stored(p)'
             \/ snapshot'[s][p] = NoAlias
             \/ /\ snapshot'[s][p] # a
                /\ age'[s][p] = Fresh
                /\ \A t \in Session \ {s} : snapshot'[t] = snapshot[t]]_vars

\* A running proxy rebuilds its clients only when the revision moves, so no
\* step may add or remove an account and leave the revision alone; a step that
\* leaves the set of accounts alone moves it only for a migration.
RevisionCountsAccounts ==
    [][/\ (\E p \in Provider : Stored(p)' # Stored(p)) => revision' > revision
       /\ revision' # revision =>
            \/ \E p \in Provider : Stored(p)' # Stored(p)
            \/ \E c \in Process : phase[c] = "read" /\ phase'[c] = "committed"]_vars

\* A snapshot whose account was disconnected is retaken from the current
\* selection (credential_store.rs, session_account): unless its alias happens to
\* be the selection, it is never in force again.
DisconnectedSnapshotRetaken ==
    \A s \in Session, p \in Provider :
        <<s, p>> \in orphaned => Bound(s, p) \in {NoAlias, selected[p]}

\* The plaintext credentials are kept as auth.json or auth.json.migrated once
\* they were there: they are never deleted (credential_store.rs, module doc).
LegacyFileKept == [][legacyFile \/ backup => legacyFile' \/ backup']_vars

=============================================================================
