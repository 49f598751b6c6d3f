----------------------------- MODULE OAuthRefresh -----------------------------
(***************************************************************************)
(* One OAuth account shared by several upstream clients: `oauth_access` of *)
(* src/adapters/outbound/upstream.rs, `refresh` of outbound/oauth.rs and   *)
(* `swap_oauth_for` of outbound/credential_store.rs.                       *)
(*                                                                         *)
(* Every proxy, and every rebuild of a proxy's accounts, makes a client of *)
(* its own with a copy of the tokens.  Requests of one client take its     *)
(* mutex for the whole of `oauth_access`, so a client has one program      *)
(* counter; clients meet only in the store and at the token endpoint.  An  *)
(* endpoint rotates the refresh token on every refresh or never.  If it    *)
(* does, the one it was asked with is spent, and its successor exists only *)
(* in the response until the client stores it.                             *)
(*                                                                         *)
(* Access tokens are numbered in the order they are issued, a refresh      *)
(* token by the access token it first came with.                           *)
(***************************************************************************)
EXTENDS Naturals

CONSTANTS
    Client,        \* upstream clients of the account, in any process
    None,          \* no tokens: no stored account, or a client not built
    ApiKey,        \* a stored API key
    MaxExpiry,     \* how often access tokens run out
    MaxLogins,     \* how often the account is connected
    MaxFailures    \* transport, storage and process failures

Tokens == [refresh : Nat, access : Nat]

ASSUME SentinelAssumption == None \notin Tokens /\ ApiKey \notin Tokens /\ None # ApiKey

ASSUME BoundAssumption == MaxExpiry \in Nat /\ MaxLogins \in Nat /\ MaxFailures \in Nat

VARIABLES
    stored,     \* the account's credential in accounts.db
    issued,     \* access tokens issued so far
    expired,    \* access tokens up to this one are at or inside the leeway
    live,       \* refresh tokens the endpoint accepts
    rotates,    \* whether it replaces a refresh token it was asked with
    mem,        \* each client's copy of the tokens
    fresh,      \* what the endpoint answered, until it is swapped in
    pc,         \* where in `oauth_access` each client is
    lost,       \* history: refresh tokens spent for an answer nobody stored
    expiries, logins, failures    \* counters of the bounds

server == <<issued, live, rotates>>
clients == <<mem, fresh, pc>>
bounds == <<expiries, logins, failures>>
vars == <<stored, expired, server, clients, lost, bounds>>

TypeOK ==
    /\ stored \in Tokens \cup {None, ApiKey}
    /\ issued \in Nat /\ expired \in 0..issued
    /\ live \subseteq 1..issued
    /\ rotates \in BOOLEAN
    /\ mem \in [Client -> Tokens \cup {None}]
    /\ fresh \in [Client -> Tokens \cup {None}]
    /\ pc \in [Client -> {"idle", "refresh", "swap"}]
    /\ \A c \in Client : fresh[c] # None <=> pc[c] = "swap"
    /\ lost \subseteq 1..issued
    /\ expiries \in 0..MaxExpiry /\ logins \in 0..MaxLogins /\ failures \in 0..MaxFailures

IsOAuth(credential) == credential \notin {None, ApiKey}

Expiring(tokens) == tokens.access <= expired

\* Refresh tokens spent once client c's answer is gone.
Spent(c) == {mem[c].refresh} \ live

Init ==
    /\ stored = None
    /\ issued = 0 /\ expired = 0
    /\ live = {}
    /\ rotates \in BOOLEAN
    /\ mem = [c \in Client |-> None]
    /\ fresh = [c \in Client |-> None]
    /\ pc = [c \in Client |-> "idle"]
    /\ lost = {}
    /\ expiries = 0 /\ logins = 0 /\ failures = 0

-----------------------------------------------------------------------------
(* The rest of the system.                                                 *)

\* `connect --oauth`, which inserts and never overwrites.
Login ==
    /\ stored = None
    /\ logins < MaxLogins
    /\ logins' = logins + 1
    /\ issued' = issued + 1
    /\ stored' = [refresh |-> issued + 1, access |-> issued + 1]
    /\ live' = live \cup {issued + 1}
    /\ UNCHANGED <<rotates, expired, clients, lost, expiries, failures>>

\* `connect` with an API key.
ConnectKey ==
    /\ stored = None
    /\ logins < MaxLogins
    /\ logins' = logins + 1
    /\ stored' = ApiKey
    /\ UNCHANGED <<expired, server, clients, lost, expiries, failures>>

Disconnect ==
    /\ stored # None
    /\ stored' = None
    /\ UNCHANGED <<expired, server, clients, lost, bounds>>

\* Time passes: some of the access tokens issued so far run out.
Expire ==
    /\ expiries < MaxExpiry
    /\ expiries' = expiries + 1
    /\ \E a \in expired + 1..issued : expired' = a
    /\ UNCHANGED <<stored, server, clients, lost, logins, failures>>

\* `HttpUpstreamConnector::client`, for a process that starts or rebuilds.
Build(c) ==
    /\ mem[c] = None
    /\ IsOAuth(stored)
    /\ mem' = [mem EXCEPT ![c] = stored]
    /\ UNCHANGED <<stored, expired, server, fresh, pc, lost, bounds>>

\* The client is dropped: replaced by a rebuild while no request holds its
\* mutex, or gone with its process.
Drop(c) ==
    /\ mem[c] # None
    /\ failures' = IF pc[c] = "idle" THEN failures ELSE failures + 1
    /\ failures' <= MaxFailures
    /\ mem' = [mem EXCEPT ![c] = None]
    /\ fresh' = [fresh EXCEPT ![c] = None]
    /\ pc' = [pc EXCEPT ![c] = "idle"]
    /\ lost' = IF pc[c] = "swap" THEN lost \cup Spent(c) ELSE lost
    /\ UNCHANGED <<stored, expired, server, expiries, logins>>

-----------------------------------------------------------------------------
(* `oauth_access`.                                                         *)

\* Mutant: whatever is stored is adopted, an API key too.
AdoptAny(c) ==
    /\ pc[c] = "idle"
    /\ mem[c] # None
    /\ Expiring(mem[c])
    /\ mem' = [mem EXCEPT ![c] = IF stored # None THEN stored ELSE @]
    /\ pc' = [pc EXCEPT ![c] = "refresh"]
    /\ UNCHANGED <<stored, expired, server, fresh, lost, bounds>>

\* Mutant: a client never looks for tokens that were stored meanwhile.
AdoptNever(c) ==
    /\ pc[c] = "idle"
    /\ mem[c] # None
    /\ Expiring(mem[c])
    /\ pc' = [pc EXCEPT ![c] = "refresh"]
    /\ UNCHANGED <<stored, expired, server, mem, fresh, lost, bounds>>

\* An expiring copy is first replaced by tokens stored under another refresh
\* token; what is still expiring is refreshed.
Adopt(c) ==
    /\ pc[c] = "idle"
    /\ mem[c] # None
    /\ Expiring(mem[c])
    /\ mem' = [mem EXCEPT ![c] =
                 IF IsOAuth(stored) /\ stored.refresh # @.refresh THEN stored ELSE @]
    /\ pc' = [pc EXCEPT ![c] = IF Expiring(mem'[c]) THEN "refresh" ELSE "idle"]
    /\ UNCHANGED <<stored, expired, server, fresh, lost, bounds>>

\* The endpoint's side of a refresh: a spent token is refused; otherwise there
\* is a new access token and, when it rotates, a new refresh token.
Issue(used) ==
    /\ used \in live
    /\ issued' = issued + 1
    /\ live' = IF rotates THEN (live \ {used}) \cup {issued + 1} ELSE live
    /\ UNCHANGED rotates

\* Mutant: the current refresh token is kept though the answer has one.
RefreshOkKeepsToken(c) ==
    /\ pc[c] = "refresh"
    /\ Issue(mem[c].refresh)
    /\ fresh' = [fresh EXCEPT ![c] = [refresh |-> mem[c].refresh, access |-> issued + 1]]
    /\ pc' = [pc EXCEPT ![c] = "swap"]
    /\ UNCHANGED <<stored, expired, mem, lost, bounds>>

\* `refresh` keeps the current refresh token when the answer has none.
RefreshOk(c) ==
    /\ pc[c] = "refresh"
    /\ Issue(mem[c].refresh)
    /\ fresh' = [fresh EXCEPT ![c] =
         [refresh |-> IF rotates THEN issued + 1 ELSE mem[c].refresh,
          access |-> issued + 1]]
    /\ pc' = [pc EXCEPT ![c] = "swap"]
    /\ UNCHANGED <<stored, expired, mem, lost, bounds>>

\* The endpoint refuses, and the current tokens stay.
RefreshRefused(c) ==
    /\ pc[c] = "refresh"
    /\ mem[c].refresh \notin live
    /\ pc' = [pc EXCEPT ![c] = "idle"]
    /\ UNCHANGED <<stored, expired, server, mem, fresh, lost, bounds>>

\* The transport fails, or the client of the proxy hangs up and the request's
\* future is dropped at the await: before the endpoint acts, or after.
RefreshLost(c) ==
    /\ pc[c] = "refresh"
    /\ failures < MaxFailures
    /\ failures' = failures + 1
    /\ \/ UNCHANGED <<server, lost>>
       \/ /\ Issue(mem[c].refresh)
          /\ lost' = IF rotates THEN lost \cup {mem[c].refresh} ELSE lost
    /\ pc' = [pc EXCEPT ![c] = "idle"]
    /\ UNCHANGED <<stored, expired, mem, fresh, expiries, logins>>

Take(c, tokens) ==
    /\ mem' = [mem EXCEPT ![c] = tokens]
    /\ fresh' = [fresh EXCEPT ![c] = None]
    /\ pc' = [pc EXCEPT ![c] = "idle"]

\* Mutant: the answer is stored without comparing.
SwapBlindly(c) ==
    /\ pc[c] = "swap"
    /\ Take(c, fresh[c])
    /\ stored' = IF stored = None THEN None ELSE fresh[c]
    /\ UNCHANGED <<expired, server, lost, bounds>>

\* `swap_oauth_for`: stored OAuth tokens that moved on meanwhile win.  Without
\* a stored account it is an error, which keeps the answer in memory.
Swap(c) ==
    /\ pc[c] = "swap"
    /\ IF IsOAuth(stored) /\ stored.refresh # mem[c].refresh
         THEN Take(c, stored) /\ UNCHANGED stored
         ELSE /\ Take(c, fresh[c])
              /\ stored' = IF stored = None THEN None ELSE fresh[c]
    /\ UNCHANGED <<expired, server, lost, bounds>>

\* The answer cannot be stored and is only kept in memory.
SwapFails(c) ==
    /\ pc[c] = "swap"
    /\ failures < MaxFailures
    /\ failures' = failures + 1
    /\ lost' = lost \cup Spent(c)
    /\ Take(c, fresh[c])
    /\ UNCHANGED <<stored, expired, server, expiries, logins>>

-----------------------------------------------------------------------------

Access(c) ==
    \/ Adopt(c)
    \/ RefreshOk(c)
    \/ RefreshRefused(c)
    \/ Swap(c)

Next ==
    \/ Login
    \/ ConnectKey
    \/ Disconnect
    \/ Expire
    \/ \E c \in Client : Build(c) \/ Drop(c) \/ Access(c) \/ RefreshLost(c) \/ SwapFails(c)

Spec == Init /\ [][Next]_vars

\* Requests keep coming, and a token endpoint that can be reached answers.
FairSpec == Spec /\ \A c \in Client : WF_vars(Access(c))

-----------------------------------------------------------------------------

\* The stored refresh token is good for another refresh, or its successor is on
\* its way into the store.  It is lost only by a named failure between the
\* endpoint and the store, never by clients racing to refresh, nor by a
\* disconnect, a new login or a rebuild in the middle of it.
ChainKept ==
    IsOAuth(stored) =>
        \/ stored.refresh \in live
        \/ \E c \in Client : pc[c] = "swap" /\ mem[c].refresh = stored.refresh
        \/ stored.refresh \in lost

\* A refresh that took long never puts an older refresh token back, be it one
\* that was rotated or one of an earlier login.
StoreNeverRollsBack ==
    [][IsOAuth(stored) /\ IsOAuth(stored') => stored'.refresh >= stored.refresh]_vars

\* A client whose token runs out gets a good one: it refreshes, or it adopts what
\* another client stored when it lost the race.  The exceptions: the account is
\* no OAuth account any more, its chain was lost, or the client is gone.
Recovers ==
    \A c \in Client :
        mem[c] # None ~>
            \/ mem[c] = None
            \/ ~Expiring(mem[c])
            \/ ~IsOAuth(stored)
            \/ stored.refresh \in lost

\* upstream.rs, oauth_access: "If one already rotated the refresh token, adopt
\* its tokens": a client gives up its own tokens only for later ones.
AdoptsOnlyRotated ==
    [][\A c \in Client :
          mem[c] # None /\ mem'[c] # None => mem'[c].refresh >= mem[c].refresh]_vars

=============================================================================
