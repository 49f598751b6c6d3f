-------------------------- MODULE OAuthRefreshProofs --------------------------
(* TLAPS proofs about the clients of one OAuth account, for any number of     *)
(* clients and any bounds, with an endpoint that rotates refresh tokens or    *)
(* one that does not.                                                         *)
EXTENDS OAuthRefresh, TLAPS

-----------------------------------------------------------------------------
(* The inductive invariant.                                                   *)

\* Every refresh token that is stored, held or on its way was issued, and only
\* a client with tokens is inside `oauth_access`.
TokensIssued ==
    /\ IsOAuth(stored) => stored.refresh \in 1..issued
    /\ \A c \in Client : mem[c] # None => mem[c].refresh \in 1..issued
    /\ \A c \in Client : pc[c] = "swap" => fresh[c].refresh \in 1..issued
    /\ \A c \in Client : pc[c] # "idle" => mem[c] # None

\* No other client holds, and nothing stores, the refresh token client c was
\* answered with.
OnlyHeldBy(c) ==
    /\ IsOAuth(stored) => stored.refresh # fresh[c].refresh
    /\ \A d \in Client : mem[d] # None => mem[d].refresh # fresh[c].refresh
    /\ \A d \in Client \ {c} : pc[d] = "swap" => fresh[d].refresh # fresh[c].refresh

\* An answer under way has a good refresh token, no older than the one it was
\* asked with; a rotated one is known to its client alone, so nobody spends it.
AnswerGood ==
    \A c \in Client : pc[c] = "swap" =>
        /\ fresh[c].refresh \in live
        /\ mem[c].refresh <= fresh[c].refresh
        /\ rotates => OnlyHeldBy(c)

OAuthInv == TypeOK /\ TokensIssued /\ AnswerGood /\ ChainKept

-----------------------------------------------------------------------------

\* Tokens are told from the sentinels, and stored OAuth credentials are tokens.
LEMMA TokenFacts ==
    /\ \A t \in Tokens : t # None /\ t # ApiKey /\ IsOAuth(t)
    /\ \A t \in Tokens : t.refresh \in Nat /\ t.access \in Nat
    /\ TypeOK => (IsOAuth(stored) => stored \in Tokens)
    /\ TypeOK => \A c \in Client : mem[c] # None => mem[c] \in Tokens
    /\ TypeOK => \A c \in Client : pc[c] = "swap" => fresh[c] \in Tokens
BY SentinelAssumption DEF Tokens, IsOAuth, TypeOK

\* What the endpoint issues keeps its books in order.
LEMMA IssueTyped ==
    ASSUME TypeOK, NEW used, Issue(used)
    PROVE  /\ issued' \in Nat /\ live' \subseteq 1..issued'
           /\ 0..issued \subseteq 0..issued' /\ 1..issued \subseteq 1..issued'
<1>1. issued \in Nat /\ issued' = issued + 1 /\ live \subseteq 1..issued
  BY DEF TypeOK, Issue
<1>2. 0..issued \subseteq 0..issued' /\ 1..issued \subseteq 1..issued' /\ issued + 1 \in 1..issued'
  BY <1>1
<1>3. live' \subseteq live \cup {issued + 1}
  BY DEF Issue
<1>4. QED
  BY <1>1, <1>2, <1>3

\* Every variable keeps its type, and every token in use was issued.
LEMMA TypesStep ==
    ASSUME TypeOK, TokensIssued, [Next]_vars
    PROVE  TypeOK' /\ TokensIssued'
<1>1. CASE Login
  <2>1. [refresh |-> issued + 1, access |-> issued + 1] \in Tokens
    BY DEF TypeOK, Tokens
  <2>2. QED
    BY <1>1, <2>1, BoundAssumption DEF Login, TypeOK, TokensIssued, IsOAuth, clients
<1>2. CASE ConnectKey
  BY <1>2, BoundAssumption DEF ConnectKey, TypeOK, TokensIssued, IsOAuth, clients, server
<1>3. CASE Disconnect
  BY <1>3 DEF Disconnect, TypeOK, TokensIssued, IsOAuth, clients, server, bounds
<1>4. CASE Expire
  BY <1>4, BoundAssumption DEF Expire, TypeOK, TokensIssued, clients, server
<1>5. ASSUME NEW c \in Client, Build(c)
      PROVE  TypeOK' /\ TokensIssued'
  <2>1. pc[c] = "idle" /\ fresh[c] = None
    BY <1>5 DEF Build, TypeOK, TokensIssued
  <2>2. stored \in Tokens /\ stored # None
    BY <1>5, TokenFacts DEF Build
  <2>3. QED
    BY <1>5, <2>1, <2>2 DEF Build, TypeOK, TokensIssued, server, bounds
<1>6. ASSUME NEW c \in Client, Drop(c)
      PROVE  TypeOK' /\ TokensIssued'
  <2>1. mem[c].refresh \in 1..issued
    BY <1>6 DEF Drop, TokensIssued
  <2>2. failures' \in 0..MaxFailures
    BY <1>6, BoundAssumption DEF Drop, TypeOK
  <2>3. lost' \subseteq 1..issued
    BY <1>6, <2>1 DEF Drop, TypeOK, Spent
  <2>4. TypeOK'
    BY <1>6, <2>2, <2>3 DEF Drop, TypeOK, server
  <2>5. TokensIssued'
    BY <1>6 DEF Drop, TypeOK, TokensIssued, server
  <2>6. QED
    BY <2>4, <2>5
<1>7. ASSUME NEW c \in Client, Adopt(c)
      PROVE  TypeOK' /\ TokensIssued'
  <2>1. IsOAuth(stored) => stored \in Tokens /\ stored # None
    BY TokenFacts
  <2>2. QED
    BY <1>7, <2>1 DEF Adopt, TypeOK, TokensIssued, server, bounds
<1>8. ASSUME NEW c \in Client, RefreshOk(c)
      PROVE  TypeOK' /\ TokensIssued'
  <2>1. mem[c].refresh \in 1..issued
    BY <1>8 DEF RefreshOk, TokensIssued
  <2> DEFINE answer == [refresh |-> IF rotates THEN issued + 1 ELSE mem[c].refresh,
                        access |-> issued + 1]
  <2>2. answer \in Tokens /\ answer # None
    BY <2>1, SentinelAssumption DEF TypeOK, Tokens
  <2>3. fresh' = [fresh EXCEPT ![c] = answer] /\ fresh'[c] = answer
    BY <1>8 DEF RefreshOk, TypeOK
  <2>4. issued' \in Nat /\ live' \subseteq 1..issued' /\ 0..issued \subseteq 0..issued'
        /\ 1..issued \subseteq 1..issued'
    BY <1>8, IssueTyped DEF RefreshOk
  <2>5. TypeOK'
    BY <1>8, <2>2, <2>3, <2>4 DEF RefreshOk, Issue, TypeOK, bounds
  <2>6. TokensIssued'
    BY <1>8, <2>1, <2>3 DEF RefreshOk, Issue, TypeOK, TokensIssued
  <2>7. QED
    BY <2>5, <2>6
<1>9. ASSUME NEW c \in Client, RefreshRefused(c)
      PROVE  TypeOK' /\ TokensIssued'
  BY <1>9 DEF RefreshRefused, TypeOK, TokensIssued, server, bounds
<1>10. ASSUME NEW c \in Client, RefreshLost(c)
       PROVE  TypeOK' /\ TokensIssued'
  <2>1. mem[c].refresh \in 1..issued
    BY <1>10 DEF RefreshLost, TokensIssued
  <2>2. failures' \in 0..MaxFailures
    BY <1>10, BoundAssumption DEF RefreshLost, TypeOK
  <2>3. CASE UNCHANGED <<server, lost>>
    BY <1>10, <2>2, <2>3 DEF RefreshLost, TypeOK, TokensIssued, server
  <2>4. CASE Issue(mem[c].refresh) /\ lost' = IF rotates THEN lost \cup {mem[c].refresh} ELSE lost
    <3>1. /\ issued' \in Nat /\ live' \subseteq 1..issued' /\ lost' \subseteq 1..issued'
          /\ 0..issued \subseteq 0..issued' /\ 1..issued \subseteq 1..issued'
      <4>1. lost' \subseteq lost \cup {mem[c].refresh} /\ lost \subseteq 1..issued
        BY <2>4 DEF TypeOK
      <4>2. QED
        BY <2>1, <2>4, <4>1, IssueTyped
    <3>2. TypeOK'
      BY <1>10, <2>2, <2>4, <3>1 DEF RefreshLost, Issue, TypeOK
    <3>3. TokensIssued'
      BY <1>10, <3>1 DEF RefreshLost, TypeOK, TokensIssued
    <3>4. QED
      BY <3>2, <3>3
  <2>5. QED
    BY <1>10, <2>3, <2>4 DEF RefreshLost
<1>11. ASSUME NEW c \in Client, Swap(c)
       PROVE  TypeOK' /\ TokensIssued'
  <2>1. fresh[c] \in Tokens /\ fresh[c] # None
    BY <1>11, TokenFacts DEF Swap
  <2>2. IsOAuth(stored) => stored \in Tokens /\ stored # None
    BY TokenFacts
  <2>3. QED
    BY <1>11, <2>1, <2>2 DEF Swap, Take, TypeOK, TokensIssued, server, bounds, IsOAuth
<1>12. ASSUME NEW c \in Client, SwapFails(c)
       PROVE  TypeOK' /\ TokensIssued'
  <2>1. fresh[c] \in Tokens /\ fresh[c] # None /\ mem[c].refresh \in 1..issued
    BY <1>12, TokenFacts DEF SwapFails, TokensIssued
  <2>2. failures' \in 0..MaxFailures
    BY <1>12, BoundAssumption DEF SwapFails, TypeOK
  <2>3. lost' \subseteq 1..issued
    BY <1>12, <2>1 DEF SwapFails, TypeOK, Spent
  <2>4. TypeOK'
    BY <1>12, <2>1, <2>2, <2>3 DEF SwapFails, Take, TypeOK, server
  <2>5. TokensIssued'
    BY <1>12, <2>1 DEF SwapFails, Take, TypeOK, TokensIssued, server
  <2>6. QED
    BY <2>4, <2>5
<1>13. CASE UNCHANGED vars
  BY <1>13 DEF vars, server, clients, bounds, TypeOK, TokensIssued, IsOAuth
<1>14. QED
  BY <1>1, <1>2, <1>3, <1>4, <1>5, <1>6, <1>7, <1>8, <1>9, <1>10, <1>11, <1>12, <1>13
  DEF Next, Access

-----------------------------------------------------------------------------

\* No step spoils an answer under way: nobody else holds its refresh token, so
\* nobody spends it or stores it.
LEMMA AnswerGoodStep ==
    ASSUME TypeOK, TokensIssued, AnswerGood, [Next]_vars
    PROVE  AnswerGood'
<1> USE TokenFacts
<1>1. CASE Login
  BY <1>1 DEF Login, TypeOK, TokensIssued, AnswerGood, OnlyHeldBy, IsOAuth, clients
<1>2. CASE ConnectKey \/ Disconnect \/ Expire
  BY <1>2 DEF ConnectKey, Disconnect, Expire, AnswerGood, OnlyHeldBy, IsOAuth, clients, server
<1>3. ASSUME NEW c \in Client, Build(c) \/ Adopt(c)
      PROVE  AnswerGood'
  <2>1. pc'[c] # "swap" /\ pc[c] # "swap"
    BY <1>3 DEF Build, Adopt, TypeOK, TokensIssued
  <2>2. /\ UNCHANGED <<stored, fresh, server>>
        /\ \A d \in Client \ {c} : mem'[d] = mem[d] /\ pc'[d] = pc[d]
        /\ mem'[c] # None => mem'[c] = mem[c] \/ (IsOAuth(stored) /\ mem'[c] = stored)
    BY <1>3 DEF Build, Adopt, TypeOK
  <2>3. QED
    BY <2>1, <2>2 DEF AnswerGood, OnlyHeldBy, server
<1>4. ASSUME NEW c \in Client, Drop(c) \/ RefreshRefused(c)
      PROVE  AnswerGood'
  BY <1>4 DEF Drop, RefreshRefused, TypeOK, AnswerGood, OnlyHeldBy, server
<1>5. ASSUME NEW c \in Client, RefreshOk(c)
      PROVE  AnswerGood'
  <2>1. /\ mem[c].refresh \in 1..issued /\ mem[c].refresh \in live
        /\ UNCHANGED <<stored, mem, rotates>> /\ issued' = issued + 1
        /\ live' = IF rotates THEN (live \ {mem[c].refresh}) \cup {issued + 1} ELSE live
        /\ fresh'[c].refresh = IF rotates THEN issued + 1 ELSE mem[c].refresh
        /\ \A d \in Client \ {c} : fresh'[d] = fresh[d] /\ pc'[d] = pc[d]
        /\ mem[c] # None
    BY <1>5 DEF RefreshOk, Issue, TypeOK, TokensIssued
  <2>2. ASSUME NEW d \in Client \ {c}, pc'[d] = "swap"
        PROVE  /\ fresh'[d].refresh \in live' /\ mem'[d].refresh <= fresh'[d].refresh
               /\ rotates' => OnlyHeldBy(d)'
    BY <2>1, <2>2 DEF AnswerGood, OnlyHeldBy, TokensIssued, TypeOK, IsOAuth
  <2>3. /\ fresh'[c].refresh \in live' /\ mem'[c].refresh <= fresh'[c].refresh
        /\ rotates' => OnlyHeldBy(c)'
    BY <2>1 DEF OnlyHeldBy, TokensIssued, TypeOK, IsOAuth
  <2>4. QED
    BY <2>2, <2>3 DEF AnswerGood
<1>6. ASSUME NEW c \in Client, RefreshLost(c)
      PROVE  AnswerGood'
  <2>1. mem[c] # None /\ UNCHANGED <<stored, mem, fresh, rotates>>
        /\ pc' = [pc EXCEPT ![c] = "idle"]
        /\ (live' = live \/ (rotates /\ live' = (live \ {mem[c].refresh}) \cup {issued + 1}))
    BY <1>6 DEF RefreshLost, Issue, TokensIssued, server
  <2>2. QED
    BY <2>1 DEF AnswerGood, OnlyHeldBy, IsOAuth, TypeOK
<1>7. ASSUME NEW c \in Client, Swap(c) \/ SwapFails(c)
      PROVE  AnswerGood'
  <2>1. /\ pc[c] = "swap" /\ UNCHANGED server
        /\ fresh' = [fresh EXCEPT ![c] = None] /\ pc' = [pc EXCEPT ![c] = "idle"]
        /\ stored' = stored \/ (stored # None /\ stored' = fresh[c])
        /\ \/ mem' = [mem EXCEPT ![c] = fresh[c]]
           \/ IsOAuth(stored) /\ mem' = [mem EXCEPT ![c] = stored]
    BY <1>7 DEF Swap, SwapFails, Take
  <2>2. QED
    BY <2>1 DEF AnswerGood, OnlyHeldBy, IsOAuth, TypeOK, server
<1>8. CASE UNCHANGED vars
  BY <1>8 DEF vars, server, clients, AnswerGood, OnlyHeldBy, IsOAuth
<1>9. QED
  BY <1>1, <1>2, <1>3, <1>4, <1>5, <1>6, <1>7, <1>8 DEF Next, Access

\* The stored refresh token stays good, or its successor is under way, or a
\* named failure lost it.
LEMMA ChainKeptStep ==
    ASSUME TypeOK, TokensIssued, AnswerGood, ChainKept, [Next]_vars
    PROVE  ChainKept'
<1> USE TokenFacts
<1>1. CASE Login
  BY <1>1 DEF Login, ChainKept, IsOAuth
<1>2. CASE ConnectKey \/ Disconnect \/ Expire
  BY <1>2 DEF ConnectKey, Disconnect, Expire, ChainKept, IsOAuth, clients, server
<1>3. ASSUME NEW c \in Client, Build(c) \/ Adopt(c) \/ RefreshRefused(c)
      PROVE  ChainKept'
  <2>1. pc[c] # "swap" /\ UNCHANGED <<stored, server, lost>>
        /\ \A d \in Client \ {c} : mem'[d] = mem[d] /\ pc'[d] = pc[d]
    BY <1>3 DEF Build, Adopt, RefreshRefused, TypeOK, TokensIssued
  <2>2. QED
    BY <2>1 DEF ChainKept, IsOAuth, server
<1>4. ASSUME NEW c \in Client, Drop(c) \/ SwapFails(c)
      PROVE  ChainKept'
  <2>1. /\ UNCHANGED <<stored, server>> /\ lost \subseteq lost'
        /\ pc[c] = "swap" => lost' = lost \cup ({mem[c].refresh} \ live)
        /\ \A d \in Client \ {c} : mem'[d] = mem[d] /\ pc'[d] = pc[d]
    BY <1>4 DEF Drop, SwapFails, Take, Spent, TypeOK
  <2>2. QED
    BY <2>1 DEF ChainKept, IsOAuth, server
<1>5. ASSUME NEW c \in Client, RefreshOk(c)
      PROVE  ChainKept'
  <2>1. /\ UNCHANGED <<stored, mem, lost>> /\ pc'[c] = "swap"
        /\ live \ {mem[c].refresh} \subseteq live'
        /\ \A d \in Client : pc[d] = "swap" => pc'[d] = "swap"
    BY <1>5 DEF RefreshOk, Issue, TypeOK
  <2>2. QED
    BY <2>1 DEF ChainKept, IsOAuth
<1>6. ASSUME NEW c \in Client, RefreshLost(c)
      PROVE  ChainKept'
  <2>1. /\ UNCHANGED <<stored, mem>> /\ lost \subseteq lost'
        /\ \A d \in Client : pc[d] = "swap" => pc'[d] = "swap"
        /\ live \subseteq live' \/ (mem[c].refresh \in lost' /\ live \ {mem[c].refresh} \subseteq live')
    BY <1>6 DEF RefreshLost, Issue, TypeOK, server
  <2>2. QED
    BY <2>1 DEF ChainKept, IsOAuth
<1>7. ASSUME NEW c \in Client, Swap(c)
      PROVE  ChainKept'
  <2>1. /\ pc[c] = "swap" /\ UNCHANGED <<server, lost>>
        /\ \A d \in Client \ {c} : mem'[d] = mem[d] /\ pc'[d] = pc[d]
    BY <1>7 DEF Swap, Take, TypeOK
  <2>2. CASE IsOAuth(stored) /\ stored.refresh # mem[c].refresh
    BY <1>7, <2>1, <2>2 DEF Swap, ChainKept, IsOAuth, server
  <2>3. CASE ~(IsOAuth(stored) /\ stored.refresh # mem[c].refresh)
    <3>1. stored' = IF stored = None THEN None ELSE fresh[c]
      BY <1>7, <2>3 DEF Swap
    <3>2. fresh[c].refresh \in live'
      BY <2>1 DEF AnswerGood, server
    <3>3. QED
      BY <3>1, <3>2 DEF ChainKept, IsOAuth
  <2>4. QED
    BY <2>2, <2>3
<1>8. CASE UNCHANGED vars
  BY <1>8 DEF vars, server, clients, ChainKept, IsOAuth
<1>9. QED
  BY <1>1, <1>2, <1>3, <1>4, <1>5, <1>6, <1>7, <1>8 DEF Next, Access

-----------------------------------------------------------------------------

\* The invariant holds throughout.
LEMMA Invariance == Spec => []OAuthInv
<1>1. Init => OAuthInv
  BY SentinelAssumption, BoundAssumption
  DEF Init, OAuthInv, TypeOK, TokensIssued, AnswerGood, ChainKept, IsOAuth
<1>2. OAuthInv /\ [Next]_vars => OAuthInv'
  BY TypesStep, AnswerGoodStep, ChainKeptStep DEF OAuthInv
<1>3. QED
  BY <1>1, <1>2, PTL DEF Spec

\* Every variable of the account's clients, store and endpoint keeps its type.
THEOREM TypeCorrect == Spec => []TypeOK
BY Invariance, PTL DEF OAuthInv

\* However many clients race to refresh, whatever logins, disconnects and
\* rebuilds fall in between: the stored refresh token is good, or its successor
\* is under way, or a named failure lost it.
THEOREM ChainAlwaysKept == Spec => []ChainKept
BY Invariance, PTL DEF OAuthInv

\* No step replaces a stored refresh token by an older one.
THEOREM StoreOnlyForward == Spec => StoreNeverRollsBack
<1> DEFINE Forward == IsOAuth(stored) /\ IsOAuth(stored') => stored'.refresh >= stored.refresh
<1>1. OAuthInv /\ [Next]_vars => [Forward]_vars
  <2> SUFFICES ASSUME OAuthInv, Next, IsOAuth(stored), IsOAuth(stored')
               PROVE  stored'.refresh >= stored.refresh
    OBVIOUS
  <2>1. stored.refresh \in Nat
    BY TokenFacts DEF OAuthInv
  <2>2. CASE stored' = stored
    BY <2>1, <2>2
  <2>3. ASSUME NEW c \in Client, Swap(c), stored' # stored
        PROVE  stored'.refresh >= stored.refresh
    <3>1. stored' = fresh[c] /\ stored.refresh = mem[c].refresh /\ pc[c] = "swap"
      BY <2>3 DEF Swap
    <3>2. fresh[c].refresh \in Nat /\ mem[c].refresh <= fresh[c].refresh
      BY <3>1, TokenFacts DEF OAuthInv, AnswerGood
    <3>3. QED
      BY <2>1, <3>1, <3>2
  <2>4. stored' = stored \/ \E c \in Client : Swap(c)
    BY DEF Next, Access, Login, ConnectKey, Disconnect, Expire, Build, Drop, Adopt, RefreshOk,
           RefreshRefused, RefreshLost, SwapFails, IsOAuth
  <2>5. QED
    BY <2>2, <2>3, <2>4
<1>2. QED
  BY <1>1, Invariance, PTL DEF Spec, StoreNeverRollsBack
=============================================================================
