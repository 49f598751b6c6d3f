------------------------------- MODULE Usage -------------------------------
(***************************************************************************)
(* What the proxy remembers of its requests: the cache observations of the *)
(* sessions (application/usage.rs, domain/cache.rs), the rows and quotas   *)
(* in stats.db, which every process shares (outbound/usage_store.rs), the  *)
(* live events (outbound/events.rs), the report a panel loads              *)
(* (application/stats_report.rs) and the quota it polls                    *)
(* (application/account_usage.rs).  One proxy in detail; other processes   *)
(* write to the same database.                                             *)
(***************************************************************************)
EXTENDS Integers, Sequences, FiniteSets, FiniteSetsExt, SequencesExt

CONSTANTS
    Requests,      \* [session, provider, alias, format, marked, prefix, key, effort]
    Outcomes,      \* [status, input, read, write, limits]
    Answers,       \* usage endpoint: [five, week, month]
    Handler, Poller,
    Scopes,        \* report scopes: sessions or AllSessions
    NoSession, AllSessions, None,
    MaxObserved,   \* sessions observed at once (1024 in the code)
    Capacity,      \* of the event channel (256 in the code)
    CacheSecs,     \* how long a quota is fresh (60 in the code)
    Window,        \* length of a bounded report window
    RecentLimit,   \* rows in a report (10 in the code)
    Budgets,       \* bounds: [requests, polls, reports, time, outside : how many; asks, outcomes : which]
    MissingRow     \* a row other processes write

ASSUME UsageAssumption ==
    /\ MaxObserved \in Nat \ {0} /\ Capacity \in Nat \ {0}
    /\ CacheSecs \in Nat \ {0} /\ Window \in Nat /\ RecentLimit \in Nat \ {0}
    /\ \A q \in Requests : q.session # AllSessions
    /\ Budgets \subseteq [requests : Nat, polls : Nat, reports : Nat, time : Nat, outside : Nat,
                          asks : SUBSET Requests, outcomes : SUBSET Outcomes]
    /\ {"request", "ts"} \subseteq DOMAIN MissingRow /\ MissingRow.request = None

(* parse_usage: input is meant to be the whole prompt, cached tokens        *)
(* included, but nothing keeps the counts of an upstream that says otherwise *)
(* from being stored.                                                       *)
ASSUME TokensAssumption ==
    \A o \in Outcomes \cup {MissingRow} :
        o.input \in Nat /\ o.write \in Nat /\ (o.read # None => o.read \in Nat)

VARIABLES
    clock,
    observed,      \* the recorder's map: session -> observation
    effort,        \* table session_effort
    rows,          \* table requests, in the order of their ids
    limits,        \* table rate_limits, its one row
    quota,         \* table account_usage, the row of one account
    pc, job,       \* request handlers
    events, cursor, heard,  \* the channel, a subscriber's place in it, what it got
    report,        \* a report being loaded
    refresher,     \* who holds the refresh lock
    poll,          \* pollers of the account's quota
    left,          \* what is left of the bounds
    last, forgot,  \* history: each session's last observation; sessions whose entry was cleared
    asked,         \* history: our last fetch, when, and whether the cache holds its answer
    monthly        \* history: the month last stored

memory == << observed, events, cursor, heard >>
tables == << effort, rows, limits, quota >>
handlers == << pc, job >>
history == << last, forgot, asked, monthly >>
vars == << clock, memory, tables, handlers, report, refresher, poll, left, history >>

Sessions == { q.session : q \in Requests } \ {NoSession}
Failed == 400
LimitsEvent == 0      \* the other events are ids of rows

-----------------------------------------------------------------------------
(* Cache diagnostics.                                                       *)

Observation(q) ==
    [model |-> << q.provider, q.model >>, account |-> q.alias, prefix |-> q.prefix, key |-> q.key]

ChangesFrom(new, old) ==
    { d \in {"model", "account", "prefix", "key"} : new[d] # old[d] }

RequestDiagnostics(q) ==
    CASE q.format = "anthropic" /\ ~q.marked -> {"missing_cache_control"}
      [] q.format = "responses" /\ q.key = None -> {"missing_session_key"}
      [] OTHER -> {}

OutcomeDiagnostics(o) ==
    IF o.status \notin 200 .. 299 THEN {"upstream_error"}
    ELSE { d \in {"telemetry_unavailable", "cache_miss_unknown", "cache_warming"} :
             CASE d = "telemetry_unavailable" -> o.read = None
               [] d = "cache_miss_unknown" -> o.read = 0 /\ o.write = 0
               [] d = "cache_warming" -> o.write > 0 }

\* The quotas there can be, from headers and from the usage endpoint.
Limits == { o.limits : o \in Outcomes } \ {None}
Percents == { l.five : l \in Answers \cup Limits } \cup { l.week : l \in Answers \cup Limits }
            \cup { a.month : a \in Answers } \cup {None}
Quota == [five : Percents, week : Percents, month : Percents, resets : {None, "known"},
          fetched : Nat]

\* None is no observation, no quota and no poller.
ASSUME NoneAssumption ==
    /\ \A q \in Requests : Observation(q) # None
    /\ None \notin Quota /\ None \notin Poller

-----------------------------------------------------------------------------

NoJob == [request |-> None]
NoReport == [stage |-> "none"]
NoPoll == [stage |-> "idle"]

Init ==
    /\ clock = 0
    /\ observed = <<>> /\ effort = [s \in Sessions |-> None]
    /\ rows = <<>> /\ limits = None /\ quota = None
    /\ pc = [h \in Handler |-> "idle"] /\ job = [h \in Handler |-> NoJob]
    /\ events = <<>> /\ cursor = 0 /\ heard = {}
    /\ report = NoReport
    /\ refresher = None /\ poll = [p \in Poller |-> NoPoll]
    /\ left \in Budgets
    /\ last = [s \in Sessions |-> None] /\ forgot = {}
    /\ asked = [at |-> -CacheSecs, kept |-> FALSE] /\ monthly = None

Spend(field) == left[field] > 0 /\ left' = [left EXCEPT ![field] = @ - 1]

Tick ==
    /\ Spend("time")
    /\ clock' = clock + 1
    /\ UNCHANGED << memory, tables, handlers, report, refresher, poll, history >>

-----------------------------------------------------------------------------
(* A request: observed before it is sent, recorded after its answer.        *)

\* Mutant: clients without a session are observed like one session.
RememberAnyone(q) ==
    observed' = (q.session :> Observation(q)) @@ observed

(* At the bound, a session that is not in the map empties it.               *)
Remember(q) ==
    LET s == q.session
        full == Cardinality(DOMAIN observed) >= MaxObserved /\ s \notin DOMAIN observed
        kept == IF full THEN {} ELSE DOMAIN observed
    IN  observed' = IF s = NoSession THEN observed
                    ELSE [t \in kept \cup {s} |-> IF t = s THEN Observation(q) ELSE observed[t]]

Seen(q) ==
    RequestDiagnostics(q) \cup
        (IF q.session \in DOMAIN observed
         THEN ChangesFrom(Observation(q), observed[q.session]) ELSE {})

Observe(h, q) ==
    /\ Spend("requests")
    /\ pc[h] = "idle"
    /\ pc' = [pc EXCEPT ![h] = "sent"]
    /\ Remember(q)
    /\ effort' = IF q.session = NoSession \/ q.effort = None THEN effort
                 ELSE [effort EXCEPT ![q.session] = q.effort]
    /\ job' = [job EXCEPT ![h] =
                 [request |-> q, diagnostics |-> Seen(q),
                  before |-> IF q.session = NoSession THEN None ELSE last[q.session],
                  lost |-> q.session \in forgot, outcome |-> None, id |-> None]]
    /\ last' = IF q.session = NoSession THEN last ELSE [last EXCEPT ![q.session] = Observation(q)]
    /\ forgot' = (forgot \cup (DOMAIN observed \ DOMAIN observed')) \ {q.session}
    /\ UNCHANGED << clock, rows, limits, quota, events, cursor, heard, report, refresher, poll,
                    asked, monthly >>

(* A request that cannot be sent is not recorded.                           *)
SendFails(h) ==
    /\ pc[h] = "sent"
    /\ pc' = [pc EXCEPT ![h] = "idle"] /\ job' = [job EXCEPT ![h] = NoJob]
    /\ UNCHANGED << clock, memory, tables, report, refresher, poll, left, history >>

(* An answer with quota headers: record_rate_limits writes two rows, with   *)
(* an event in between; each write may fail.                                *)
Answered(h, o) ==
    /\ pc[h] = "sent"
    /\ job' = [job EXCEPT ![h].outcome = o]
    /\ IF o.limits = None
       THEN /\ pc' = [pc EXCEPT ![h] = "record"]
            /\ UNCHANGED << limits, events >>
       ELSE /\ pc' = [pc EXCEPT ![h] = "quota"]
            /\ limits' \in { limits, o.limits }
            /\ events' = Append(events, LimitsEvent)
    /\ UNCHANGED << clock, observed, cursor, heard, effort, rows, quota, report, refresher, poll,
                    left, history >>

\* Mutant: the row is replaced, as that of rate_limits is.
WithHeadersReplacing(l) ==
    [five |-> l.five, week |-> l.week, month |-> None, resets |-> None, fetched |-> clock]

(* record_account_rate_limits keeps the columns the headers do not have.    *)
WithHeaders(l) ==
    IF quota = None
    THEN [five |-> l.five, week |-> l.week, month |-> None, resets |-> None, fetched |-> clock]
    ELSE [quota EXCEPT !.five = l.five, !.week = l.week, !.fetched = clock]

RecordQuota(h) ==
    /\ pc[h] = "quota"
    /\ quota' \in { quota, WithHeaders(job[h].outcome.limits) }
    /\ pc' = [pc EXCEPT ![h] = "record"]
    /\ UNCHANGED << clock, memory, effort, rows, limits, job, report, refresher, poll, left,
                    history >>

Row(j) ==
    LET q == j.request
        o == j.outcome
    IN  [ts |-> clock, session |-> q.session, provider |-> q.provider, alias |-> q.alias,
         input |-> o.input, read |-> o.read, write |-> o.write, status |-> o.status,
         diagnostics |-> j.diagnostics \cup OutcomeDiagnostics(o),
         request |-> q, before |-> j.before, lost |-> j.lost]

(* record: insert, and announce only what was inserted.                     *)
Insert(h) ==
    /\ pc[h] = "record"
    /\ rows' = Append(rows, Row(job[h]))
    /\ pc' = [pc EXCEPT ![h] = "publish"]
    /\ job' = [job EXCEPT ![h].id = Len(rows) + 1]
    /\ UNCHANGED << clock, memory, effort, limits, quota, report, refresher, poll, left, history >>

\* Mutant: the request is announced whether its row was stored or not.
InsertFailsAnnounced(h) ==
    /\ pc[h] = "record"
    /\ pc' = [pc EXCEPT ![h] = "publish"]
    /\ job' = [job EXCEPT ![h].id = Len(rows) + 1]
    /\ UNCHANGED << clock, memory, tables, report, refresher, poll, left, history >>

InsertFails(h) ==
    /\ pc[h] = "record"
    /\ pc' = [pc EXCEPT ![h] = "idle"] /\ job' = [job EXCEPT ![h] = NoJob]
    /\ UNCHANGED << clock, memory, tables, report, refresher, poll, left, history >>

Publish(h) ==
    /\ pc[h] = "publish"
    /\ events' = Append(events, job[h].id)
    /\ pc' = [pc EXCEPT ![h] = "idle"] /\ job' = [job EXCEPT ![h] = NoJob]
    /\ UNCHANGED << clock, observed, cursor, heard, tables, report, refresher, poll, left, history >>

-----------------------------------------------------------------------------
(* The channel keeps the newest events; a subscriber that fell behind goes  *)
(* on at the oldest one still there.                                        *)

\* Mutant: falling behind ends the subscription.
ReceiveUntilLagged ==
    /\ cursor < Len(events) /\ Len(events) - cursor <= Capacity
    /\ cursor' = cursor + 1
    /\ heard' = heard \cup {events[cursor + 1]}
    /\ UNCHANGED << clock, observed, events, tables, handlers, report, refresher, poll, left, history >>

Receive ==
    /\ cursor < Len(events)
    /\ IF Len(events) - cursor > Capacity
       THEN cursor' = Len(events) - Capacity /\ UNCHANGED heard
       ELSE cursor' = cursor + 1 /\ heard' = heard \cup {events[cursor + 1]}
    /\ UNCHANGED << clock, observed, events, tables, handlers, report, refresher, poll, left, history >>

-----------------------------------------------------------------------------
(* A report: four queries one after the other, with one filter.             *)

(* where_clause.                                                            *)
Matching(since, scope) ==
    { n \in DOMAIN rows : (since = None \/ rows[n].ts >= since) /\ scope \in {AllSessions, rows[n].session} }

SumOf(ids, Value(_)) == SumFunctionOnSet([n \in ids |-> Value(n)], ids)

(* The aggregates of a query.                                               *)
Totals(ids) ==
    LET told == { n \in ids : rows[n].read # None }
    IN  [requests |-> Cardinality(ids),
         errors |-> Cardinality({ n \in ids : rows[n].status >= Failed }),
         input |-> SumOf(ids, LAMBDA n : rows[n].input),
         reported |-> Cardinality(told),
         hits |-> Cardinality({ n \in told : rows[n].read > 0 }),
         read |-> SumOf(told, LAMBDA n : rows[n].read),
         write |-> SumOf(told, LAMBDA n : rows[n].write),
         reportedInput |-> SumOf(told, LAMBDA n : rows[n].input)]

Matched == Matching(report.since, report.scope)

ByProvider ==
    [p \in { rows[n].provider : n \in Matched } |->
        Totals({ n \in Matched : rows[n].provider = p })]

\* Mutant: the window is computed anew for this query.
ByAccountLate ==
    LET late == IF report.since = None THEN Matched ELSE Matching(clock - Window, report.scope)
    IN  [a \in { << rows[n].provider, rows[n].alias >> : n \in late } |->
            Totals({ n \in late : << rows[n].provider, rows[n].alias >> = a })]

ByAccount ==
    [a \in { << rows[n].provider, rows[n].alias >> : n \in Matched } |->
        Totals({ n \in Matched : << rows[n].provider, rows[n].alias >> = a })]

(* ORDER BY ts DESC, id DESC LIMIT.                                         *)
Newer(m, n) == rows[m].ts > rows[n].ts \/ (rows[m].ts = rows[n].ts /\ m > n)

Recent ==
    LET Place(n) == Cardinality({ m \in Matched : Newer(m, n) }) + 1
    IN  [i \in 1 .. Min({Cardinality(Matched), RecentLimit}) |->
            CHOOSE n \in Matched : Place(n) = i]

LoadSummary(scope, bounded) ==
    /\ Spend("reports") /\ report.stage \in {"none", "done"}
    /\ LET since == IF bounded THEN clock - Window ELSE None
       IN  report' = [stage |-> "summary", since |-> since, scope |-> scope, known |-> heard,
                      summary |-> Totals(Matching(since, scope)),
                      providers |-> <<>>, accounts |-> <<>>, recent |-> <<>>]
    /\ UNCHANGED << clock, memory, tables, handlers, refresher, poll, history >>

LoadNext(stage, loaded) ==
    /\ report.stage = stage
    /\ report' = loaded
    /\ UNCHANGED << clock, memory, tables, handlers, refresher, poll, left, history >>

LoadRest ==
    \/ LoadNext("summary", [report EXCEPT !.stage = "providers", !.providers = ByProvider])
    \/ LoadNext("providers", [report EXCEPT !.stage = "accounts", !.accounts = ByAccount])
    \/ LoadNext("accounts", [report EXCEPT !.stage = "done", !.recent = Recent])

(* cache_stats_json: subtraction saturates.                                 *)
Uncached(t) ==
    LET rest == t.reportedInput - t.read - t.write IN IF rest < 0 THEN 0 ELSE rest

-----------------------------------------------------------------------------
(* The quota of one account.                                                *)

Poll(p) ==
    /\ Spend("polls")
    /\ poll[p].stage = "idle"
    /\ poll' = [poll EXCEPT ![p] = [stage |-> "wait"]]
    /\ UNCHANGED << clock, memory, tables, handlers, report, refresher, history >>

\* Mutant: refreshes are not serialized.
EnterRefreshUnlocked(p) ==
    /\ poll[p].stage = "wait"
    /\ refresher' = p
    /\ poll' = [poll EXCEPT ![p] = [stage |-> "load", now |-> clock]]
    /\ UNCHANGED << clock, memory, tables, handlers, report, left, history >>

EnterRefresh(p) ==
    /\ poll[p].stage = "wait" /\ refresher = None
    /\ refresher' = p
    /\ poll' = [poll EXCEPT ![p] = [stage |-> "load", now |-> clock]]
    /\ UNCHANGED << clock, memory, tables, handlers, report, left, history >>

Show(p, usage, stale) ==
    /\ poll' = [poll EXCEPT ![p] = [stage |-> "idle", usage |-> usage, stale |-> stale]]
    /\ refresher' = None

(* The cache as it is, or nothing when it cannot be read.                   *)
LoadCache(p) ==
    /\ poll[p].stage = "load"
    /\ \E previous \in {quota, None} :
          IF previous # None /\ poll[p].now - previous.fetched < CacheSecs
          THEN Show(p, previous, FALSE) /\ UNCHANGED asked
          ELSE /\ poll' = [poll EXCEPT ![p] = [stage |-> "fetch", now |-> @.now,
                                               previous |-> previous, unread |-> previous # quota,
                                               earlier |-> asked]]
               /\ asked' = [at |-> clock, kept |-> FALSE]
               /\ UNCHANGED refresher
    /\ UNCHANGED << clock, memory, tables, handlers, report, left, last, forgot, monthly >>

Fetched(a) ==
    [five |-> a.five, week |-> a.week, month |-> a.month, resets |-> "known", fetched |-> clock]

FetchOk(p, a) ==
    /\ poll[p].stage = "fetch"
    /\ poll' = [poll EXCEPT ![p] = [stage |-> "save", usage |-> Fetched(a)]]
    /\ UNCHANGED << clock, memory, tables, handlers, report, refresher, left, history >>

(* Nothing is stored, not even that it was tried.                           *)
FetchFails(p) ==
    /\ poll[p].stage = "fetch"
    /\ Show(p, poll[p].previous, TRUE)
    /\ UNCHANGED << clock, memory, tables, handlers, report, left, history >>

(* persist: the answer is shown whether it could be stored or not.          *)
Save(p) ==
    /\ poll[p].stage = "save"
    /\ \/ /\ quota' = poll[p].usage
          /\ asked' = [asked EXCEPT !.kept = TRUE] /\ monthly' = quota'.month
       \/ UNCHANGED << quota, asked, monthly >>
    /\ Show(p, poll[p].usage, FALSE)
    /\ UNCHANGED << clock, memory, effort, rows, limits, handlers, report, left, last, forgot >>

(* The client of the route hangs up: load is dropped, and its lock with it; *)
(* a write that was handed to the blocking pool goes on by itself.          *)
GoAway(p) ==
    /\ poll[p].stage \in {"wait", "load", "fetch", "save"}
    /\ poll' = [poll EXCEPT ![p] = IF poll[p].stage = "save"
                                   THEN [stage |-> "left", usage |-> poll[p].usage] ELSE NoPoll]
    /\ refresher' = IF refresher = p THEN None ELSE refresher
    /\ UNCHANGED << clock, memory, tables, handlers, report, left, history >>

SaveLeft(p) ==
    /\ poll[p].stage = "left"
    /\ poll' = [poll EXCEPT ![p] = NoPoll]
    /\ \/ /\ quota' = poll[p].usage
          /\ asked' = [asked EXCEPT !.kept = FALSE] /\ monthly' = quota'.month
       \/ UNCHANGED << quota, asked, monthly >>
    /\ UNCHANGED << clock, memory, effort, rows, limits, handlers, report, refresher, left,
                    last, forgot >>

-----------------------------------------------------------------------------
(* Other processes.                                                         *)

OtherRecords ==
    /\ Spend("outside")
    /\ rows' = Append(rows, [MissingRow EXCEPT !.ts = clock])
    /\ UNCHANGED << clock, memory, effort, limits, quota, handlers, report, refresher, poll, history >>

OtherQuota(l) ==
    /\ Spend("outside")
    /\ quota' = WithHeaders(l) /\ limits' = l
    /\ UNCHANGED << clock, memory, effort, rows, handlers, report, refresher, poll, history >>

OtherSaves(a) ==
    /\ Spend("outside")
    /\ quota' = Fetched(a) /\ monthly' = a.month
    /\ UNCHANGED << clock, memory, effort, rows, limits, handlers, report, refresher, poll,
                    last, forgot, asked >>

-----------------------------------------------------------------------------

Handle(h) ==
    \/ \E q \in left.asks : Observe(h, q)
    \/ \E o \in left.outcomes : Answered(h, o)
    \/ SendFails(h) \/ RecordQuota(h)
    \/ Insert(h) \/ InsertFails(h) \/ Publish(h)

Load == LoadRest \/ \E s \in Scopes, b \in BOOLEAN : LoadSummary(s, b)

Refresh(p) ==
    \/ Poll(p) \/ EnterRefresh(p) \/ LoadCache(p) \/ FetchFails(p) \/ Save(p)
    \/ GoAway(p) \/ SaveLeft(p)
    \/ \E a \in Answers : FetchOk(p, a)

Others ==
    \/ OtherRecords
    \/ \E o \in left.outcomes : o.limits # None /\ OtherQuota(o.limits)
    \/ \E a \in Answers : OtherSaves(a)

Next ==
    Tick \/ Receive \/ Load \/ Others
    \/ (\E h \in Handler : Handle(h)) \/ (\E p \in Poller : Refresh(p))

Spec == Init /\ [][Next]_vars

(* The subscriber is a response body that the server keeps polling.         *)
FairSpec == Spec /\ WF_vars(Receive)

-----------------------------------------------------------------------------
(* Properties.                                                              *)

(* Every state is well typed, the map of observations is bounded, and only  *)
(* one poller at a time is inside a refresh.                                *)
TypeOK ==
    /\ Cardinality(DOMAIN observed) <= MaxObserved /\ DOMAIN observed \subseteq Sessions
    /\ pc \in [Handler -> {"idle", "sent", "quota", "record", "publish"}]
    /\ cursor \in 0 .. Len(events)
    /\ \A n \in DOMAIN events : events[n] \in DOMAIN rows \cup {LimitsEvent}
    /\ \A p, r \in Poller : {poll[p].stage, poll[r].stage} \subseteq {"load", "fetch", "save"} => p = r
    /\ refresher \in Poller \cup {None}

(* A row says that its session's model, account, prefix or key changed only *)
(* if it did since the session's last request, whichever requests of other  *)
(* sessions, or of none, came in between; it is silent about a change only  *)
(* if the session's entry had been cleared at the bound.                    *)
DiagnosticsTrue ==
    \A n \in DOMAIN rows :
        LET r == rows[n]
            told == r.diagnostics \cap {"model", "account", "prefix", "key"}
            changed == IF r.before = None THEN {} ELSE ChangesFrom(Observation(r.request), r.before)
        IN  r.request # None => told \subseteq changed /\ (told = changed \/ r.lost)

CountsFit(n) == rows[n].read # None => rows[n].read + rows[n].write <= rows[n].input

Fits(t) ==
    /\ t.hits <= t.reported /\ t.reported <= t.requests
    /\ Uncached(t) \in 0 .. t.reportedInput
    /\ Uncached(t) + t.read + t.write >= t.reportedInput
    /\ (\A n \in Matched : CountsFit(n)) => Uncached(t) + t.read + t.write = t.reportedInput

(* A finished report agrees with itself although rows are written while it  *)
(* is loaded: no later part misses what an earlier one counted, the newest  *)
(* rows come first, and a row whose event a panel heard before it asked is  *)
(* in the report.  In each part hits are among the requests that told their *)
(* cache use, and uncached, read and written tokens together leave out none *)
(* of the input of those; they are exactly that input when the counts of    *)
(* every row of the window fit, and may exceed it, uncached alone never,    *)
(* when an upstream reported more cached tokens than input.                 *)
ReportConsistent ==
    report.stage = "done" =>
        LET Requested(f) == SumOf(DOMAIN f, LAMBDA x : f[x].requests)
            accounts(p) == { a \in DOMAIN report.accounts : a[1] = p }
        IN  /\ report.summary.requests <= Requested(report.providers)
            /\ \A p \in DOMAIN report.providers :
                  /\ Fits(report.providers[p])
                  /\ report.providers[p].requests
                        <= SumOf(accounts(p), LAMBDA a : report.accounts[a].requests)
            /\ \A a \in DOMAIN report.accounts : Fits(report.accounts[a])
            /\ Fits(report.summary)
            /\ Cardinality(report.known \cap Matched) <= report.summary.requests
            /\ report.summary.requests > 0 => Len(report.recent) > 0
            /\ \A i, j \in DOMAIN report.recent :
                  i < j => rows[report.recent[i]].ts >= rows[report.recent[j]].ts

(* After a fetch whose answer it stored, a proxy does not ask the provider  *)
(* for an account's usage again within CacheSecs, however many panels poll, *)
(* unless it cannot read the cache or a write that a panel left behind lands *)
(* late; and no update from response headers loses the month the provider's *)
(* endpoint reported.  A fetch that failed, was abandoned or could not be   *)
(* stored is repeated by the very next poll, although account_usage.rs:1-3  *)
(* says that the endpoint is asked at most once a minute.                   *)
QuotaKept ==
    /\ quota # None => quota.month = monthly
    /\ \A p \in Poller :
          poll[p].stage = "fetch" /\ poll[p].earlier.kept /\ ~poll[p].unread
              => poll[p].now - poll[p].earlier.at >= CacheSecs

(* The rows and their events as a ledger sees them.                         *)
Announced == [n \in { m \in DOMAIN events : events[m] # LimitsEvent } |-> events[n]]

Book == INSTANCE Ledger WITH
    recorded <- rows, announced <- Announced, heard <- heard \ {LimitsEvent}

(* Recording keeps the promise of module Ledger: rows are append-only, a    *)
(* row is announced once and after it was stored, and a subscriber hears    *)
(* announced rows only.                                                     *)
KeepsLedger == Book!Spec

(* A subscriber that fell behind hears the newest event in the end.         *)
CatchesUp == []<>(cursor = Len(events))
=============================================================================
