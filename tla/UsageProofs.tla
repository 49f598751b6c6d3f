----------------------------- MODULE UsageProofs -----------------------------
(* TLAPS proofs about the record a proxy keeps of its requests, for any       *)
(* requests, outcomes, handlers, pollers and bounds.                          *)
EXTENDS Usage, FiniteSetTheorems, SequenceTheorems, WellFoundedInduction, TLAPS

\* Sums are the folds of addition.
Plus(a, b) == a + b
INSTANCE Folding WITH Op <- Plus

-----------------------------------------------------------------------------
(* Types.                                                                     *)

Fields == {"request", "diagnostics", "before", "lost", "outcome", "id"}

\* The bounds, the clock, the handlers and what they work on.
BoundsInv ==
    /\ clock \in Nat
    /\ left \in [requests : Nat, polls : Nat, reports : Nat, time : Nat, outside : Nat,
                 asks : SUBSET Requests, outcomes : SUBSET Outcomes]

HandlerInv ==
    /\ pc \in [Handler -> {"idle", "sent", "quota", "record", "publish"}]
    /\ DOMAIN job = Handler
    /\ \A h \in Handler :
          /\ pc[h] # "idle" => DOMAIN job[h] = Fields /\ job[h].request \in Requests
          /\ pc[h] \in {"quota", "record", "publish"} => job[h].outcome \in Outcomes
          /\ pc[h] = "quota" => job[h].outcome.limits # None

TypeInv == BoundsInv /\ HandlerInv

\* What writing a field of a job does to it.
LEMMA JobField ==
    ASSUME HandlerInv, NEW h \in Handler, pc[h] # "idle", NEW v
    PROVE  /\ LET k == [job EXCEPT ![h].outcome = v]
              IN  /\ DOMAIN k = Handler /\ DOMAIN k[h] = Fields /\ k[h].outcome = v
                  /\ \A f \in Fields \ {"outcome"} : k[h][f] = job[h][f]
                  /\ \A g \in Handler \ {h} : k[g] = job[g]
           /\ LET k == [job EXCEPT ![h].id = v]
              IN  /\ DOMAIN k = Handler /\ DOMAIN k[h] = Fields /\ k[h].id = v
                  /\ \A f \in Fields \ {"id"} : k[h][f] = job[h][f]
                  /\ \A g \in Handler \ {h} : k[g] = job[g]
BY DEF HandlerInv, Fields

\* What is spent of a bound leaves the choices.
LEMMA SpendTyped ==
    ASSUME BoundsInv, NEW f \in {"requests", "polls", "reports", "time", "outside"}, Spend(f)
    PROVE  left' \in [requests : Nat, polls : Nat, reports : Nat, time : Nat, outside : Nat,
                      asks : SUBSET Requests, outcomes : SUBSET Outcomes]
BY DEF BoundsInv, Spend

\* Handlers work on the requests and outcomes there are.
LEMMA TypesStep ==
    ASSUME TypeInv, [Next]_vars
    PROVE  TypeInv'
<1>0. BoundsInv /\ HandlerInv
  BY DEF TypeInv
<1>1. CASE UNCHANGED << left, clock, handlers >>
  BY <1>0, <1>1 DEF TypeInv, BoundsInv, HandlerInv, handlers
<1>2. CASE Tick
  <2>1. clock' = clock + 1 /\ UNCHANGED handlers /\ Spend("time")
    BY <1>2 DEF Tick
  <2>2. QED
    BY <1>0, <2>1, SpendTyped DEF TypeInv, BoundsInv, HandlerInv, handlers
<1>3. ASSUME NEW f \in {"requests", "polls", "reports", "time", "outside"}, Spend(f),
             UNCHANGED << clock, handlers >>
      PROVE  TypeInv'
  BY <1>0, <1>3, SpendTyped DEF TypeInv, BoundsInv, HandlerInv, handlers
<1>4. ASSUME NEW h \in Handler, NEW q \in left.asks, Observe(h, q)
      PROVE  TypeInv'
  <2>1. q \in Requests
    BY <1>0 DEF BoundsInv
  <2>2. BoundsInv'
    BY <1>0, <1>4, SpendTyped DEF BoundsInv, Observe
  <2>3. /\ pc' = [pc EXCEPT ![h] = "sent"] /\ DOMAIN job' = Handler
        /\ DOMAIN job'[h] = Fields /\ job'[h].request = q
        /\ \A g \in Handler \ {h} : job'[g] = job[g]
    BY <1>0, <1>4 DEF Observe, HandlerInv, Fields
  <2>4. HandlerInv'
    BY <1>0, <2>1, <2>3 DEF HandlerInv
  <2>5. QED
    BY <2>2, <2>4 DEF TypeInv
<1>5. ASSUME NEW h \in Handler, NEW o \in left.outcomes, Answered(h, o)
      PROVE  TypeInv'
  <2>1. o \in Outcomes
    BY <1>0 DEF BoundsInv
  <2>2. pc[h] = "sent" /\ job' = [job EXCEPT ![h].outcome = o] /\ UNCHANGED << clock, left >>
    BY <1>5 DEF Answered
  <2>3. \/ o.limits = None /\ pc' = [pc EXCEPT ![h] = "record"]
        \/ o.limits # None /\ pc' = [pc EXCEPT ![h] = "quota"]
    BY <1>5 DEF Answered
  <2>4. HandlerInv'
    <3>1. /\ DOMAIN job' = Handler /\ DOMAIN job'[h] = Fields /\ job'[h].outcome = o
          /\ job'[h].request = job[h].request
          /\ \A g \in Handler \ {h} : job'[g] = job[g]
      BY <1>0, <2>2, <2>3 DEF HandlerInv, Fields
    <3>2. QED
      BY <1>0, <2>1, <2>2, <2>3, <3>1 DEF HandlerInv
  <2>5. QED
    BY <1>0, <2>2, <2>4 DEF TypeInv, BoundsInv
<1>6. ASSUME NEW h \in Handler, RecordQuota(h)
      PROVE  TypeInv'
  BY <1>0, <1>6 DEF TypeInv, BoundsInv, HandlerInv, RecordQuota
<1>7. ASSUME NEW h \in Handler, Insert(h)
      PROVE  TypeInv'
  <2>1. /\ DOMAIN job' = Handler /\ DOMAIN job'[h] = Fields /\ job'[h].outcome = job[h].outcome
        /\ job'[h].request = job[h].request
        /\ \A g \in Handler \ {h} : job'[g] = job[g]
    <3> DEFINE v == Len(rows) + 1
    <3>1. pc[h] # "idle" /\ job' = [job EXCEPT ![h].id = v]
      BY <1>7 DEF Insert
    <3> HIDE DEF v
    <3> QED BY <1>0, <3>1 DEF HandlerInv, Fields
  <2>2. HandlerInv'
    BY <1>0, <1>7, <2>1 DEF HandlerInv, Insert
  <2>3. QED
    BY <1>0, <1>7, <2>2 DEF TypeInv, BoundsInv, Insert
<1>8. ASSUME NEW h \in Handler, SendFails(h) \/ InsertFails(h) \/ Publish(h)
      PROVE  TypeInv'
  BY <1>0, <1>8 DEF TypeInv, BoundsInv, HandlerInv, SendFails, InsertFails, Publish
<1>9. ASSUME Receive \/ LoadRest \/ UNCHANGED vars
      PROVE  UNCHANGED << left, clock, handlers >>
  BY <1>9 DEF Receive, LoadRest, LoadNext, vars
<1>10. ASSUME NEW p \in Poller, Refresh(p), ~Poll(p)
       PROVE  UNCHANGED << left, clock, handlers >>
  BY <1>10 DEF Refresh, EnterRefresh, LoadCache, FetchFails, Save, GoAway, SaveLeft, FetchOk
<1>11. ASSUME \/ \E s \in Scopes, b \in BOOLEAN : LoadSummary(s, b)
              \/ \E p \in Poller : Poll(p)
              \/ Others
       PROVE  TypeInv'
  BY <1>3, <1>11 DEF LoadSummary, Poll, Others, OtherRecords, OtherQuota, OtherSaves
<1>12. QED
  BY <1>1, <1>2, <1>4, <1>5, <1>6, <1>7, <1>8, <1>9, <1>10, <1>11 DEF Next, Load, Handle

-----------------------------------------------------------------------------
(* Rows and events.                                                           *)

\* Events are of rows that are stored; a subscriber is at one of them.
LogInv ==
    /\ IsSeq(rows) /\ IsSeq(events)
    /\ cursor \in 0 .. Len(events)
    /\ \A n \in DOMAIN events : events[n] \in DOMAIN rows \cup {LimitsEvent}

\* A row that is about to be announced is stored, has not been announced, and is
\* one handler's.
PublishInv ==
    \A h \in Handler : pc[h] = "publish" =>
        /\ job[h].id \in DOMAIN rows
        /\ \A n \in DOMAIN events : events[n] # job[h].id
        /\ \A g \in Handler : pc[g] = "publish" /\ job[g].id = job[h].id => g = h

RecordInv == LogInv /\ PublishInv

\* Rows are stored before they are announced, and announced once.
LEMMA RecordStep ==
    ASSUME TypeInv, RecordInv, [Next]_vars
    PROVE  RecordInv'
<1>0. LogInv /\ PublishInv /\ HandlerInv
  BY DEF RecordInv, TypeInv
<1>1. /\ \A e : DOMAIN rows \subseteq DOMAIN Append(rows, e)
      /\ LimitsEvent \notin DOMAIN rows /\ Len(rows) + 1 \notin DOMAIN rows
      /\ Len(events) \in Nat
  BY <1>0, Appended DEF LogInv, LimitsEvent
<1>2. CASE UNCHANGED << rows, events, cursor, handlers >>
  BY <1>0, <1>2 DEF RecordInv, LogInv, PublishInv, handlers
<1>3. CASE Receive
  <2>1. cursor' \in 0 .. Len(events) /\ UNCHANGED << rows, events, handlers >>
    BY <1>0, <1>1, <1>3, UsageAssumption DEF Receive, LogInv, tables
  <2>2. QED
    BY <1>0, <2>1 DEF RecordInv, LogInv, PublishInv, handlers
<1>4. ASSUME NEW h \in Handler, pc'[h] # "publish",
             \A g \in Handler \ {h} : pc'[g] = pc[g] /\ job'[g] = job[g],
             UNCHANGED << rows, events, cursor >>
      PROVE  RecordInv'
  BY <1>0, <1>4 DEF RecordInv, LogInv, PublishInv
<1>5. ASSUME NEW h \in Handler, NEW q, Observe(h, q)
      PROVE  RecordInv'
  BY <1>0, <1>4, <1>5 DEF Observe, HandlerInv
<1>6. ASSUME NEW h \in Handler, NEW o, Answered(h, o)
      PROVE  RecordInv'
  <2>1. /\ pc'[h] # "publish" /\ \A g \in Handler \ {h} : pc'[g] = pc[g] /\ job'[g] = job[g]
        /\ UNCHANGED << rows, cursor >>
    BY <1>0, <1>6 DEF Answered, HandlerInv
  <2>2. CASE events' = events
    BY <1>4, <2>1, <2>2
  <2>3. CASE events' = Append(events, LimitsEvent)
    <3>1. LogInv'
      BY <1>0, <1>1, <2>1, <2>3, Appended DEF LogInv
    <3>2. PublishInv'
      <4>1. \A n \in DOMAIN events' :
               events'[n] = LimitsEvent \/ \E m \in DOMAIN events : events'[n] = events[m]
        BY <1>0, <2>3, Appended DEF LogInv
      <4>2. QED
        BY <1>0, <1>1, <2>1, <4>1 DEF PublishInv
    <3>3. QED
      BY <3>1, <3>2 DEF RecordInv
  <2>4. QED
    BY <1>6, <2>2, <2>3 DEF Answered
<1>7. ASSUME NEW h \in Handler, RecordQuota(h)
      PROVE  RecordInv'
  BY <1>0, <1>4, <1>7 DEF RecordQuota, HandlerInv, memory
<1>8. ASSUME NEW h \in Handler, SendFails(h) \/ InsertFails(h)
      PROVE  RecordInv'
  BY <1>0, <1>4, <1>8 DEF SendFails, InsertFails, HandlerInv, memory, tables
<1>9. ASSUME NEW h \in Handler, Insert(h)
      PROVE  RecordInv'
  <2>1. UNCHANGED << events, cursor >> /\ pc[h] = "record" /\ rows' = Append(rows, Row(job[h]))
    BY <1>9 DEF Insert, memory
  <2>2. /\ pc'[h] = "publish" /\ job'[h].id = Len(rows) + 1
        /\ \A g \in Handler \ {h} : pc'[g] = pc[g] /\ job'[g] = job[g]
    BY <1>0, <1>9, JobField DEF Insert, HandlerInv
  <2>3. LogInv'
    BY <1>0, <1>1, <2>1, Appended DEF LogInv
  <2>4. Len(rows) + 1 \in DOMAIN rows' /\ DOMAIN rows \subseteq DOMAIN rows'
    BY <1>0, <1>1, <2>1, Appended DEF LogInv
  <2>5. \A n \in DOMAIN events : events[n] # Len(rows) + 1
    BY <1>0, <1>1, Appended DEF LogInv, LimitsEvent
  <2>6. PublishInv'
    BY <1>0, <1>1, <2>1, <2>2, <2>4, <2>5 DEF PublishInv
  <2>7. QED
    BY <2>3, <2>6 DEF RecordInv
<1>10. ASSUME NEW h \in Handler, Publish(h)
       PROVE  RecordInv'
  <2>1. /\ pc[h] = "publish" /\ pc'[h] = "idle" /\ UNCHANGED << rows, cursor >>
        /\ events' = Append(events, job[h].id)
        /\ \A g \in Handler \ {h} : pc'[g] = pc[g] /\ job'[g] = job[g]
    BY <1>0, <1>10 DEF Publish, HandlerInv, tables
  <2>2. job[h].id \in DOMAIN rows
    BY <1>0, <2>1 DEF PublishInv
  <2>3. LogInv'
    BY <1>0, <1>1, <2>1, <2>2, Appended DEF LogInv
  <2>4. PublishInv'
    <3>1. \A n \in DOMAIN events' : events'[n] = job[h].id \/ \E m \in DOMAIN events : events'[n] = events[m]
      BY <1>0, <2>1, Appended DEF LogInv
    <3>2. QED
      BY <1>0, <2>1, <3>1 DEF PublishInv
  <2>5. QED
    BY <2>3, <2>4 DEF RecordInv
<1>11. CASE OtherRecords
  <2>1. UNCHANGED << events, cursor, handlers >> /\ \E r : rows' = Append(rows, r)
    BY <1>11 DEF OtherRecords, memory
  <2>2. LogInv'
    BY <1>0, <1>1, <2>1, Appended DEF LogInv
  <2>3. PublishInv'
    BY <1>0, <1>1, <2>1 DEF PublishInv, handlers
  <2>4. QED
    BY <2>2, <2>3 DEF RecordInv
<1>12. ASSUME Tick \/ Load \/ (Others /\ ~OtherRecords) \/ (\E p \in Poller : Refresh(p)) \/ UNCHANGED vars
       PROVE  UNCHANGED << rows, events, cursor, handlers >>
  BY <1>12 DEF Tick, Load, LoadRest, LoadNext, LoadSummary, Others, OtherQuota, OtherSaves, Refresh,
       Poll, EnterRefresh, LoadCache, FetchOk, FetchFails, Save, GoAway, SaveLeft, memory, tables, vars
<1>13. QED
  BY <1>2, <1>3, <1>5, <1>6, <1>7, <1>8, <1>9, <1>10, <1>11, <1>12 DEF Next, Handle

-----------------------------------------------------------------------------
(* Cache diagnostics.                                                         *)

Compared == {"model", "account", "prefix", "key"}

\* What a job or a row says changed since its session's last request is what did,
\* and all of it unless the session's entry had been cleared.
Truthful(r) ==
    LET told == r.diagnostics \cap Compared
        changed == IF r.before = None THEN {} ELSE ChangesFrom(Observation(r.request), r.before)
    IN  told \subseteq changed /\ (told = changed \/ r.lost)

\* The recorder's map holds the last observations of at most MaxObserved sessions;
\* whoever is missing was never observed or has been cleared.
ObservedInv ==
    /\ DOMAIN observed \subseteq Sessions
    /\ IsFiniteSet(DOMAIN observed) /\ Cardinality(DOMAIN observed) <= MaxObserved
    /\ DOMAIN last = Sessions
    /\ \A s \in DOMAIN observed : observed[s] = last[s] /\ observed[s] # None
    /\ \A s \in Sessions \ DOMAIN observed : last[s] # None => s \in forgot

\* Requests under way carry true diagnostics.
JobsTrue == \A h \in Handler : pc[h] # "idle" => Truthful(job[h])

CacheInv == ObservedInv /\ JobsTrue /\ DiagnosticsTrue

\* The property is that every row of a known request is truthful.
LEMMA RowsTruthful ==
    DiagnosticsTrue <=> \A n \in DOMAIN rows : rows[n].request # None => Truthful(rows[n])
BY DEF DiagnosticsTrue, Truthful, Compared

\* The map after a request of a session, and of a client without one.
LEMMA Remembered ==
    ASSUME NEW q, Remember(q)
    PROVE  /\ q.session = NoSession => observed' = observed
           /\ q.session # NoSession =>
                 \E kept \in {{}, DOMAIN observed} :
                    /\ DOMAIN observed' = kept \cup {q.session}
                    /\ observed'[q.session] = Observation(q)
                    /\ \A s \in kept \ {q.session} : observed'[s] = observed[s]
                    /\ \/ kept = {}
                       \/ q.session \in DOMAIN observed
                       \/ ~(Cardinality(DOMAIN observed) >= MaxObserved)
<1>1. CASE q.session = NoSession
  BY <1>1 DEF Remember
<1>2. CASE q.session # NoSession
  <2> DEFINE full == Cardinality(DOMAIN observed) >= MaxObserved /\ q.session \notin DOMAIN observed
             kept == IF full THEN {} ELSE DOMAIN observed
  <2>1. observed' = [t \in kept \cup {q.session} |->
                        IF t = q.session THEN Observation(q) ELSE observed[t]]
    BY <1>2 DEF Remember
  <2>2. kept \in {{}, DOMAIN observed}
        /\ \/ kept = {}
           \/ q.session \in DOMAIN observed
           \/ ~(Cardinality(DOMAIN observed) >= MaxObserved)
    OBVIOUS
  <2> HIDE DEF kept
  <2>3. QED
    BY <1>2, <2>1, <2>2
<1>3. QED
  BY <1>1, <1>2

\* The diagnostics of a request compare it with the last one of its session.
LEMMA SeenTruthful ==
    ASSUME ObservedInv, NEW q \in Requests, NEW j,
           j.request = q, j.diagnostics = Seen(q), j.lost = (q.session \in forgot),
           j.before = IF q.session = NoSession THEN None ELSE last[q.session]
    PROVE  Truthful(j)
<1>1. RequestDiagnostics(q) \cap Compared = {}
  BY DEF RequestDiagnostics, Compared
<1>2. CASE q.session \in DOMAIN observed
  <2>1. q.session # NoSession /\ j.before = observed[q.session] /\ j.before # None
    BY <1>2 DEF ObservedInv, Sessions
  <2>2. ChangesFrom(Observation(q), observed[q.session]) \subseteq Compared
    BY DEF ChangesFrom, Compared
  <2>3. j.diagnostics \cap Compared = ChangesFrom(Observation(q), observed[q.session])
    BY <1>1, <1>2, <2>2 DEF Seen
  <2>4. QED
    BY <2>1, <2>3 DEF Truthful
<1>3. CASE q.session \notin DOMAIN observed
  <2>1. j.diagnostics \cap Compared = {}
    BY <1>1, <1>3 DEF Seen
  <2>2. j.before # None => j.lost
    BY <1>3 DEF ObservedInv, Sessions
  <2>3. QED
    BY <2>1, <2>2 DEF Truthful
<1>4. QED
  BY <1>2, <1>3

\* Observing keeps the map that of the last observations, and bounded.
LEMMA ObserveStep ==
    ASSUME ObservedInv, NEW q \in Requests, Remember(q),
           last' = (IF q.session = NoSession THEN last ELSE [last EXCEPT ![q.session] = Observation(q)]),
           forgot' = (forgot \cup (DOMAIN observed \ DOMAIN observed')) \ {q.session}
    PROVE  ObservedInv'
<1> DEFINE s == q.session
<1>1. CASE s = NoSession
  <2>1. observed' = observed /\ last' = last /\ forgot' = forgot \ {s}
    BY <1>1, Remembered
  <2>2. QED
    BY <1>1, <2>1 DEF ObservedInv, Sessions
<1>2. CASE s # NoSession
  <2>1. PICK kept \in {{}, DOMAIN observed} :
           /\ DOMAIN observed' = kept \cup {s}
           /\ observed'[s] = Observation(q)
           /\ \A t \in kept \ {s} : observed'[t] = observed[t]
           /\ \/ kept = {}
              \/ s \in DOMAIN observed
              \/ ~(Cardinality(DOMAIN observed) >= MaxObserved)
    BY <1>2, Remembered
  <2>2. s \in Sessions /\ DOMAIN observed' \subseteq Sessions /\ DOMAIN last' = Sessions
    BY <1>2, <2>1 DEF Sessions, ObservedInv
  <2>3. IsFiniteSet(DOMAIN observed') /\ Cardinality(DOMAIN observed') <= MaxObserved
    <3>1. IsFiniteSet(kept) /\ Cardinality(kept) \in Nat /\ MaxObserved \in Nat \ {0}
      BY <2>1, FS_EmptySet, FS_CardinalityType, UsageAssumption DEF ObservedInv
    <3>2. /\ IsFiniteSet(kept \cup {s})
          /\ Cardinality(kept \cup {s}) = IF s \in kept THEN Cardinality(kept) ELSE Cardinality(kept) + 1
      BY <3>1, FS_AddElement
    <3>3. \/ kept = {} /\ Cardinality(kept) = 0
          \/ s \in kept /\ Cardinality(kept) <= MaxObserved
          \/ Cardinality(kept) < MaxObserved
      BY <2>1, <3>1, FS_EmptySet DEF ObservedInv
    <3>4. QED
      BY <2>1, <3>1, <3>2, <3>3
  <2>4. last'[s] = Observation(q) /\ \A t \in Sessions \ {s} : last'[t] = last[t]
    BY <1>2, <2>2 DEF ObservedInv
  <2>5. \A t \in DOMAIN observed' : observed'[t] = last'[t] /\ observed'[t] # None
    BY <2>1, <2>2, <2>4, NoneAssumption DEF ObservedInv
  <2>6. \A t \in Sessions \ DOMAIN observed' : last'[t] # None => t \in forgot'
    BY <2>1, <2>4 DEF ObservedInv
  <2>7. QED
    BY <2>2, <2>3, <2>5, <2>6 DEF ObservedInv
<1>3. QED
  BY <1>1, <1>2

\* The row of a job is as truthful as the job.
LEMMA RowTruthful ==
    ASSUME NEW j, Truthful(j)
    PROVE  Truthful(Row(j))
<1>1. OutcomeDiagnostics(j.outcome) \cap Compared = {}
  BY DEF OutcomeDiagnostics, Compared
<1>2. /\ Row(j).diagnostics = j.diagnostics \cup OutcomeDiagnostics(j.outcome)
      /\ Row(j).request = j.request /\ Row(j).before = j.before /\ Row(j).lost = j.lost
  BY DEF Row
<1>3. Row(j).diagnostics \cap Compared = j.diagnostics \cap Compared
  BY <1>1, <1>2
<1>4. QED
  BY <1>2, <1>3 DEF Truthful

\* Rows and jobs stay truthful.
LEMMA CacheStep ==
    ASSUME TypeInv, RecordInv, CacheInv, [Next]_vars
    PROVE  CacheInv'
<1>0. /\ ObservedInv /\ JobsTrue /\ HandlerInv /\ BoundsInv /\ IsSeq(rows)
      /\ \A n \in DOMAIN rows : rows[n].request # None => Truthful(rows[n])
  BY RowsTruthful DEF CacheInv, TypeInv, RecordInv, LogInv
<1>1. ASSUME UNCHANGED << observed, last, forgot >>
      PROVE  ObservedInv'
  BY <1>0, <1>1 DEF ObservedInv
<1>2. ASSUME rows' = rows
      PROVE  DiagnosticsTrue'
  BY <1>0, <1>2, RowsTruthful DEF Truthful, DiagnosticsTrue, Compared
<1>3. ASSUME NEW r, rows' = Append(rows, r), r.request # None => Truthful(r)
      PROVE  DiagnosticsTrue'
  <2>1. \A n \in DOMAIN rows' : rows'[n].request # None => Truthful(rows'[n])
    BY <1>0, <1>3, Appended
  <2>2. QED
    BY <2>1 DEF Truthful, DiagnosticsTrue, Compared
<1>4. ASSUME UNCHANGED handlers
      PROVE  JobsTrue'
  BY <1>0, <1>4 DEF JobsTrue, handlers
<1>5. ASSUME NEW h \in Handler,
             \A g \in Handler \ {h} : pc'[g] = pc[g] /\ job'[g] = job[g],
             pc'[h] # "idle" => Truthful(job'[h])
      PROVE  JobsTrue'
  BY <1>0, <1>5 DEF JobsTrue
<1>6. ASSUME NEW h \in Handler, NEW q \in left.asks, Observe(h, q)
      PROVE  CacheInv'
  <2>1. q \in Requests /\ rows' = rows
    BY <1>0, <1>6 DEF BoundsInv, Observe
  <2>2. ObservedInv'
    BY <1>0, <1>6, <2>1, ObserveStep DEF Observe
  <2>3. /\ job'[h].request = q /\ job'[h].diagnostics = Seen(q)
        /\ job'[h].before = IF q.session = NoSession THEN None ELSE last[q.session]
        /\ job'[h].lost = (q.session \in forgot)
        /\ \A g \in Handler \ {h} : pc'[g] = pc[g] /\ job'[g] = job[g]
    BY <1>0, <1>6 DEF Observe, HandlerInv
  <2>4. Truthful(job'[h])
    BY <1>0, <2>1, <2>3, SeenTruthful
  <2>5. QED
    BY <1>2, <1>5, <2>1, <2>2, <2>3, <2>4 DEF CacheInv
<1>7. ASSUME NEW h \in Handler, NEW o, Answered(h, o)
      PROVE  CacheInv'
  <2>1. /\ pc[h] = "sent" /\ job' = [job EXCEPT ![h].outcome = o]
        /\ UNCHANGED << rows, observed, last, forgot >>
        /\ \A g \in Handler \ {h} : pc'[g] = pc[g]
    BY <1>0, <1>7 DEF Answered, HandlerInv, history
  <2>2. /\ \A g \in Handler \ {h} : job'[g] = job[g]
        /\ \A f \in {"request", "diagnostics", "before", "lost"} : job'[h][f] = job[h][f]
    BY <1>0, <2>1, JobField DEF Fields
  <2>3. Truthful(job'[h])
    BY <1>0, <2>1, <2>2 DEF JobsTrue, Truthful
  <2>4. QED
    BY <1>1, <1>2, <1>5, <2>1, <2>2, <2>3 DEF CacheInv
<1>8. ASSUME NEW h \in Handler, RecordQuota(h)
      PROVE  CacheInv'
  <2>1. /\ pc[h] = "quota" /\ UNCHANGED << rows, observed, last, forgot, job >>
        /\ \A g \in Handler \ {h} : pc'[g] = pc[g]
    BY <1>0, <1>8 DEF RecordQuota, HandlerInv, memory, history
  <2>2. QED
    BY <1>0, <1>1, <1>2, <1>5, <2>1 DEF CacheInv, JobsTrue
<1>9. ASSUME NEW h \in Handler, Insert(h)
      PROVE  CacheInv'
  <2>1. /\ pc[h] = "record" /\ job' = [job EXCEPT ![h].id = Len(rows) + 1]
        /\ UNCHANGED << observed, last, forgot >> /\ rows' = Append(rows, Row(job[h]))
        /\ \A g \in Handler \ {h} : pc'[g] = pc[g]
    BY <1>0, <1>9 DEF Insert, HandlerInv, memory, history
  <2>2. /\ \A g \in Handler \ {h} : job'[g] = job[g]
        /\ \A f \in {"request", "diagnostics", "before", "lost"} : job'[h][f] = job[h][f]
    BY <1>0, <2>1, JobField DEF Fields
  <2>3. Truthful(job[h]) /\ Truthful(job'[h])
    BY <1>0, <2>1, <2>2 DEF JobsTrue, Truthful
  <2>4. QED
    BY <1>1, <1>3, <1>5, <2>1, <2>2, <2>3, RowTruthful DEF CacheInv
<1>10. ASSUME NEW h \in Handler, SendFails(h) \/ InsertFails(h) \/ Publish(h)
       PROVE  CacheInv'
  <2>1. /\ pc'[h] = "idle" /\ UNCHANGED << rows, observed, last, forgot >>
        /\ \A g \in Handler \ {h} : pc'[g] = pc[g] /\ job'[g] = job[g]
    BY <1>0, <1>10 DEF SendFails, InsertFails, Publish, HandlerInv, memory, tables, history
  <2>2. QED
    BY <1>1, <1>2, <1>5, <2>1 DEF CacheInv
<1>11. CASE OtherRecords
  <2>1. /\ UNCHANGED << handlers, observed, last, forgot >>
        /\ rows' = Append(rows, [MissingRow EXCEPT !.ts = clock])
    BY <1>11 DEF OtherRecords, memory, history
  <2>2. [MissingRow EXCEPT !.ts = clock].request = None
    BY UsageAssumption
  <2>3. QED
    BY <1>1, <1>3, <1>4, <2>1, <2>2 DEF CacheInv
<1>12. ASSUME \/ Tick \/ Receive \/ Load \/ (Others /\ ~OtherRecords)
              \/ (\E p \in Poller : Refresh(p)) \/ UNCHANGED vars
       PROVE  UNCHANGED << handlers, rows, observed, last, forgot >>
  BY <1>12 DEF Tick, Receive, Load, LoadRest, LoadNext, LoadSummary, Others, OtherQuota, OtherSaves,
       Refresh, Poll, EnterRefresh, LoadCache, FetchOk, FetchFails, Save, GoAway, SaveLeft, memory, tables, history, vars
<1>13. CASE UNCHANGED << handlers, rows, observed, last, forgot >>
  BY <1>1, <1>2, <1>4, <1>13 DEF CacheInv
<1>14. QED
  BY <1>6, <1>7, <1>8, <1>9, <1>10, <1>11, <1>12, <1>13 DEF Next, Handle

-----------------------------------------------------------------------------
(* The quota of an account.                                                   *)

\* Only the poller that holds the lock is inside a refresh.
LockInv ==
    /\ refresher \in Poller \cup {None}
    /\ DOMAIN poll = Poller
    /\ \A p \in Poller : poll[p].stage \in {"load", "fetch", "save"} => refresher = p

\* The stored quota has the month last stored, and is as new as our last fetch when
\* that one's answer was stored.
StoredInv ==
    /\ quota \in Quota \cup {None} /\ asked \in [at : Int, kept : BOOLEAN] /\ asked.at <= clock
    /\ quota = None => monthly = None /\ ~asked.kept
    /\ quota # None => /\ quota.month = monthly
                       /\ asked.kept => asked.at <= quota.fetched

\* A refresh knows when it began; it asks only if the stored quota was old then.
PollInv ==
    \A p \in Poller :
        /\ poll[p].stage \in {"load", "fetch"} => poll[p].now \in Nat
        /\ poll[p].stage = "fetch" /\ poll[p].earlier.kept /\ ~poll[p].unread
              => poll[p].now - poll[p].earlier.at >= CacheSecs
        /\ poll[p].stage \in {"save", "left"} => poll[p].usage \in Quota
        /\ poll[p].stage = "save" => asked.at <= poll[p].usage.fetched

QuotaInv == LockInv /\ StoredInv /\ PollInv

\* The bounds on time are numbers.
LEMMA TimeFacts == CacheSecs \in Nat \ {0} /\ None \notin Quota /\ None \notin Poller
BY UsageAssumption, NoneAssumption

\* What headers and answers store is a quota of the moment.
LEMMA QuotaTyped ==
    ASSUME clock \in Nat, quota \in Quota \cup {None}
    PROVE  /\ \A l \in Limits :
                 /\ WithHeaders(l) \in Quota /\ WithHeaders(l).fetched = clock
                 /\ WithHeaders(l).month = IF quota = None THEN None ELSE quota.month
           /\ \A a \in Answers :
                 /\ Fetched(a) \in Quota /\ Fetched(a).fetched = clock /\ Fetched(a).month = a.month
<1>1. ASSUME NEW l \in Limits
      PROVE  /\ WithHeaders(l) \in Quota /\ WithHeaders(l).fetched = clock
             /\ WithHeaders(l).month = IF quota = None THEN None ELSE quota.month
  <2>1. {l.five, l.week, None} \subseteq Percents
    BY DEF Percents
  <2>2. CASE quota = None
    BY <2>1, <2>2 DEF WithHeaders, Quota
  <2>3. CASE quota # None
    BY <2>1, <2>3 DEF WithHeaders, Quota
  <2>4. QED
    BY <2>2, <2>3
<1>2. ASSUME NEW a \in Answers
      PROVE  Fetched(a) \in Quota /\ Fetched(a).fetched = clock /\ Fetched(a).month = a.month
  <2>1. {a.five, a.week, a.month} \subseteq Percents
    BY DEF Percents
  <2>2. QED
    BY <2>1 DEF Fetched, Quota
<1>3. QED
  BY <1>1, <1>2

\* A quota stored by headers or by another process is newer than our last fetch.
LEMMA StoredNewer ==
    ASSUME BoundsInv, StoredInv, asked' = asked, clock' = clock,
           quota' \in Quota, quota'.fetched = clock, quota'.month = monthly'
    PROVE  StoredInv'
BY TimeFacts DEF BoundsInv, StoredInv, Quota

\* A refresh that ends lets go of the lock.
LEMMA ShowStep ==
    ASSUME LockInv, PollInv, NEW p \in Poller, poll[p].stage \in {"load", "fetch", "save"},
           NEW usage, NEW stale, Show(p, usage, stale), asked' = asked
    PROVE  LockInv' /\ PollInv'
<1>1. \A r \in Poller \ {p} : poll'[r] = poll[r] /\ poll[r].stage \notin {"load", "fetch", "save"}
  BY TimeFacts DEF LockInv, Show
<1>2. poll'[p].stage = "idle" /\ refresher' = None /\ DOMAIN poll' = Poller
  BY DEF LockInv, Show
<1>3. QED
  BY <1>1, <1>2 DEF LockInv, PollInv

\* The quota keeps its month and our polls keep their distance.
LEMMA QuotaStep ==
    ASSUME TypeInv, QuotaInv, [Next]_vars
    PROVE  QuotaInv'
<1>0. /\ BoundsInv /\ HandlerInv /\ LockInv /\ StoredInv /\ PollInv
      /\ clock \in Nat /\ quota \in Quota \cup {None}
  BY DEF TypeInv, QuotaInv, BoundsInv, StoredInv
<1>1. CASE UNCHANGED << clock, quota, asked, monthly, refresher, poll >>
  BY <1>0, <1>1 DEF QuotaInv, LockInv, StoredInv, PollInv
<1>2. CASE Tick
  <2>1. clock' = clock + 1 /\ UNCHANGED << quota, asked, monthly, refresher, poll >>
    BY <1>2 DEF Tick, tables, history
  <2>2. StoredInv'
    BY <1>0, <2>1 DEF StoredInv, Quota
  <2>3. PollInv'
    BY <1>0, <2>1 DEF PollInv, Quota
  <2>4. QED
    BY <1>0, <2>1, <2>2, <2>3 DEF QuotaInv, LockInv
<1>3. ASSUME NEW l \in Limits, quota' = WithHeaders(l),
             UNCHANGED << clock, asked, monthly, refresher, poll >>
      PROVE  QuotaInv'
  <2>1. quota' \in Quota /\ quota'.fetched = clock /\ quota'.month = monthly'
    BY <1>0, <1>3, QuotaTyped DEF StoredInv
  <2>2. QED
    BY <1>0, <1>3, <2>1, StoredNewer DEF QuotaInv, LockInv, PollInv
<1>4. ASSUME NEW h \in Handler, RecordQuota(h)
      PROVE  QuotaInv'
  <2>1. /\ quota' \in {quota, WithHeaders(job[h].outcome.limits)}
        /\ UNCHANGED << clock, asked, monthly, refresher, poll >>
    BY <1>4 DEF RecordQuota, history
  <2>2. job[h].outcome.limits \in Limits
    BY <1>0, <1>4 DEF HandlerInv, RecordQuota, Limits
  <2>3. QED
    BY <1>1, <1>3, <2>1, <2>2
<1>5. ASSUME NEW o \in left.outcomes, o.limits # None, OtherQuota(o.limits)
      PROVE  QuotaInv'
  <2>1. o.limits \in Limits
    BY <1>0, <1>5 DEF BoundsInv, Limits
  <2>2. QED
    BY <1>3, <1>5, <2>1 DEF OtherQuota, history
<1>6. ASSUME NEW a \in Answers, OtherSaves(a)
      PROVE  QuotaInv'
  <2>1. /\ quota' = Fetched(a) /\ monthly' = a.month
        /\ UNCHANGED << clock, asked, refresher, poll >>
    BY <1>6 DEF OtherSaves
  <2>2. quota' \in Quota /\ quota'.fetched = clock /\ quota'.month = monthly'
    BY <1>0, <2>1, QuotaTyped
  <2>3. QED
    BY <1>0, <2>1, <2>2, StoredNewer DEF QuotaInv, LockInv, PollInv
<1>7. ASSUME NEW p \in Poller, Poll(p)
      PROVE  QuotaInv'
  <2>1. /\ poll[p].stage = "idle" /\ poll' = [poll EXCEPT ![p] = [stage |-> "wait"]]
        /\ UNCHANGED << clock, quota, asked, monthly, refresher >>
    BY <1>7 DEF Poll, tables, history
  <2>2. QED
    BY <1>0, <2>1 DEF QuotaInv, LockInv, StoredInv, PollInv
<1>8. ASSUME NEW p \in Poller, EnterRefresh(p)
      PROVE  QuotaInv'
  <2>1. /\ refresher = None /\ refresher' = p
        /\ poll' = [poll EXCEPT ![p] = [stage |-> "load", now |-> clock]]
        /\ UNCHANGED << clock, quota, asked, monthly >>
    BY <1>8 DEF EnterRefresh, tables, history
  <2>2. LockInv'
    BY <1>0, <2>1, TimeFacts DEF LockInv
  <2>3. PollInv'
    BY <1>0, <2>1 DEF LockInv, PollInv
  <2>4. QED
    BY <1>0, <2>1, <2>2, <2>3 DEF QuotaInv, StoredInv
<1>9. ASSUME NEW p \in Poller, LoadCache(p)
      PROVE  QuotaInv'
  <2>1. poll[p].stage = "load" /\ UNCHANGED << clock, quota, monthly >>
    BY <1>9 DEF LoadCache, tables
  <2>2. PICK previous \in {quota, None} :
           IF previous # None /\ poll[p].now - previous.fetched < CacheSecs
           THEN Show(p, previous, FALSE) /\ UNCHANGED asked
           ELSE /\ poll' = [poll EXCEPT ![p] = [stage |-> "fetch", now |-> @.now,
                                                previous |-> previous, unread |-> previous # quota,
                                                earlier |-> asked]]
                /\ asked' = [at |-> clock, kept |-> FALSE]
                /\ UNCHANGED refresher
    BY <1>9 DEF LoadCache
  <2>3. StoredInv'
    <3>1. asked' = asked \/ asked' = [at |-> clock, kept |-> FALSE]
      BY <2>2
    <3>2. CASE asked' = asked
      BY <1>0, <2>1, <3>2 DEF StoredInv
    <3>4. CASE asked' = [at |-> clock, kept |-> FALSE]
      <4>1. asked' \in [at : Int, kept : BOOLEAN] /\ asked'.at = clock /\ ~asked'.kept
        BY <1>0, <3>4
      <4>2. asked'.at <= clock'
        BY <1>0, <2>1, <4>1
      <4>3. QED
        BY <1>0, <2>1, <4>1, <4>2 DEF StoredInv
    <3>3. QED
      BY <3>1, <3>2, <3>4
  <2>4. CASE previous # None /\ poll[p].now - previous.fetched < CacheSecs
    BY <1>0, <2>1, <2>2, <2>3, <2>4, ShowStep DEF QuotaInv
  <2>5. CASE ~(previous # None /\ poll[p].now - previous.fetched < CacheSecs)
    <3>1. /\ DOMAIN poll' = Poller /\ refresher' = refresher
          /\ poll'[p].stage = "fetch" /\ poll'[p].now = poll[p].now
          /\ poll'[p].unread = (previous # quota) /\ poll'[p].earlier = asked
          /\ \A r \in Poller \ {p} : poll'[r] = poll[r]
      <4> DEFINE entry == [stage |-> "fetch", now |-> poll[p].now,
                           previous |-> previous, unread |-> previous # quota, earlier |-> asked]
      <4>1. poll' = [poll EXCEPT ![p] = entry] /\ refresher' = refresher
        BY <2>2, <2>5
      <4>2. /\ entry.stage = "fetch" /\ entry.now = poll[p].now /\ entry.earlier = asked
            /\ entry.unread = (previous # quota)
        OBVIOUS
      <4> HIDE DEF entry
      <4>3. QED
        BY <1>0, <4>1, <4>2 DEF LockInv
    <3>2. LockInv'
      BY <1>0, <2>1, <3>1 DEF LockInv
    <3>3. poll[p].now \in Nat
      BY <1>0, <2>1 DEF PollInv
    <3>4. previous = quota /\ asked.kept => poll[p].now - asked.at >= CacheSecs
      <4>1. CASE quota = None
        BY <1>0, <4>1 DEF StoredInv
      <4>2. CASE quota # None /\ previous = quota /\ asked.kept
        <5>1. quota.fetched \in Nat /\ asked.at \in Int /\ asked.at <= quota.fetched
          BY <1>0, <4>2 DEF StoredInv, Quota
        <5>2. poll[p].now - quota.fetched >= CacheSecs
          BY <2>5, <3>3, <4>2, <5>1, TimeFacts
        <5>3. QED
          BY <3>3, <5>1, <5>2, TimeFacts
      <4>3. QED
        BY <4>1, <4>2
    <3>5. PollInv'
      <4>1. \A r \in Poller : poll'[r].stage # "save"
        BY <1>0, <2>1, <3>1, TimeFacts DEF LockInv
      <4> QED BY <1>0, <2>1, <3>1, <3>3, <3>4, <4>1 DEF PollInv
    <3>6. QED
      BY <2>3, <3>2, <3>5 DEF QuotaInv
  <2>6. QED
    BY <2>4, <2>5
<1>10. ASSUME NEW p \in Poller, NEW a \in Answers, FetchOk(p, a)
       PROVE  QuotaInv'
  <2>1. /\ poll[p].stage = "fetch"
        /\ poll' = [poll EXCEPT ![p] = [stage |-> "save", usage |-> Fetched(a)]]
        /\ UNCHANGED << clock, quota, asked, monthly, refresher >>
    BY <1>10 DEF FetchOk, tables, history
  <2>2. Fetched(a) \in Quota /\ Fetched(a).fetched = clock /\ asked.at <= clock
    BY <1>0, QuotaTyped DEF StoredInv
  <2>3. LockInv'
    BY <1>0, <2>1 DEF LockInv
  <2>4. PollInv'
    BY <1>0, <2>1, <2>2 DEF LockInv, PollInv
  <2>5. QED
    BY <1>0, <2>1, <2>3, <2>4 DEF QuotaInv, StoredInv
<1>11. ASSUME NEW p \in Poller, FetchFails(p)
       PROVE  QuotaInv'
  <2>1. /\ poll[p].stage = "fetch" /\ Show(p, poll[p].previous, TRUE)
        /\ UNCHANGED << clock, quota, asked, monthly >>
    BY <1>11 DEF FetchFails, tables, history
  <2>2. QED
    BY <1>0, <2>1, ShowStep DEF QuotaInv, StoredInv
<1>12. ASSUME NEW p \in Poller, Save(p)
       PROVE  QuotaInv'
  <2>1. /\ poll[p].stage = "save" /\ Show(p, poll[p].usage, FALSE) /\ clock' = clock
        /\ \/ /\ quota' = poll[p].usage /\ monthly' = quota'.month
              /\ asked' = [asked EXCEPT !.kept = TRUE]
           \/ UNCHANGED << quota, asked, monthly >>
    BY <1>12 DEF Save
  <2>2. poll[p].usage \in Quota /\ asked.at <= poll[p].usage.fetched
    BY <1>0, <2>1 DEF PollInv
  <2>3. StoredInv'
    BY <1>0, <2>1, <2>2, TimeFacts DEF StoredInv, Quota
  <2>4. \A r \in Poller : poll'[r].stage \notin {"load", "fetch", "save"}
    BY <1>0, <2>1, TimeFacts DEF LockInv, Show
  <2>5. LockInv' /\ PollInv'
    BY <1>0, <2>1, <2>4 DEF LockInv, PollInv, Show
  <2>6. QED
    BY <2>3, <2>5 DEF QuotaInv
<1>13. ASSUME NEW p \in Poller, GoAway(p)
       PROVE  QuotaInv'
  <2> DEFINE entry == IF poll[p].stage = "save"
                      THEN [stage |-> "left", usage |-> poll[p].usage] ELSE NoPoll
  <2>1. /\ poll[p].stage \in {"wait", "load", "fetch", "save"}
        /\ poll' = [poll EXCEPT ![p] = entry]
        /\ refresher' = IF refresher = p THEN None ELSE refresher
        /\ UNCHANGED << clock, quota, asked, monthly >>
    BY <1>13 DEF GoAway, tables, history
  <2>2. /\ entry.stage \in {"idle", "left"}
        /\ entry.stage = "left" => poll[p].stage = "save" /\ entry.usage = poll[p].usage
    BY DEF NoPoll
  <2> HIDE DEF entry
  <2>3. LockInv'
    BY <1>0, <2>1, <2>2, TimeFacts DEF LockInv
  <2>4. PollInv'
    BY <1>0, <2>1, <2>2 DEF LockInv, PollInv
  <2>5. QED
    BY <1>0, <2>1, <2>3, <2>4 DEF QuotaInv, StoredInv
<1>14. ASSUME NEW p \in Poller, SaveLeft(p)
       PROVE  QuotaInv'
  <2>1. /\ poll[p].stage = "left" /\ poll' = [poll EXCEPT ![p] = NoPoll]
        /\ \/ /\ quota' = poll[p].usage /\ monthly' = quota'.month
              /\ asked' = [asked EXCEPT !.kept = FALSE]
           \/ UNCHANGED << quota, asked, monthly >>
        /\ UNCHANGED << clock, refresher >>
    BY <1>14 DEF SaveLeft
  <2>2. poll[p].usage \in Quota /\ NoPoll.stage = "idle"
    BY <1>0, <2>1 DEF PollInv, NoPoll
  <2>3. StoredInv'
    BY <1>0, <2>1, <2>2, TimeFacts DEF StoredInv, Quota
  <2>4. asked'.at = asked.at
    BY <1>0, <2>1 DEF StoredInv
  <2>5. LockInv'
    BY <1>0, <2>1, <2>2 DEF LockInv
  <2>6. PollInv'
    BY <1>0, <2>1, <2>2, <2>4 DEF LockInv, PollInv
  <2>7. QED
    BY <2>3, <2>5, <2>6 DEF QuotaInv
<1>15. ASSUME NEW h \in Handler, Handle(h), ~RecordQuota(h)
       PROVE  UNCHANGED << clock, quota, asked, monthly, refresher, poll >>
  BY <1>15 DEF Handle, Observe, Answered, SendFails, Insert, InsertFails, Publish, tables, history
<1>16. ASSUME Receive \/ Load \/ OtherRecords \/ UNCHANGED vars
       PROVE  UNCHANGED << clock, quota, asked, monthly, refresher, poll >>
  BY <1>16 DEF Receive, Load, LoadRest, LoadNext, LoadSummary, OtherRecords, tables, history, vars
<1>17. QED
  BY <1>1, <1>2, <1>4, <1>5, <1>6, <1>7, <1>8, <1>9, <1>10, <1>11, <1>12, <1>13, <1>14,
     <1>15, <1>16
  DEF Next, Others, Refresh

-----------------------------------------------------------------------------
(* The theorems.                                                              *)

UsageInv == TypeInv /\ RecordInv /\ CacheInv /\ QuotaInv

\* It holds before anything is recorded.
LEMMA InitInv ==
    ASSUME Init
    PROVE  UsageInv
<1>1. TypeInv
  BY UsageAssumption DEF Init, TypeInv, BoundsInv, HandlerInv
<1>2. IsSeq(<<>>) /\ DOMAIN <<>> = {} /\ Len(<<>>) = 0
  BY EmptySeq DEF IsSeq
<1>3. RecordInv
  BY <1>2 DEF Init, RecordInv, LogInv, PublishInv
<1>4. CacheInv
  <2>1. ObservedInv
    BY <1>2, FS_EmptySet, UsageAssumption DEF Init, ObservedInv
  <2>2. JobsTrue /\ DiagnosticsTrue
    BY <1>2 DEF Init, JobsTrue, DiagnosticsTrue
  <2>3. QED
    BY <2>1, <2>2 DEF CacheInv
<1>5. QuotaInv
  <2>1. NoPoll.stage = "idle"
    BY DEF NoPoll
  <2>2. QED
    BY <2>1, TimeFacts DEF Init, QuotaInv, LockInv, StoredInv, PollInv
<1>6. QED
  BY <1>1, <1>3, <1>4, <1>5 DEF UsageInv

\* The invariant holds in every state of a proxy.
THEOREM Invariance == Spec => []UsageInv
<1>1. Init => UsageInv
  BY InitInv
<1>2. UsageInv /\ [Next]_vars => UsageInv'
  BY TypesStep, RecordStep, CacheStep, QuotaStep DEF UsageInv
<1>3. QED
  BY <1>1, <1>2, PTL DEF Spec

\* The map of observations is bounded, every event is of a stored row, and one
\* poller at a time is inside a refresh.
THEOREM TypeCorrect == Spec => []TypeOK
<1>1. UsageInv => TypeOK
  BY DEF UsageInv, TypeInv, HandlerInv, RecordInv, LogInv, CacheInv, ObservedInv, QuotaInv, LockInv,
     TypeOK
<1>2. QED
  BY <1>1, Invariance, PTL

\* Every stored diagnostic of a change is true, whatever requests of whichever
\* sessions overlap and however often the map is cleared.
THEOREM DiagnosticsAreTrue == Spec => []DiagnosticsTrue
<1>1. UsageInv => DiagnosticsTrue
  BY DEF UsageInv, CacheInv
<1>2. QED
  BY <1>1, Invariance, PTL

\* A proxy's polls keep their distance, and the month of a quota is not lost.
THEOREM QuotaIsKept == Spec => []QuotaKept
<1>1. UsageInv => QuotaKept
  BY DEF UsageInv, QuotaInv, StoredInv, PollInv, QuotaKept
<1>2. QED
  BY <1>1, Invariance, PTL

-----------------------------------------------------------------------------
(* Recording implements module Ledger.                                        *)

\* What an event that is appended adds to the announcements.
LEMMA AnnouncedAppended ==
    ASSUME IsSeq(events), NEW e, events' = Append(events, e)
    PROVE  /\ e = LimitsEvent => Announced' = Announced
           /\ e # LimitsEvent =>
                 /\ \A p \in DOMAIN Announced : p < Len(events) + 1
                 /\ Announced' = [p \in DOMAIN Announced \cup {Len(events) + 1} |->
                                    IF p = Len(events) + 1 THEN e ELSE Announced[p]]
<1> DEFINE last1 == Len(events) + 1
<1>1. /\ Len(events) \in Nat /\ DOMAIN events = 1 .. Len(events) /\ DOMAIN events' = 1 .. last1
      /\ \A n \in DOMAIN events : events'[n] = events[n]
      /\ events'[last1] = e
  BY Appended
<1>2. { m \in DOMAIN events' : events'[m] # LimitsEvent } =
         IF e = LimitsEvent THEN DOMAIN Announced ELSE DOMAIN Announced \cup {last1}
  BY <1>1 DEF Announced
<1>3. CASE e = LimitsEvent
  BY <1>1, <1>2, <1>3 DEF Announced
<1>4. CASE e # LimitsEvent
  BY <1>1, <1>2, <1>4 DEF Announced
<1>5. QED
  BY <1>3, <1>4

\* Every step of the proxy, and of the others, is a step of a ledger or none.
LEMMA LedgerStep ==
    ASSUME UsageInv, [Next]_vars
    PROVE  [Book!Next]_<< rows, Announced, heard \ {LimitsEvent} >>
<1>0. /\ IsSeq(rows) /\ IsSeq(events) /\ PublishInv /\ HandlerInv
      /\ cursor \in 0 .. Len(events)
      /\ \A n \in DOMAIN events : events[n] \in DOMAIN rows \cup {LimitsEvent}
  BY DEF UsageInv, TypeInv, RecordInv, LogInv
<1>1. CASE UNCHANGED << rows, events, heard >>
  BY <1>1 DEF Announced
<1>2. ASSUME NEW r, rows' = Append(rows, r), UNCHANGED << events, heard >>
      PROVE  Book!Record
  <2>1. Len(rows') = Len(rows) + 1 /\ \A n \in DOMAIN rows : rows'[n] = rows[n]
    BY <1>0, <1>2, Appended
  <2>2. QED
    BY <1>2, <2>1 DEF Book!Record, Announced
<1>3. ASSUME NEW h \in Handler, NEW o, Answered(h, o)
      PROVE  UNCHANGED << rows, Announced, heard >>
  <2>1. events' = events \/ events' = Append(events, LimitsEvent)
    BY <1>3 DEF Answered
  <2>2. Announced' = Announced
    BY <1>0, <2>1, AnnouncedAppended DEF Announced
  <2>3. QED
    BY <1>3, <2>2 DEF Answered
<1>4. ASSUME NEW h \in Handler, Publish(h)
      PROVE  Book!Announce
  <2> DEFINE n == job[h].id
             place == Len(events) + 1
  <2>1. events' = Append(events, n) /\ pc[h] = "publish" /\ UNCHANGED << rows, heard >>
    BY <1>4 DEF Publish, tables
  <2>2. n \in DOMAIN rows /\ \A m \in DOMAIN events : events[m] # n
    BY <1>0, <2>1 DEF PublishInv
  <2>3. n # LimitsEvent
    BY <1>0, <2>2, Appended DEF LimitsEvent
  <2>4. /\ \A p \in DOMAIN Announced : p < place
        /\ Announced' = [p \in DOMAIN Announced \cup {place} |->
                            IF p = place THEN n ELSE Announced[p]]
    BY <1>0, <2>1, <2>3, AnnouncedAppended
  <2>5. \A p \in DOMAIN Announced : Announced[p] # n
    BY <2>2 DEF Announced
  <2>6. place \in DOMAIN Announced'
    BY <2>4
  <2> HIDE DEF n, place
  <2>7. QED
    BY <2>1, <2>2, <2>4, <2>5, <2>6 DEF Book!Announce
<1>5. CASE Receive
  <2>1. UNCHANGED << rows, events >> /\ cursor < Len(events)
    BY <1>5 DEF Receive, tables
  <2>2. CASE heard' = heard
    BY <1>1, <2>1, <2>2
  <2>3. CASE heard' = heard \cup {events[cursor + 1]}
    <3>1. cursor + 1 \in DOMAIN events
      BY <1>0, <2>1, Appended
    <3>2. Announced' = Announced
      BY <2>1 DEF Announced
    <3>3. CASE events[cursor + 1] = LimitsEvent
      <4>1. heard' \ {LimitsEvent} = heard \ {LimitsEvent}
        BY <2>3, <3>3
      <4>2. QED
        BY <2>1, <3>2, <4>1
    <3>4. CASE events[cursor + 1] # LimitsEvent
      <4>1. cursor + 1 \in DOMAIN Announced /\ Announced[cursor + 1] = events[cursor + 1]
        BY <3>1, <3>4 DEF Announced
      <4>2. heard' \ {LimitsEvent} = (heard \ {LimitsEvent}) \cup {Announced[cursor + 1]}
        BY <2>3, <3>4, <4>1
      <4>3. Book!Hear
        BY <2>1, <3>2, <4>1, <4>2 DEF Book!Hear
      <4>4. QED
        BY <4>3 DEF Book!Next
    <3>5. QED
      BY <3>3, <3>4
  <2>4. QED
    BY <1>5, <2>2, <2>3 DEF Receive
<1>6. ASSUME NEW h \in Handler, Insert(h)
      PROVE  Book!Record
  BY <1>2, <1>6 DEF Insert, memory
<1>7. ASSUME OtherRecords
      PROVE  Book!Record
  BY <1>2, <1>7 DEF OtherRecords, memory
<1>8. ASSUME NEW h \in Handler, Handle(h), ~Publish(h), ~Insert(h), ~\E o \in left.outcomes : Answered(h, o)
      PROVE  UNCHANGED << rows, events, heard >>
  BY <1>8 DEF Handle, Observe, SendFails, RecordQuota, InsertFails, memory, tables
<1>9. ASSUME \/ Tick \/ Load \/ (Others /\ ~OtherRecords)
             \/ (\E p \in Poller : Refresh(p)) \/ UNCHANGED vars
      PROVE  UNCHANGED << rows, events, heard >>
  BY <1>9 DEF Tick, Load, LoadRest, LoadNext, LoadSummary, Others, OtherQuota, OtherSaves,
       Refresh, Poll, EnterRefresh, LoadCache, FetchOk, FetchFails, Save, GoAway, SaveLeft, memory, tables, vars
<1>10. QED
  BY <1>1, <1>3, <1>4, <1>5, <1>6, <1>7, <1>8, <1>9 DEF Next, Handle, Book!Next

\* Recording keeps the ledger's promise: rows are append-only, a row is announced
\* at most once and only when it is stored, and only announced rows are heard.
THEOREM LedgerKept == Spec => KeepsLedger
<1>1. Init => Book!Init
  BY DEF Init, Book!Init, Announced
<1>2. UsageInv /\ [Next]_vars => [Book!Next]_<< rows, Announced, heard \ {LimitsEvent} >>
  BY LedgerStep
<1>3. QED
  BY <1>1, <1>2, Invariance, PTL DEF Spec, KeepsLedger, Book!Spec


-----------------------------------------------------------------------------
(* Rows.                                                                      *)

\* Rows are of some time, and their tokens are counted.
RowsTyped ==
    \A n \in DOMAIN rows :
        /\ rows[n].ts \in Nat
        /\ rows[n].input \in Nat /\ rows[n].write \in Nat
        /\ rows[n].read # None => rows[n].read \in Nat

\* The rows of a set, added up: cache counts fit the requests.
LEMMA TotalsFit ==
    ASSUME RowsTyped, NEW ids \in SUBSET DOMAIN rows, IsFiniteSet(ids), ids \subseteq Matched
    PROVE  /\ Totals(ids).requests = Cardinality(ids) /\ Cardinality(ids) \in Nat
           /\ Fits(Totals(ids))
<1> DEFINE told == { n \in ids : rows[n].read # None }
           hits == { n \in told : rows[n].read > 0 }
           read == [n \in told |-> rows[n].read]
           write == [n \in told |-> rows[n].write]
           input == [n \in told |-> rows[n].input]
           t == Totals(ids)
<1>1. /\ IsFiniteSet(told) /\ IsFiniteSet(hits)
      /\ Cardinality(told) \in Nat /\ Cardinality(hits) \in Nat /\ Cardinality(ids) \in Nat
      /\ Cardinality(hits) <= Cardinality(told) /\ Cardinality(told) <= Cardinality(ids)
  <2>1. told \in SUBSET ids /\ hits \in SUBSET told
    OBVIOUS
  <2> HIDE DEF told, hits
  <2>2. IsFiniteSet(told) /\ Cardinality(told) <= Cardinality(ids)
    BY <2>1, FS_Subset
  <2>3. IsFiniteSet(hits) /\ Cardinality(hits) <= Cardinality(told)
    BY <2>1, <2>2, FS_Subset
  <2> QED BY <2>2, <2>3, FS_CardinalityType
<1>2. /\ t.requests = Cardinality(ids) /\ t.reported = Cardinality(told)
      /\ t.hits = Cardinality(hits)
      /\ t.read = SumFunctionOnSet(read, told) /\ t.write = SumFunctionOnSet(write, told)
      /\ t.reportedInput = SumFunctionOnSet(input, told)
  BY DEF Totals, SumOf
<1>3. read \in [told -> Nat] /\ write \in [told -> Nat] /\ input \in [told -> Nat]
  BY DEF RowsTyped
<1>4. (\A n \in Matched : CountsFit(n)) => \A n \in told : read[n] + write[n] <= input[n]
  BY DEF CountsFit
<1> HIDE DEF told, hits, read, write, input
<1>5. /\ SumFunctionOnSet(read, told) \in Nat /\ SumFunctionOnSet(write, told) \in Nat
      /\ SumFunctionOnSet(input, told) \in Nat
  BY <1>1, <1>3, SumOfNats
<1>6. ASSUME \A n \in Matched : CountsFit(n)
      PROVE  SumFunctionOnSet(read, told) + SumFunctionOnSet(write, told)
                <= SumFunctionOnSet(input, told)
  <2>1. read \in [told -> Int] /\ write \in [told -> Int] /\ input \in [told -> Int]
    BY <1>3
  <2>2. \A n \in told : read[n] + write[n] <= input[n]
    BY <1>4, <1>6
  <2> QED BY <1>1, <2>1, <2>2, SumsCompare
<1> HIDE DEF t
<1>7. Fits(t)
  <2> DEFINE exact == \A n \in Matched : CountsFit(n)
  <2>1. t.read \in Nat /\ t.write \in Nat /\ t.reportedInput \in Nat
    BY <1>2, <1>5
  <2>2. exact => t.read + t.write <= t.reportedInput
    BY <1>2, <1>6
  <2> HIDE DEF exact
  <2>3. /\ Uncached(t) \in 0 .. t.reportedInput
        /\ Uncached(t) + t.read + t.write >= t.reportedInput
        /\ exact => Uncached(t) + t.read + t.write = t.reportedInput
    BY <2>1, <2>2 DEF Uncached
  <2>4. QED
    BY <1>1, <1>2, <2>3 DEF Fits, exact
<1> QED BY <1>1, <1>2, <1>7 DEF t

\* What was added up is not changed by rows that come later.
LEMMA TotalsStable ==
    ASSUME NEW ids \in SUBSET DOMAIN rows, \A n \in ids : rows'[n] = rows[n]
    PROVE  Totals(ids)' = Totals(ids)
<1> DEFINE told == { n \in ids : rows[n].read # None }
<1>1. { n \in ids : rows'[n].read # None } = told
  OBVIOUS
<1>2. /\ { n \in ids : rows'[n].status >= Failed } = { n \in ids : rows[n].status >= Failed }
      /\ { n \in told : rows'[n].read > 0 } = { n \in told : rows[n].read > 0 }
      /\ [n \in ids |-> rows'[n].input] = [n \in ids |-> rows[n].input]
      /\ [n \in told |-> rows'[n].read] = [n \in told |-> rows[n].read]
      /\ [n \in told |-> rows'[n].write] = [n \in told |-> rows[n].write]
      /\ [n \in told |-> rows'[n].input] = [n \in told |-> rows[n].input]
  OBVIOUS
<1>3. QED
  BY <1>1, <1>2 DEF Totals, SumOf, Failed

\* The members of F that have a key, that have one of some keys, and the keys there are.
Having(F, key, q) == { n \in F : key[n] = q }
Among(F, key, Q) == { n \in F : key[n] \in Q }
Keys(F, key) == { key[n] : n \in F }

\* Members of an earlier set are counted by the later parts that have their keys.
LEMMA Covered ==
    ASSUME NEW E, NEW F, E \subseteq F, IsFiniteSet(F), NEW key, NEW Q, Q \subseteq Keys(F, key),
           NEW f \in [Q -> Int], \A q \in Q : f[q] = Cardinality(Having(F, key, q))
    PROVE  Cardinality(Among(E, key, Q)) <= SumFunctionOnSet(f, Q)
<1> DEFINE part == [q \in Q |-> Having(E, key, q)]
           G == Among(F, key, Q)
           k == [n \in G |-> key[n]]
<1>1. IsFiniteSet(Q)
  <2>1. IsFiniteSet(G)
    BY FS_Subset DEF Among
  <2>2. k \in Surjection(G, Q)
    BY DEF Surjection, Among, Keys
  <2> HIDE DEF G, k
  <2> QED BY <2>1, <2>2, FS_Surjection
<1>2. ASSUME NEW q \in Q
      PROVE  IsFiniteSet(part[q]) /\ Cardinality(part[q]) <= f[q]
  <2>1. IsFiniteSet(Having(F, key, q))
    BY FS_Subset DEF Having
  <2>2. part[q] \in SUBSET Having(F, key, q)
    BY DEF Having
  <2> HIDE DEF part
  <2> QED BY <2>1, <2>2, FS_Subset
<1>3. Among(E, key, Q) = UNION { part[q] : q \in Q }
  BY DEF Among, Having
<1> HIDE DEF part
<1> QED BY <1>1, <1>2, <1>3, UnionCounted

-----------------------------------------------------------------------------
(* The newest rows.                                                           *)

\* Of k rows, every place from 1 to k is somebody's.
LEMMA PlacesTaken ==
    ASSUME RowsTyped, NEW M \in SUBSET DOMAIN rows, M \subseteq Nat, IsFiniteSet(M),
           NEW i \in 1 .. Cardinality(M)
    PROVE  \E n \in M : Cardinality({ m \in M : Newer(m, n) }) + 1 = i
<1> DEFINE Above(n) == { m \in M : Newer(m, n) }
           place == [n \in M |-> Cardinality(Above(n)) + 1]
           k == Cardinality(M)
<1>1. k \in Nat
  BY FS_CardinalityType
<1>2. \A n \in M : rows[n].ts \in Nat /\ n \in Nat
  BY DEF RowsTyped
<1>3. \A n \in M : IsFiniteSet(Above(n)) /\ Cardinality(Above(n)) \in Nat
  <2> SUFFICES ASSUME NEW n \in M
               PROVE  IsFiniteSet(Above(n)) /\ Cardinality(Above(n)) \in Nat
    OBVIOUS
  <2>1. Above(n) \in SUBSET M
    OBVIOUS
  <2> HIDE DEF Above
  <2> QED BY <2>1, FS_Subset, FS_CardinalityType
<1>4. ASSUME NEW m \in M, NEW n \in M, Newer(m, n)
      PROVE  Cardinality(Above(m)) < Cardinality(Above(n))
  <2>1. m \notin Above(m)
    BY <1>2 DEF Newer
  <2>2. Above(m) \cup {m} \in SUBSET Above(n)
    BY <1>2, <1>4 DEF Newer
  <2> HIDE DEF Above
  <2>3. Cardinality(Above(m) \cup {m}) = Cardinality(Above(m)) + 1
    BY <2>1, <1>3, FS_AddElement
  <2>4. Cardinality(Above(m) \cup {m}) <= Cardinality(Above(n))
    BY <2>2, <1>3, FS_Subset
  <2> QED BY <2>3, <2>4, <1>3
<1>5. \A m, n \in M : m = n \/ Newer(m, n) \/ Newer(n, m)
  BY <1>2 DEF Newer
<1>6. ASSUME NEW n \in M PROVE Cardinality(Above(n)) + 1 \in 1 .. k
  <2>1. n \notin Above(n) /\ Above(n) \cup {n} \in SUBSET M
    BY <1>2 DEF Newer
  <2> HIDE DEF Above
  <2>2. Cardinality(Above(n) \cup {n}) = Cardinality(Above(n)) + 1
    BY <2>1, <1>3, FS_AddElement
  <2>3. Cardinality(Above(n) \cup {n}) <= k
    BY <2>1, FS_Subset
  <2> QED BY <2>2, <2>3, <1>1, <1>3
<1>7. place \in Injection(M, 1 .. k)
  <2>1. place \in [M -> 1 .. k]
    BY <1>6
  <2>2. ASSUME NEW m \in M, NEW n \in M, place[m] = place[n] PROVE m = n
    <3>1. Cardinality(Above(m)) = Cardinality(Above(n))
      <4>1. Cardinality(Above(m)) \in Nat /\ Cardinality(Above(n)) \in Nat
        BY <1>3
      <4>2. Cardinality(Above(m)) + 1 = Cardinality(Above(n)) + 1
        BY <2>2
      <4> HIDE DEF Above
      <4> QED BY <4>1, <4>2
    <3>2. ~ Newer(m, n) /\ ~ Newer(n, m)
      <4> HIDE DEF Above
      <4> QED BY <3>1, <1>3, <1>4
    <3> QED BY <3>2, <1>5
  <2> QED BY <2>1, <2>2 DEF Injection, IsInjective
<1>8. place \in Surjection(M, 1 .. k)
  <2>1. IsFiniteSet(1 .. k) /\ Cardinality(1 .. k) = k
    <3> HIDE DEF k
    <3>1. Cardinality(1 .. k) = IF 1 > k THEN 0 ELSE k - 1 + 1
      BY <1>1, FS_Interval
    <3>2. IsFiniteSet(1 .. k)
      BY <1>1, FS_Interval
    <3> QED BY <3>1, <3>2, <1>1
  <2> HIDE DEF place, k
  <2> QED BY <2>1, <1>7, FS_Injection DEF k
<1> QED BY <1>8 DEF Surjection

\* The rows of a report are rows it matches, the newest first, and there are some
\* if it matches any.
Shows(recent, ids) ==
    /\ \A i \in DOMAIN recent : recent[i] \in ids
    /\ \A i, j \in DOMAIN recent : i < j => rows[recent[i]].ts >= rows[recent[j]].ts
    /\ ids # {} => Len(recent) > 0

LEMMA RecentShows ==
    ASSUME RowsTyped, LogInv
    PROVE  Shows(Recent, Matched)
<1> DEFINE c == Cardinality(Matched)
           k == Min({c, RecentLimit})
           r == Recent
<1>1. /\ Matched \in SUBSET DOMAIN rows /\ Matched \subseteq Nat
      /\ IsFiniteSet(Matched) /\ c \in Nat /\ (c = 0 <=> Matched = {})
  <2>1. DOMAIN rows = 1 .. Len(rows) /\ Len(rows) \in Nat
    BY Appended DEF LogInv
  <2>2. Matched \in SUBSET DOMAIN rows
    BY DEF Matched, Matching
  <2>3. IsFiniteSet(1 .. Len(rows))
    BY <2>1, FS_Interval
  <2>4. IsFiniteSet(Matched)
    BY <2>1, <2>2, <2>3, FS_Subset
  <2> QED BY <2>1, <2>2, <2>4, FS_CardinalityType, FS_EmptySet
<1>2. k \in Nat /\ k <= c /\ (c > 0 => k > 0)
  <2>1. RecentLimit \in Nat \ {0}
    BY UsageAssumption
  <2> HIDE DEF c
  <2>2. k = c \/ k = RecentLimit
    <3>1. \E x \in {c, RecentLimit} : \A y \in {c, RecentLimit} : x <= y
      BY <1>1, <2>1
    <3> QED BY <3>1 DEF Min
  <2>3. k <= c
    <3>1. \E x \in {c, RecentLimit} : \A y \in {c, RecentLimit} : x <= y
      BY <1>1, <2>1
    <3> QED BY <3>1 DEF Min
  <2> QED BY <1>1, <2>1, <2>2, <2>3
<1>3. r = [i \in 1 .. k |-> CHOOSE n \in Matched : Cardinality({ m \in Matched : Newer(m, n) }) + 1 = i]
  BY DEF Recent
<1>4. DOMAIN r = 1 .. k /\ Len(r) = k
  <2> HIDE DEF k
  <2> QED BY <1>2, <1>3
<1>5. ASSUME NEW i \in DOMAIN r
      PROVE  /\ r[i] \in Matched
             /\ Cardinality({ m \in Matched : Newer(m, r[i]) }) + 1 = i
  <2>1. i \in 1 .. c
    <3> HIDE DEF k, c, r
    <3> QED BY <1>1, <1>2, <1>4
  <2>2. \E n \in Matched : Cardinality({ m \in Matched : Newer(m, n) }) + 1 = i
    BY <1>1, <2>1, PlacesTaken
  <2>3. r[i] = CHOOSE n \in Matched : Cardinality({ m \in Matched : Newer(m, n) }) + 1 = i
    BY <1>3, <1>4
  <2> HIDE DEF r
  <2> QED BY <2>2, <2>3
<1>6. ASSUME NEW i \in DOMAIN r, NEW j \in DOMAIN r, i < j
      PROVE  rows[r[i]].ts >= rows[r[j]].ts
  <2> DEFINE a == r[i]
             b == r[j]
             Above(n) == { m \in Matched : Newer(m, n) }
  <2>1. SUFFICES ASSUME rows[a].ts < rows[b].ts PROVE FALSE
    <3>1. rows[a].ts \in Nat /\ rows[b].ts \in Nat
      BY <1>1, <1>5 DEF RowsTyped
    <3> QED BY <3>1
  <2>2. a \in Matched /\ b \in Matched /\ Cardinality(Above(a)) + 1 = i /\ Cardinality(Above(b)) + 1 = j
    BY <1>5
  <2>3. \A n \in Matched : rows[n].ts \in Nat /\ n \in Nat
    BY <1>1 DEF RowsTyped
  <2>4. Above(b) \in SUBSET Above(a)
    BY <2>1, <2>2, <2>3 DEF Newer
  <2>5. IsFiniteSet(Above(a))
    BY <1>1, FS_Subset
  <2>6. Cardinality(Above(b)) <= Cardinality(Above(a))
    <3> HIDE DEF Above, a, b
    <3> QED BY <2>4, <2>5, FS_Subset
  <2>7. IsFiniteSet(Above(b))
    BY <1>1, FS_Subset
  <2>8. Cardinality(Above(a)) \in Nat /\ Cardinality(Above(b)) \in Nat
    <3> HIDE DEF Above, a, b
    <3> QED BY <2>5, <2>7, FS_CardinalityType
  <2> HIDE DEF Above, a, b, r
  <2> QED BY <1>6, <2>2, <2>6, <2>8
<1>7. Matched # {} => Len(r) > 0
  <2> HIDE DEF k, c, r
  <2> QED BY <1>1, <1>2, <1>4
<1> HIDE DEF r
<1>8. Shows(r, Matched)
  BY <1>5, <1>6, <1>7 DEF Shows
<1> QED BY <1>8 DEF r

-----------------------------------------------------------------------------
(* A report while it is loaded.                                               *)

\* What a report matches among the first N rows, and its parts over a set of rows.
Early(N) == Matched \cap 1 .. N
ProvidersOf(ids) ==
    [p \in { rows[n].provider : n \in ids } |-> Totals({ n \in ids : rows[n].provider = p })]
AccountsOf(ids) ==
    [a \in { << rows[n].provider, rows[n].alias >> : n \in ids } |->
        Totals({ n \in ids : << rows[n].provider, rows[n].alias >> = a })]

\* Every part of a report is over the rows matched when it was loaded, in their order;
\* what the panel had heard of before is in the first part already.
LoadedAt(a, b, c) ==
    /\ a <= b /\ b <= c
    /\ report.known \subseteq 0 .. a
    /\ report.summary = Totals(Early(a))
    /\ report.stage \in {"providers", "accounts", "done"} => report.providers = ProvidersOf(Early(b))
    /\ report.stage \in {"accounts", "done"} => report.accounts = AccountsOf(Early(c))
    /\ report.stage = "done" =>
          /\ \A i \in DOMAIN report.recent : report.recent[i] \in DOMAIN rows
          /\ \A i, j \in DOMAIN report.recent :
                i < j => rows[report.recent[i]].ts >= rows[report.recent[j]].ts
          /\ Early(a) # {} => Len(report.recent) > 0

ReportFields == {"stage", "since", "scope", "known", "summary", "providers", "accounts", "recent"}

ReportInv ==
    /\ RowsTyped
    /\ heard \subseteq 0 .. Len(rows)
    /\ report.stage \in {"none", "summary", "providers", "accounts", "done"}
    /\ report.stage # "none" =>
          /\ DOMAIN report = ReportFields
          /\ \E a, b, c \in 0 .. Len(rows) : LoadedAt(a, b, c)


\* Rows that come later change none of it.
LEMMA PartsStable ==
    ASSUME NEW ids \in SUBSET DOMAIN rows, \A n \in ids : rows'[n] = rows[n]
    PROVE  /\ Totals(ids)' = Totals(ids)
           /\ ProvidersOf(ids)' = ProvidersOf(ids)
           /\ AccountsOf(ids)' = AccountsOf(ids)
<1>1. ASSUME NEW J \in SUBSET ids PROVE Totals(J)' = Totals(J)
  BY TotalsStable
<1>2. /\ { rows'[n].provider : n \in ids } = { rows[n].provider : n \in ids }
      /\ { << rows'[n].provider, rows'[n].alias >> : n \in ids }
           = { << rows[n].provider, rows[n].alias >> : n \in ids }
  OBVIOUS
<1>3. /\ \A p : { n \in ids : rows'[n].provider = p } = { n \in ids : rows[n].provider = p }
      /\ \A p : { n \in ids : << rows'[n].provider, rows'[n].alias >> = p }
                  = { n \in ids : << rows[n].provider, rows[n].alias >> = p }
  OBVIOUS
<1>4. ProvidersOf(ids)' = ProvidersOf(ids)
  BY <1>1, <1>2, <1>3 DEF ProvidersOf
<1>5. AccountsOf(ids)' = AccountsOf(ids)
  BY <1>1, <1>2, <1>3 DEF AccountsOf
<1>6. QED
  BY <1>1, <1>4, <1>5

LEMMA LoadedStable ==
    ASSUME LogInv, NEW a \in 0 .. Len(rows), NEW b \in 0 .. Len(rows), NEW c \in 0 .. Len(rows),
           LoadedAt(a, b, c), UNCHANGED report,
           DOMAIN rows \subseteq DOMAIN rows', \A n \in DOMAIN rows : rows'[n] = rows[n]
    PROVE  LoadedAt(a, b, c)'
<1>1. DOMAIN rows = 1 .. Len(rows) /\ Len(rows) \in Nat
  BY Appended DEF LogInv
<1>2. \A N \in 0 .. Len(rows) : Early(N)' = Early(N) /\ Early(N) \subseteq DOMAIN rows
  BY <1>1 DEF Early, Matched, Matching
<1>3. ASSUME NEW N \in 0 .. Len(rows)
      PROVE  /\ Totals(Early(N))' = Totals(Early(N))
             /\ ProvidersOf(Early(N))' = ProvidersOf(Early(N))
             /\ AccountsOf(Early(N))' = AccountsOf(Early(N))
  <2>1. ASSUME NEW ids \in SUBSET DOMAIN rows
        PROVE  /\ Totals(ids)' = Totals(ids)
               /\ ProvidersOf(ids)' = ProvidersOf(ids)
               /\ AccountsOf(ids)' = AccountsOf(ids)
    BY PartsStable
  <2> QED BY <2>1, <1>2
<1>4. report' = report
  OBVIOUS
<1>5. \A i \in DOMAIN report.recent : report.recent[i] \in DOMAIN rows =>
         /\ report.recent[i] \in DOMAIN rows'
         /\ rows'[report.recent[i]] = rows[report.recent[i]]
  OBVIOUS
<1> QED BY <1>2, <1>3, <1>4, <1>5 DEF LoadedAt

\* A row that is stored leaves a report that is being loaded what it is.
RowOk(r) ==
    /\ r.ts \in Nat /\ r.input \in Nat /\ r.write \in Nat
    /\ r.read # None => r.read \in Nat

LEMMA StoreStep ==
    ASSUME LogInv, ReportInv, NEW r, RowOk(r), rows' = Append(rows, r), UNCHANGED << report, heard >>
    PROVE  ReportInv'
<1>1. /\ Len(rows) \in Nat /\ Len(rows') = Len(rows) + 1
      /\ DOMAIN rows = 1 .. Len(rows) /\ DOMAIN rows' = 1 .. Len(rows) + 1
      /\ \A n \in DOMAIN rows : rows'[n] = rows[n]
      /\ rows'[Len(rows) + 1] = r
  BY Appended DEF LogInv
<1>2. RowsTyped'
  <2> SUFFICES ASSUME NEW n \in DOMAIN rows' PROVE RowOk(rows'[n])
    BY DEF RowsTyped, RowOk
  <2>1. CASE n \in DOMAIN rows
    BY <2>1, <1>1 DEF ReportInv, RowsTyped, RowOk
  <2>2. CASE n = Len(rows) + 1
    BY <2>2, <1>1
  <2> QED BY <2>1, <2>2, <1>1
<1>3. heard' \subseteq 0 .. Len(rows')
  BY <1>1 DEF ReportInv
<1>4. ASSUME report.stage # "none"
      PROVE  \E a, b, c \in 0 .. Len(rows') : LoadedAt(a, b, c)'
  <2>1. PICK a \in 0 .. Len(rows), b \in 0 .. Len(rows), c \in 0 .. Len(rows) : LoadedAt(a, b, c)
    BY <1>4 DEF ReportInv
  <2>2. DOMAIN rows \subseteq DOMAIN rows' /\ UNCHANGED report
    BY <1>1
  <2>3. LoadedAt(a, b, c)'
    BY <2>1, <2>2, <1>1, LoadedStable
  <2>4. a \in 0 .. Len(rows') /\ b \in 0 .. Len(rows') /\ c \in 0 .. Len(rows')
    BY <1>1
  <2> QED BY <2>3, <2>4
<1> QED BY <1>2, <1>3, <1>4 DEF ReportInv

\* Loading reads all rows there are.
LEMMA LoadStep ==
    ASSUME LogInv, ReportInv, Load
    PROVE  ReportInv'
<1>1. PICK L \in Nat : L = Len(rows) /\ DOMAIN rows = 1 .. L
  BY Appended DEF LogInv
<1>2. Matched = Early(L) /\ Early(L) \in SUBSET DOMAIN rows
  BY <1>1 DEF Early, Matched, Matching
<1>3. rows' = rows /\ heard' = heard
  BY DEF Load, LoadRest, LoadNext, LoadSummary, tables, memory
<1>4. ASSUME NEW ids \in SUBSET DOMAIN rows
      PROVE  /\ Totals(ids)' = Totals(ids)
             /\ ProvidersOf(ids)' = ProvidersOf(ids)
             /\ AccountsOf(ids)' = AccountsOf(ids)
  BY <1>3, PartsStable
<1>5. RowsTyped' /\ heard' \subseteq 0 .. Len(rows')
  BY <1>3 DEF ReportInv, RowsTyped
<1>6. ASSUME NEW s \in Scopes, NEW w \in BOOLEAN, LoadSummary(s, w) PROVE ReportInv'
  <2> DEFINE since == IF w THEN clock - Window ELSE None
  <2>1. report' = [stage |-> "summary", since |-> since, scope |-> s, known |-> heard,
                   summary |-> Totals(Matching(since, s)),
                   providers |-> <<>>, accounts |-> <<>>, recent |-> <<>>]
    BY <1>6 DEF LoadSummary
  <2> HIDE DEF since
  <2>2. /\ DOMAIN report' = ReportFields
        /\ report'.stage = "summary" /\ report'.known = heard
        /\ report'.since = since /\ report'.scope = s
        /\ report'.summary = Totals(Matching(since, s))
    BY <2>1 DEF ReportFields
  <2>3. Early(L)' = Matching(since, s) /\ Matching(since, s) \in SUBSET DOMAIN rows
    BY <2>2, <1>1, <1>3 DEF Early, Matched, Matching
  <2>4. report'.summary = Totals(Early(L))'
    BY <2>2, <2>3, <1>4
  <2>5. LoadedAt(L, L, L)'
    BY <2>2, <2>4, <1>1, <1>3 DEF LoadedAt, ReportInv
  <2> QED BY <2>2, <2>5, <1>1, <1>3, <1>5 DEF ReportInv
<1>7. ASSUME LoadRest PROVE ReportInv'
  <2>1. report.stage \in {"summary", "providers", "accounts"}
    BY <1>7 DEF LoadRest, LoadNext
  <2>2. PICK a \in 0 .. L, b \in 0 .. L, c \in 0 .. L : LoadedAt(a, b, c)
    BY <2>1, <1>1 DEF ReportInv
  <2>3. DOMAIN report = ReportFields
    BY <2>1 DEF ReportInv
  <2>4. ASSUME NEW N \in 0 .. L, \A f \in {"since", "scope"} : report'[f] = report[f]
        PROVE  /\ Early(N)' = Early(N) /\ Early(N) \in SUBSET DOMAIN rows
    BY <2>4, <1>1, <1>3 DEF Early, Matched, Matching
  <2>5. CASE report.stage = "summary"
    <3>1. report' = [report EXCEPT !.stage = "providers", !.providers = ByProvider]
      BY <1>7, <2>5 DEF LoadRest, LoadNext
    <3>2. /\ DOMAIN report' = ReportFields
          /\ report'.stage = "providers" /\ report'.providers = ByProvider
          /\ \A f \in ReportFields \ {"stage", "providers"} : report'[f] = report[f]
      BY <3>1, <2>3 DEF ReportFields
    <3>3. \A f \in {"since", "scope"} : report'[f] = report[f]
      BY <3>2 DEF ReportFields
    <3>4. report'.summary = Totals(Early(a))' /\ report'.known \subseteq 0 .. a
      BY <3>2, <3>3, <2>4, <1>4, <2>2 DEF LoadedAt, ReportFields
    <3>5. report'.providers = ProvidersOf(Early(L))'
      <4>1. ByProvider = ProvidersOf(Early(L))
        BY <1>2 DEF ByProvider, ProvidersOf
      <4> QED BY <4>1, <3>2, <3>3, <2>4, <1>4, <1>1
    <3>6. LoadedAt(a, L, L)'
      BY <3>2, <3>4, <3>5, <1>1 DEF LoadedAt
    <3> QED BY <3>2, <3>6, <1>1, <1>3, <1>5 DEF ReportInv
  <2>6. CASE report.stage = "providers"
    <3>1. report' = [report EXCEPT !.stage = "accounts", !.accounts = ByAccount]
      BY <1>7, <2>6 DEF LoadRest, LoadNext
    <3>2. /\ DOMAIN report' = ReportFields
          /\ report'.stage = "accounts" /\ report'.accounts = ByAccount
          /\ \A f \in ReportFields \ {"stage", "accounts"} : report'[f] = report[f]
      BY <3>1, <2>3 DEF ReportFields
    <3>3. \A f \in {"since", "scope"} : report'[f] = report[f]
      BY <3>2 DEF ReportFields
    <3>4. /\ report'.summary = Totals(Early(a))' /\ report'.known \subseteq 0 .. a
          /\ report'.providers = ProvidersOf(Early(b))'
      BY <3>2, <3>3, <2>4, <1>4, <2>2, <2>6 DEF LoadedAt, ReportFields
    <3>5. report'.accounts = AccountsOf(Early(L))'
      <4>1. ByAccount = AccountsOf(Early(L))
        BY <1>2 DEF ByAccount, AccountsOf
      <4> QED BY <4>1, <3>2, <3>3, <2>4, <1>4, <1>1
    <3>6. LoadedAt(a, b, L)'
      BY <3>2, <3>4, <3>5, <1>1, <2>2 DEF LoadedAt
    <3> QED BY <3>2, <3>6, <1>1, <1>3, <1>5 DEF ReportInv
  <2>7. CASE report.stage = "accounts"
    <3>1. report' = [report EXCEPT !.stage = "done", !.recent = Recent]
      BY <1>7, <2>7 DEF LoadRest, LoadNext
    <3>2. /\ DOMAIN report' = ReportFields
          /\ report'.stage = "done" /\ report'.recent = Recent
          /\ \A f \in ReportFields \ {"stage", "recent"} : report'[f] = report[f]
      BY <3>1, <2>3 DEF ReportFields
    <3>3. \A f \in {"since", "scope"} : report'[f] = report[f]
      BY <3>2 DEF ReportFields
    <3>4. /\ report'.summary = Totals(Early(a))' /\ report'.known \subseteq 0 .. a
          /\ report'.providers = ProvidersOf(Early(b))'
          /\ report'.accounts = AccountsOf(Early(c))'
      BY <3>2, <3>3, <2>4, <1>4, <2>2, <2>7 DEF LoadedAt, ReportFields
    <3>5. Shows(Recent, Matched)
      BY RecentShows DEF ReportInv
    <3>6. /\ \A i \in DOMAIN report'.recent : report'.recent[i] \in DOMAIN rows'
          /\ \A i, j \in DOMAIN report'.recent :
                i < j => rows'[report'.recent[i]].ts >= rows'[report'.recent[j]].ts
      BY <3>2, <3>5, <1>2, <1>3 DEF Shows
    <3>7. Early(a)' # {} => Len(report'.recent) > 0
      <4>1. Early(a)' \subseteq Matched
        BY <2>4, <3>3 DEF Early
      <4> QED BY <4>1, <3>2, <3>5 DEF Shows
    <3>8. LoadedAt(a, b, c)'
      BY <3>2, <3>4, <3>6, <3>7, <2>2 DEF LoadedAt
    <3> QED BY <3>2, <3>8, <1>1, <1>3, <1>5 DEF ReportInv
  <2> QED BY <2>1, <2>5, <2>6, <2>7
<1> QED BY <1>6, <1>7 DEF Load

\* A finished report agrees with itself.
LEMMA LoadedConsistent ==
    ASSUME LogInv, ReportInv
    PROVE  ReportConsistent
<1> SUFFICES ASSUME report.stage = "done" PROVE ReportConsistent
  BY DEF ReportConsistent
<1>1. DOMAIN rows = 1 .. Len(rows) /\ Len(rows) \in Nat
  BY Appended DEF LogInv
<1>2. PICK a \in 0 .. Len(rows), b \in 0 .. Len(rows), c \in 0 .. Len(rows) : LoadedAt(a, b, c)
  BY DEF ReportInv
<1> DEFINE A == Early(a)
           B == Early(b)
           C == Early(c)
<1>3. /\ A \subseteq B /\ B \subseteq C /\ C \in SUBSET DOMAIN rows
      /\ B \in SUBSET DOMAIN rows /\ A \in SUBSET DOMAIN rows
      /\ C \subseteq Matched
  BY <1>1, <1>2 DEF LoadedAt, Early, Matched, Matching
<1>4. IsFiniteSet(A) /\ IsFiniteSet(B) /\ IsFiniteSet(C)
  <2>1. IsFiniteSet(DOMAIN rows)
    BY <1>1, FS_Interval
  <2> HIDE DEF A, B, C
  <2> QED BY <2>1, <1>3, FS_Subset
<1>5. /\ report.summary = Totals(A)
      /\ report.providers = ProvidersOf(B) /\ report.accounts = AccountsOf(C)
      /\ report.known \subseteq 0 .. a
      /\ \A i, j \in DOMAIN report.recent :
            i < j => rows[report.recent[i]].ts >= rows[report.recent[j]].ts
      /\ A # {} => Len(report.recent) > 0
  BY <1>2 DEF LoadedAt
<1>6. RowsTyped
  BY DEF ReportInv
<1> HIDE DEF A, B, C
<1>7. \A ids \in SUBSET C : /\ Totals(ids).requests = Cardinality(ids)
                             /\ Cardinality(ids) \in Nat /\ Fits(Totals(ids))
  <2> SUFFICES ASSUME NEW ids \in SUBSET C
               PROVE  /\ Totals(ids).requests = Cardinality(ids)
                      /\ Cardinality(ids) \in Nat /\ Fits(Totals(ids))
    OBVIOUS
  <2>1. IsFiniteSet(ids) /\ ids \in SUBSET DOMAIN rows /\ ids \subseteq Matched
    BY <1>3, <1>4, FS_Subset
  <2> QED BY <2>1, <1>6, TotalsFit
<1> DEFINE P == { rows[n].provider : n \in B }
           K == { << rows[n].provider, rows[n].alias >> : n \in C }
<1>8. /\ DOMAIN report.providers = P
      /\ \A p \in P : report.providers[p] = Totals({ n \in B : rows[n].provider = p })
  BY <1>5 DEF ProvidersOf
<1>9. /\ DOMAIN report.accounts = K
      /\ \A k \in K : report.accounts[k]
                        = Totals({ n \in C : << rows[n].provider, rows[n].alias >> = k })
  BY <1>5 DEF AccountsOf
<1>10. report.summary.requests <= SumOf(P, LAMBDA x : report.providers[x].requests)
  <2> DEFINE key == [n \in B |-> rows[n].provider]
             f == [p \in P |-> report.providers[p].requests]
  <2>1. ASSUME NEW p \in P PROVE f[p] = Cardinality(Having(B, key, p)) /\ f[p] \in Int
    <3>1. Having(B, key, p) = { n \in B : rows[n].provider = p } /\ Having(B, key, p) \in SUBSET C
      BY <1>3 DEF Having
    <3>2. f[p] = Totals(Having(B, key, p)).requests
      BY <1>8, <3>1
    <3> HIDE DEF f, key
    <3> QED BY <3>1, <3>2, <1>7
  <2>2. P \subseteq Keys(B, key)
    BY DEF Keys
  <2>3. Among(A, key, P) = A
    BY <1>3 DEF Among
  <2>4. SumOf(P, LAMBDA x : report.providers[x].requests) = SumFunctionOnSet(f, P)
    BY DEF SumOf
  <2>5. f \in [P -> Int]
    BY <2>1
  <2> HIDE DEF P, key, f
  <2>6. Cardinality(Among(A, key, P)) <= SumFunctionOnSet(f, P)
    BY <2>1, <2>2, <2>5, <1>3, <1>4, Covered
  <2>7. report.summary.requests = Cardinality(A)
    BY <1>3, <1>5, <1>7
  <2> QED BY <2>3, <2>4, <2>6, <2>7
<1>11. ASSUME NEW p \in P
       PROVE  /\ Fits(report.providers[p])
              /\ report.providers[p].requests
                    <= SumOf({ k \in K : k[1] = p }, LAMBDA x : report.accounts[x].requests)
  <2> DEFINE E == { n \in B : rows[n].provider = p }
             key == [n \in C |-> << rows[n].provider, rows[n].alias >>]
             Q == { k \in K : k[1] = p }
             f == [k \in Q |-> report.accounts[k].requests]
  <2>1. E \in SUBSET C /\ E \subseteq C
    BY <1>3
  <2>2. report.providers[p] = Totals(E)
    BY <1>8
  <2>3. report.providers[p].requests = Cardinality(E) /\ Fits(report.providers[p])
    <3> HIDE DEF E
    <3> QED BY <2>1, <2>2, <1>7
  <2>4. ASSUME NEW k \in Q PROVE f[k] = Cardinality(Having(C, key, k)) /\ f[k] \in Int
    <3>1. /\ Having(C, key, k) = { n \in C : << rows[n].provider, rows[n].alias >> = k }
          /\ Having(C, key, k) \in SUBSET C
      BY DEF Having
    <3>2. f[k] = Totals(Having(C, key, k)).requests
      BY <1>9, <3>1
    <3> HIDE DEF f, key
    <3> QED BY <3>1, <3>2, <1>7
  <2>5. Q \subseteq Keys(C, key)
    BY DEF Keys
  <2>6. Among(E, key, Q) = E
    <3> SUFFICES ASSUME NEW n \in E PROVE key[n] \in Q
      BY DEF Among
    <3>1. n \in C /\ rows[n].provider = p
      BY <2>1
    <3>2. key[n] = << p, rows[n].alias >> /\ key[n] \in K
      BY <3>1
    <3>3. key[n][1] = p
      BY <3>2
    <3> HIDE DEF key, K
    <3> QED BY <3>2, <3>3
  <2>7. SumOf(Q, LAMBDA x : report.accounts[x].requests) = SumFunctionOnSet(f, Q)
    BY DEF SumOf
  <2>8. f \in [Q -> Int]
    BY <2>4
  <2> HIDE DEF E, Q, key, f
  <2>9. Cardinality(Among(E, key, Q)) <= SumFunctionOnSet(f, Q)
    BY <2>1, <2>4, <2>5, <2>8, <1>4, Covered
  <2> QED BY <2>3, <2>6, <2>7, <2>9 DEF Q
<1>12. Fits(report.summary) /\ (report.summary.requests > 0 => Len(report.recent) > 0)
  <2>1. A \in SUBSET C
    BY <1>3
  <2>2. report.summary.requests = Cardinality(A) /\ Fits(report.summary)
    BY <2>1, <1>5, <1>7
  <2>3. Cardinality(A) > 0 => A # {}
    BY FS_EmptySet
  <2> QED BY <2>2, <2>3, <1>5
<1>13. Cardinality(report.known \cap Matched) <= report.summary.requests
  <2>1. report.known \cap Matched \in SUBSET A
    BY <1>1, <1>2, <1>5 DEF A, Early, Matched, Matching
  <2>2. Cardinality(report.known \cap Matched) <= Cardinality(A)
    BY <2>1, <1>4, FS_Subset
  <2>3. A \in SUBSET C
    BY <1>3
  <2> QED BY <2>2, <2>3, <1>5, <1>7
<1>14. ASSUME NEW k \in K PROVE Fits(report.accounts[k])
  <2> DEFINE ids == { n \in C : << rows[n].provider, rows[n].alias >> = k }
  <2>1. ids \in SUBSET C /\ report.accounts[k] = Totals(ids)
    BY <1>9
  <2> HIDE DEF ids
  <2> QED BY <2>1, <1>7
<1> HIDE DEF P, K
<1>15. QED
  BY <1>5, <1>8, <1>9, <1>10, <1>11, <1>12, <1>13, <1>14 DEF ReportConsistent

-----------------------------------------------------------------------------
(* The theorem.                                                               *)

\* It holds before anything is recorded.
LEMMA ReportInit ==
    ASSUME Init
    PROVE  ReportInv
<1>1. DOMAIN rows = {} /\ Len(rows) = 0 /\ heard = {}
  BY EmptySeq DEF Init
<1>2. report.stage = "none"
  BY DEF Init, NoReport
<1> QED BY <1>1, <1>2 DEF ReportInv, RowsTyped

\* Every step of the proxy, of a panel and of other processes keeps it.
LEMMA ReportStep ==
    ASSUME BoundsInv, HandlerInv, LogInv, ReportInv, [Next]_vars
    PROVE  ReportInv'
<1>1. ASSUME UNCHANGED << rows, report, heard >> PROVE ReportInv'
  <2>1. rows' = rows /\ report' = report /\ heard' = heard
    BY <1>1
  <2>2. RowsTyped' /\ heard' \subseteq 0 .. Len(rows')
    BY <2>1 DEF ReportInv, RowsTyped
  <2>3. ASSUME report.stage # "none"
        PROVE  \E a, b, c \in 0 .. Len(rows') : LoadedAt(a, b, c)'
    <3>1. PICK a \in 0 .. Len(rows), b \in 0 .. Len(rows), c \in 0 .. Len(rows) : LoadedAt(a, b, c)
      BY <2>3 DEF ReportInv
    <3>2. LoadedAt(a, b, c)'
      BY <3>1, <2>1, LoadedStable
    <3> QED BY <3>2, <2>1
  <2> QED BY <2>1, <2>2, <2>3 DEF ReportInv
<1>2. ASSUME NEW h \in Handler, Insert(h) PROVE ReportInv'
  <2>1. job[h].outcome \in Outcomes
    BY <1>2 DEF Insert, HandlerInv
  <2>2. RowOk(Row(job[h]))
    BY <2>1, TokensAssumption DEF RowOk, Row, BoundsInv
  <2>3. rows' = Append(rows, Row(job[h])) /\ UNCHANGED << report, heard >>
    BY <1>2 DEF Insert, memory
  <2> QED BY <2>2, <2>3, StoreStep
<1>3. ASSUME OtherRecords PROVE ReportInv'
  <2> DEFINE r == [MissingRow EXCEPT !.ts = clock]
  <2>1. RowOk(r)
    BY UsageAssumption, TokensAssumption DEF RowOk, BoundsInv
  <2>2. rows' = Append(rows, r) /\ UNCHANGED << report, heard >>
    BY <1>3 DEF OtherRecords, memory
  <2> HIDE DEF r
  <2> QED BY <2>1, <2>2, StoreStep
<1>4. ASSUME Receive PROVE ReportInv'
  <2>1. rows' = rows /\ report' = report
    BY <1>4 DEF Receive, tables
  <2>2. heard' \subseteq 0 .. Len(rows)
    <3>1. /\ cursor < Len(events) => events[cursor + 1] \in 0 .. Len(rows)
      <4>1. DOMAIN rows = 1 .. Len(rows) /\ Len(rows) \in Nat /\ DOMAIN events = 1 .. Len(events)
            /\ Len(events) \in Nat
        BY Appended DEF LogInv
      <4> QED BY <4>1 DEF LogInv, LimitsEvent
    <3> QED BY <3>1, <1>4 DEF Receive, ReportInv
  <2>3. RowsTyped'
    BY <2>1 DEF ReportInv, RowsTyped
  <2>4. ASSUME report.stage # "none"
        PROVE  \E a, b, c \in 0 .. Len(rows') : LoadedAt(a, b, c)'
    <3>1. PICK a \in 0 .. Len(rows), b \in 0 .. Len(rows), c \in 0 .. Len(rows) : LoadedAt(a, b, c)
      BY <2>4 DEF ReportInv
    <3>2. LoadedAt(a, b, c)'
      BY <3>1, <2>1, LoadedStable
    <3> QED BY <3>2, <2>1
  <2> QED BY <2>1, <2>2, <2>3, <2>4 DEF ReportInv
<1>5. ASSUME Load PROVE ReportInv'
  BY <1>5, LoadStep
<1>6. ASSUME NEW h \in Handler, Handle(h), ~ Insert(h) PROVE UNCHANGED << rows, report, heard >>
  BY <1>6 DEF Handle, Observe, Answered, SendFails, RecordQuota, InsertFails, Publish, tables, memory
<1>7. ASSUME NEW p \in Poller, Refresh(p) PROVE UNCHANGED << rows, report, heard >>
  BY <1>7 DEF Refresh, Poll, EnterRefresh, LoadCache, FetchFails, Save, GoAway, SaveLeft, FetchOk, tables, memory
<1>8. ASSUME \/ Tick \/ UNCHANGED vars
             \/ \E o \in left.outcomes : o.limits # None /\ OtherQuota(o.limits)
             \/ \E a \in Answers : OtherSaves(a)
      PROVE  UNCHANGED << rows, report, heard >>
  BY <1>8 DEF Tick, OtherQuota, OtherSaves, vars, tables, memory
<1>9. QED
  BY <1>1, <1>2, <1>3, <1>4, <1>5, <1>6, <1>7, <1>8 DEF Next, Others

\* However rows are written while a report is loaded, its parts agree: none counts a
\* request an earlier one does not, the accounts of a provider carry all of its
\* requests, hits and cached tokens fit, exactly when the rows' own counts do, and no
\* row the panel had heard of is missing.
THEOREM ReportsAreConsistent == Spec => []ReportConsistent
<1>1. Init => ReportInv
  BY ReportInit
<1>2. UsageInv /\ ReportInv /\ [Next]_vars => ReportInv'
  BY ReportStep DEF UsageInv, TypeInv, RecordInv
<1>3. UsageInv /\ ReportInv => ReportConsistent
  BY LoadedConsistent DEF UsageInv, RecordInv
<1>4. QED
  BY <1>1, <1>2, <1>3, Invariance, PTL DEF Spec
=============================================================================
