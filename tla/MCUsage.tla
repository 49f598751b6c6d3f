------------------------------ MODULE MCUsage ------------------------------
EXTENDS Usage

Ask(s, format, model, prefix) ==
    [session |-> s, provider |-> "p", alias |-> "work", model |-> model, format |-> format,
     marked |-> FALSE, prefix |-> prefix, key |-> None, effort |-> None]

\* A session that changes its prompt, another one, and a client without a session.
First == Ask("s", "anthropic", "m", "a")
Changed == Ask("s", "anthropic", "n", "b")
Second == [Ask("t", "responses", "m", "a") EXCEPT !.effort = "high"]
Bare == Ask("", "openai", "m", "b")
Bare2 == Ask("", "openai", "n", "a")
MCRequests == { First, Changed, Second, Bare, Bare2 }

Outcome(status, input, read, write, headers) ==
    [status |-> status, input |-> input, read |-> read, write |-> write, limits |-> headers]
Hit == Outcome(200, 5, 2, 1, None)
Refused == Outcome(429, 1, None, 2, [five |-> 90, week |-> 50])
Untold == Outcome(200, 1, None, 2, None)
\* An upstream that does not count cached tokens as input.
Beyond == Outcome(200, 1, 3, 0, None)
MCOutcomes == { Hit, Refused, Untold, Beyond }

MCAnswers == { [five |-> 80, week |-> 40, month |-> 7] }

Budget(q, p, r, t, o, asks, outcomes) ==
    [requests |-> q, polls |-> p, reports |-> r, time |-> t, outside |-> o,
     asks |-> asks, outcomes |-> outcomes]

\* Sessions that push each other out of the map; a report while requests end; panels that
\* poll the quota while answers and other processes update it.
MCBudgets ==
    { Budget(3, 0, 0, 0, 0, {First, Changed, Second}, {Hit}),
      Budget(2, 0, 1, 1, 0, {Second}, {Hit, Untold, Beyond}),
      Budget(2, 0, 0, 0, 0, {Second, Bare, Bare2}, {Hit, Refused}),
      Budget(1, 2, 0, 2, 0, {Second}, {Refused}),
      Budget(0, 2, 0, 2, 1, {}, {Refused}),
      Budget(1, 0, 1, 1, 1, {First, Bare}, {Hit}) }

MCMissingRow ==
    [ts |-> 0, session |-> "t", provider |-> "p", alias |-> "home", input |-> 1, read |-> 0,
     write |-> 0, status |-> 200, diagnostics |-> {}, request |-> None, before |-> None,
     lost |-> FALSE]
=============================================================================
