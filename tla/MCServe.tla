------------------------------ MODULE MCServe ------------------------------
EXTENDS Serve

\* p lists its models only when asked; q has a list of its own, one name in
\* it qualified already, and an auto model.
MCBase ==
    [providers |-> << [name |-> "p", models |-> <<>>, auto |-> NoModel],
                      [name |-> "q", models |-> << <<"m">>, <<"q", "/", "n">> >>, auto |-> <<"m">>] >>,
     routes |-> << [model |-> <<"claude">>, provider |-> "q", prefix |-> TRUE,
                    upstream |-> <<"m">>, effort |-> "low"] >>,
     provider |-> "p", model |-> NoModel, effort |-> NoEffort]

Plain == [providers |-> <<>>, routes |-> <<>>, provider |-> NoProvider,
          model |-> NoModel, effort |-> NoEffort]

\* An empty file; one that reroutes a qualified name, shadows the catalog's
\* route, has a route with the hint in its name, names a provider twice and
\* selects the model and effort that the commands ask for; one with a route to nowhere.
MCOverlays ==
    { Plain,
      [Plain EXCEPT !.providers = << [name |-> "r", models |-> << <<"m">> >>, auto |-> NoModel],
                                     [name |-> "r", models |-> << <<"a", Hint>> >>, auto |-> <<"a">>] >>,
                    !.routes = << [model |-> <<"q", "/", "m">>, provider |-> "p", prefix |-> FALSE,
                                   upstream |-> NoModel, effort |-> NoEffort],
                                  [model |-> <<"claude">>, provider |-> "p", prefix |-> FALSE,
                                   upstream |-> NoModel, effort |-> NoEffort],
                                  [model |-> <<"r", Hint>>, provider |-> "r", prefix |-> FALSE,
                                   upstream |-> NoModel, effort |-> NoEffort] >>,
                    !.model = <<"q", "/", "m">>, !.effort = "high"],
      [Plain EXCEPT !.routes = << [model |-> <<"x">>, provider |-> "r", prefix |-> FALSE,
                                   upstream |-> NoModel, effort |-> NoEffort] >>] }

\* An upstream's own "auto" model among those it reports.
MCReports == { [p |-> << <<"c">>, <<"p", "/", "auto">> >>, q |-> <<>>] }

\* A session with a choice of accounts; an instance launched for one model, whose
\* provider has one account to lose, with a reload to come that requests can
\* overtake.  p can be gained in both.
MCStarts ==
    { [stored |-> [p |-> {}, q |-> {"default", "work"}],
       launch |-> [override |-> NoModel, enforce |-> FALSE], touched |-> FALSE],
      [stored |-> [p |-> {}, q |-> {"default"}],
       launch |-> [override |-> <<"q", "/", "m">>, enforce |-> TRUE],
       touched |-> TRUE] }

ChatOf(s, m, a) == [kind |-> "chat", session |-> s, model |-> m, header |-> a]

MCRequests ==
    { ChatOf("s", NoModel, NoAlias),
      ChatOf(NoSession, <<"claude", "x">>, "work"),
      [kind |-> "account", session |-> "s", provider |-> "q", alias |-> "work"],
      [kind |-> "model", session |-> NoSession, value |-> <<"q", "/", "m">>],
      [kind |-> "effort", session |-> "s", value |-> "high"],
      [kind |-> "pin", session |-> "s", provider |-> "q", alias |-> "work"],
      [kind |-> "unpin", session |-> "s", provider |-> "q"] }
=============================================================================
