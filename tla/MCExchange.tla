---------------------------- MODULE MCExchange ----------------------------
EXTENDS Exchange

MCConns == [cl : Formats, up : Formats]

Base == [system |-> << Part("text", <<1>>), Part("text", <<2>>) >>,
         tools |-> << Part("function", 1), Part("function", 2) >>,
         stop |-> TRUE, max |-> 0, effort |-> 0, active |-> 0, pin |-> 3,
         session |-> TRUE, policy |-> "static"]

(* A plain conversation, and one with a server-side tool, an effort of the  *)
(* client's own, no system prompt and no cache policy.                      *)
MCSettings ==
    { Base,
      [Base EXCEPT !.system = <<>>, !.tools = << Part("web", 1), Part("function", 2) >>,
                   !.max = 100, !.effort = 5, !.active = 2, !.session = FALSE,
                   !.policy = "preserve"] }
=============================================================================
