----------------------------- MODULE MCStream -----------------------------
(* All nine pairs of formats; answers of two parts and two pieces reach every *)
(* change of kind, parallel tool calls and an empty block.                     *)
EXTENDS Stream

MCConns == [up : Formats, cl : Formats]
MCCuts == { [up |-> "anthropic", cl |-> "responses"] }

Report(i, o, r) == [input |-> i, output |-> o, read |-> r, write |-> 0]

(* A cached prompt whose counts come early, and a report that is all at the end. *)
Early == [first |-> Report(2, 1, 3), final |-> Report(0, 4, None)]
Late == [first |-> NoUsage, final |-> Report(1, 1, None)]
MCUsages == [anthropic |-> {Early}, openai |-> {Early, Late}, responses |-> {Late}]

MCStops == [anthropic |-> {"end_turn", "tool_use", "max_tokens"},
            openai |-> {"stop", "tool_calls", "length"},
            responses |-> {"completed", "max_tokens"}]
=============================================================================
