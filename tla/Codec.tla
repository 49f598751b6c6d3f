------------------------------- MODULE Codec -------------------------------
(***************************************************************************)
(* The request half of the intermediate representation: how each wire      *)
(* format's conversation is decoded to IR turns and encoded from them, and *)
(* what is done to a request before it leaves (domain/ir/*.rs,             *)
(* domain/request.rs, domain/cache.rs, domain/translate.rs).               *)
(*                                                                         *)
(* A part of a turn is [k, x, mark]: text (x a sequence of words), image,  *)
(* call and result (x the call's id, image when its content shows one      *)
(* beside its text), thinking (reasoning with Anthropic's signature) and   *)
(* reasoning (without); mark is a cache breakpoint.  A wire                *)
(* message is [role, content] in every format: a Chat Completions `tool`   *)
(* message and the Responses items `function_call` (role "call") and       *)
(* `function_call_output` (role "tool") carry one part.                    *)
(***************************************************************************)
EXTENDS Integers, Sequences, FiniteSets, SequencesExt

Formats == {"anthropic", "openai", "responses"}

Part(k, x) == [k |-> k, x |-> x, mark |-> FALSE]
Result(x, image) == [k |-> "result", x |-> x, image |-> image, mark |-> FALSE]
Msg(role, content) == [role |-> role, content |-> content]

OfKind(parts, kinds) == SelectSeq(parts, LAMBDA p : p.k \in kinds)
Texts(parts) == OfKind(parts, {"text"})
Calls(parts) == OfKind(parts, {"call"})
Marked(parts) == \E n \in DOMAIN parts : parts[n].mark

(* The words of all text parts; sep is the line break put between them.     *)
Break == 0
Joined(parts, sep) ==
    LET t == Texts(parts)
    IN  FlattenSeq([n \in DOMAIN t |-> (IF n = 1 THEN <<>> ELSE sep) \o t[n].x])

TextOf(words) == IF words = <<>> THEN <<>> ELSE << Part("text", words) >>

\* Mutant: any turn of the same role is merged with the one before.
PushMerging(turns, role, parts) ==
    IF parts = <<>> THEN turns
    ELSE IF turns # <<>> /\ Last(turns).role = role
         THEN [turns EXCEPT ![Len(turns)].content = @ \o parts]
         ELSE Append(turns, Msg(role, parts))

\* Mutant: no turn is merged.
PushApart(turns, role, parts) ==
    IF parts = <<>> THEN turns ELSE Append(turns, Msg(role, parts))

(* push_message: tool calls and tool results join a turn of the same role.  *)
Push(turns, role, parts) ==
    IF parts = <<>> THEN turns
    ELSE IF turns # <<>> /\ Last(turns).role = role /\ OfKind(parts, {"call", "result"}) = parts
         THEN [turns EXCEPT ![Len(turns)].content = @ \o parts]
         ELSE Append(turns, Msg(role, parts))

-----------------------------------------------------------------------------
(* Requests.  The same record serves a wire request and its IR form:        *)
(* max = 0, effort = 0 and store = "absent" stand for missing fields, effort *)
(* runs from 1 (minimal) to 5 (max).                                        *)

DefaultMaxTokens == 4096

AsLowMediumHigh(e) == CASE e = 0 -> 0 [] e <= 2 -> 2 [] e = 3 -> 3 [] e >= 4 -> 4

(* The IR keeps the text of a result; an image in it is dropped.            *)
ResultText(parts) ==
    [n \in DOMAIN parts |->
        IF parts[n].k = "result" THEN [parts[n] EXCEPT !.image = FALSE] ELSE parts[n]]

DecodeAnthropicMessages(messages) ==
    [n \in DOMAIN messages |->
        Msg(IF messages[n].role = "tool" THEN "user" ELSE messages[n].role,
            ResultText(messages[n].content))]

DecodeOpenAIMessages(messages) ==
    LET Add(turns, m) ==
            CASE m.role = "user" -> Push(turns, "user", OfKind(m.content, {"text", "image"}))
              [] m.role = "assistant" ->
                    Push(turns, "assistant", OfKind(m.content, {"reasoning"})
                         \o TextOf(Joined(m.content, <<>>)) \o Calls(m.content))
              [] m.role = "tool" -> Push(turns, "user", ResultText(m.content))
              [] OTHER -> turns
    IN  FoldLeft(Add, <<>>, messages)

DecodeInput(items) ==
    LET Add(turns, m) ==
            CASE m.role = "call" -> Push(turns, "assistant", m.content)
              [] m.role = "tool" -> Push(turns, "user", ResultText(m.content))
              [] m.role = "system" -> turns
              [] OTHER -> Push(turns, m.role, OfKind(m.content, {"text", "image"}))
    IN  FoldLeft(Add, <<>>, items)

SystemOf(messages) ==
    FlattenSeq([n \in DOMAIN messages |->
        IF messages[n].role = "system" THEN TextOf(Joined(messages[n].content, <<>>)) ELSE <<>>])

WithMax(w) == [w EXCEPT !.max = IF @ = 0 THEN DefaultMaxTokens ELSE @]

DecodeAnthropic(w) ==
    WithMax([w EXCEPT !.system = Texts(@), !.messages = DecodeAnthropicMessages(@)])

DecodeOpenAI(w) ==
    [w EXCEPT !.system = SystemOf(w.messages), !.messages = DecodeOpenAIMessages(@),
              !.tools = SelectSeq(@, LAMBDA t : t.k = "function")]

DecodeResponses(w) ==
    [w EXCEPT !.system = TextOf(Joined(w.system, <<>>)) \o SystemOf(w.messages),
              !.messages = DecodeInput(@), !.stop = FALSE]

DecodeRequest(f, w) ==
    CASE f = "anthropic" -> DecodeAnthropic(w)
      [] f = "openai" -> DecodeOpenAI(w)
      [] f = "responses" -> DecodeResponses(w)

(* Empty text is dropped, and thinking without its signature.               *)
EncodeBlocks(parts) ==
    SelectSeq(parts, LAMBDA p : p.k # "reasoning" /\ ~(p.k = "text" /\ p.x = <<>>))

\* Mutant: a turn that lost all its blocks is still sent.
EncodeAnthropicMessagesEmpty(turns) ==
    [n \in DOMAIN turns |-> Msg(turns[n].role, EncodeBlocks(turns[n].content))]

EncodeAnthropicMessages(turns) ==
    SelectSeq([n \in DOMAIN turns |-> Msg(turns[n].role, EncodeBlocks(turns[n].content))],
              LAMBDA m : m.content # <<>>)

Plain(parts) == [n \in DOMAIN parts |-> [parts[n] EXCEPT !.mark = FALSE]]

\* Mutant: the content is always the text alone.
UserContentText(parts) == << Part("text", Joined(parts, <<Break>>)) >>

(* A user turn without images is one string.                                *)
UserContent(parts) ==
    IF Texts(parts) = parts THEN << Part("text", Joined(parts, <<Break>>)) >> ELSE parts

(* A turn whose calls and results are messages of their own: what stands    *)
(* before one of them is flushed first.                                     *)
SplitTurn(turn, Content(_)) ==
    LET Flush(s) == IF s.held = <<>> THEN s
                    ELSE [out |-> Append(s.out, Msg(turn.role, Content(s.held))), held |-> <<>>]
        Add(s, p) ==
            CASE p.k = "result" -> [Flush(s) EXCEPT !.out = Append(@, Msg("tool", << p >>))]
              [] p.k = "call" -> [Flush(s) EXCEPT !.out = Append(@, Msg("call", << p >>))]
              [] p.k = "text" \/ (p.k = "image" /\ turn.role = "user") ->
                    [s EXCEPT !.held = Append(@, p)]
              [] OTHER -> s
    IN  Flush(FoldLeft(Add, [out |-> <<>>, held |-> <<>>], turn.content)).out

EncodeAssistant(turn) ==
    LET text == Texts(turn.content)
    IN  IF text = <<>> /\ Calls(turn.content) = <<>> THEN <<>>
        ELSE << Msg("assistant",
                    (IF text = <<>> THEN <<>> ELSE << Part("text", Joined(text, <<Break>>)) >>)
                    \o Calls(turn.content)) >>

EncodeOpenAIMessages(turns) ==
    FlattenSeq([n \in DOMAIN turns |->
        IF turns[n].role = "assistant" THEN EncodeAssistant([turns[n] EXCEPT !.content = Plain(@)])
        ELSE SplitTurn([turns[n] EXCEPT !.content = Plain(OfKind(@, {"text", "image", "result"}))],
                       UserContent)])

EncodeInput(turns) ==
    FlattenSeq([n \in DOMAIN turns |->
        SplitTurn([turns[n] EXCEPT !.content = Plain(@)], LAMBDA parts : parts)])

EncodeSystem(system) ==
    IF Marked(system) THEN EncodeBlocks(system)
    ELSE TextOf(Joined(SelectSeq(system, LAMBDA p : p.x # <<>>), <<Break, Break>>))

EncodeAnthropic(r) ==
    WithMax([r EXCEPT !.system = EncodeSystem(@), !.messages = EncodeAnthropicMessages(@),
                      !.tools = [n \in DOMAIN @ |-> [@[n] EXCEPT !.k = "function"]],
                      !.effort = 0, !.key = FALSE, !.store = "absent"])

EncodeOpenAI(r) ==
    [r EXCEPT !.system = <<>>,
              !.messages = (IF r.system = <<>> THEN <<>>
                            ELSE << Msg("system", << Part("text", Joined(r.system, <<Break>>)) >>) >>)
                           \o EncodeOpenAIMessages(@),
              !.tools = Plain(SelectSeq(@, LAMBDA t : t.k = "function")),
              !.effort = AsLowMediumHigh(@), !.store = "absent"]

EncodeResponses(r) ==
    [r EXCEPT !.system = TextOf(Joined(@, <<Break, Break>>)), !.messages = EncodeInput(@),
              !.tools = Plain(@), !.stop = FALSE,
              !.store = IF @ = "absent" THEN "false" ELSE @]

EncodeRequest(f, r) ==
    CASE f = "anthropic" -> EncodeAnthropic(r)
      [] f = "openai" -> EncodeOpenAI(r)
      [] f = "responses" -> EncodeResponses(r)

-----------------------------------------------------------------------------
(* What is done to a request before it is sent.                             *)

LastWhere(s, Test(_)) == SelectLastInSeq(s, Test)

MarkLastText(parts) ==
    LET n == LastWhere(parts, LAMBDA p : p.k = "text")
    IN  IF n = 0 THEN parts ELSE [parts EXCEPT ![n].mark = TRUE]

HasMarks(w) == Marked(w.system) \/ Marked(w.tools)
               \/ \E n \in DOMAIN w.messages : Marked(w.messages[n].content)

\* Mutant: the message breakpoint is set only when the user spoke last.
ApplyPolicyLastOnly(up, policy, w) ==
    IF up # "anthropic" \/ policy = "preserve" \/ HasMarks(w) THEN w
    ELSE LET end == Len(w.messages)
         IN  [w EXCEPT !.system = MarkLastText(@),
                       !.messages[end].content = MarkLastText(@)]

(* At most three breakpoints, none if the client placed its own.            *)
ApplyPolicy(up, policy, w) ==
    IF up # "anthropic" \/ policy = "preserve" \/ HasMarks(w) THEN w
    ELSE LET user == LastWhere(w.messages, LAMBDA m : m.role = "user" /\ Texts(m.content) # <<>>)
         IN  [w EXCEPT !.tools = IF @ = <<>> THEN @ ELSE [@ EXCEPT ![Len(w.tools)].mark = TRUE],
                       !.system = MarkLastText(@),
                       !.messages = IF user = 0 THEN @
                                    ELSE [@ EXCEPT ![user].content = MarkLastText(@)]]

SameFormat(f, w) ==
    CASE f = "anthropic" -> [w EXCEPT !.effort = 0]
      [] f = "openai" -> w
      [] f = "responses" -> [w EXCEPT !.store = IF @ = "absent" THEN "false" ELSE @]

ResponsesDefaults(up, w, pin, session) ==
    IF up # "responses" THEN w
    ELSE [w EXCEPT !.key = @ \/ session,
                   !.effort = IF @ = 0 THEN pin ELSE @,
                   !.stream = TRUE]

(* prepare_upstream_body.                                                   *)
Prepare(cl, up, w, active, pin, session, policy) ==
    LET body == [w EXCEPT !.effort = IF cl = "anthropic" /\ @ = 0 THEN active ELSE @]
        sent == IF up = cl THEN SameFormat(cl, body) ELSE EncodeRequest(up, DecodeRequest(cl, body))
    IN  ApplyPolicy(up, policy, ResponsesDefaults(up, sent, pin, session))

-----------------------------------------------------------------------------
(* Complete answers.                                                        *)

(* Empty text makes no part.  A part stands for a whole message item of a    *)
(* Responses answer.                                                         *)
DecodeOpenAIAnswer(parts) == SelectSeq(parts, LAMBDA p : p.k # "text" \/ p.x # <<>>)
DecodeResponsesAnswer(parts) == SelectSeq(parts, LAMBDA p : p.k # "text" \/ p.x # <<>>)

DecodeAnswer(f, parts) ==
    CASE f = "anthropic" -> parts
      [] f = "openai" -> DecodeOpenAIAnswer(parts)
      [] f = "responses" -> DecodeResponsesAnswer(parts)

Thoughts(parts) ==
    LET t == OfKind(parts, {"thinking", "reasoning"})
    IN  IF t = <<>> THEN <<>>
        ELSE << Part("reasoning", FlattenSeq([n \in DOMAIN t |-> t[n].x])) >>

EncodeOpenAIAnswer(parts) ==
    Thoughts(parts) \o TextOf(Joined(parts, <<>>)) \o Calls(parts)

\* Mutant: only the first text part is kept.
EncodeResponsesAnswerFirstText(parts) ==
    (IF Texts(parts) = <<>> THEN <<>> ELSE TextOf(Texts(parts)[1].x)) \o Calls(parts)

EncodeResponsesAnswer(parts) == TextOf(Joined(parts, <<>>)) \o Calls(parts)

EncodeAnswer(f, parts) ==
    CASE f = "anthropic" -> EncodeBlocks(parts)
      [] f = "openai" -> EncodeOpenAIAnswer(parts)
      [] f = "responses" -> EncodeResponsesAnswer(parts)

(* What the client gets: its own format's bytes are forwarded, except that  *)
(* a Responses upstream only streams and is always folded.                  *)
Deliver(cl, up, parts) ==
    IF cl = up /\ up # "responses" THEN parts ELSE EncodeAnswer(cl, DecodeAnswer(up, parts))
=============================================================================
