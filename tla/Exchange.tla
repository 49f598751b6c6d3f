------------------------------ MODULE Exchange ------------------------------
(***************************************************************************)
(* A conversation of one client through the proxy: every request carries   *)
(* the whole history in the client's format, and the upstream, which keeps *)
(* nothing, sees it again in its own.  The codecs of module Codec are what *)
(* the proxy does to each request and answer; the history the client keeps *)
(* is built from what the proxy delivered, so a loss in one exchange       *)
(* returns in every later one.                                             *)
(***************************************************************************)
EXTENDS Codec

CONSTANTS
    Conns,      \* the pairs [cl, up] of client and upstream formats
    Settings,   \* what a client and a route keep fixed for a conversation
    MaxTurns,   \* bound: turns the client's side takes
    MaxTexts,   \* bound: text blocks in one answer
    MaxCalls,   \* bound: tool calls in one answer
    MaxParts    \* bound: texts and calls in one answer

ASSUME ExchangeAssumption ==
    /\ \A c \in Conns : c.cl \in Formats /\ c.up \in Formats
    /\ MaxTurns \in Nat /\ MaxTexts \in Nat /\ MaxCalls \in Nat /\ MaxParts \in Nat

VARIABLES
    conn,       \* the formats of this conversation
    set,        \* its settings
    chat,       \* the history in the client's format
    phase,      \* "idle", "ready" (a request is due), "waiting" or "tools"
    calls,      \* the calls of the last answer, not run yet
    turns,      \* turns taken so far
    sent,       \* the upstream requests, in order
    asked,      \* history: what the client's side said, in order
    said        \* history: what the upstream said, answer by answer

vars == << conn, set, chat, phase, calls, turns, sent, asked, said >>

(* A word, an image or a result is told apart by the turn it belongs to.    *)
Name(t, n) == 10 * t + n

Token(part) ==
    CASE part.k = "text" ->
            LET words == SelectSeq(part.x, LAMBDA w : w # Break)
            IN  [n \in DOMAIN words |-> << "word", words[n] >>]
      [] part.k \in {"image", "call"} -> << << part.k, part.x >> >>
      [] part.k = "result" ->
            << << "result", part.x >> >> \o (IF part.image THEN << << "shown", part.x >> >> ELSE <<>>)
      [] OTHER -> <<>>

Tokens(parts) == FlattenSeq([n \in DOMAIN parts |-> Token(parts[n])])

TokensOf(messages, roles) ==
    FlattenSeq([n \in DOMAIN messages |->
        IF messages[n].role \in roles THEN Tokens(messages[n].content) ELSE <<>>])

-----------------------------------------------------------------------------
(* The client.                                                              *)

Init ==
    /\ conn \in Conns
    /\ set \in Settings
    /\ chat = <<>> /\ phase = "idle" /\ calls = <<>> /\ turns = 0
    /\ sent = <<>> /\ asked = <<>> /\ said = <<>>

Says(messages) ==
    /\ turns < MaxTurns
    /\ turns' = turns + 1
    /\ chat' = chat \o messages
    /\ asked' = asked \o TokensOf(messages, {"user", "tool"})
    /\ calls' = <<>>
    /\ phase' = "ready"
    /\ UNCHANGED << conn, set, sent, said >>

UserParts(t) ==
    { << Part("text", << Name(t, 1) >>) >>,
      << Part("image", Name(t, 2)), Part("text", << Name(t, 1) >>) >> }

(* The user speaks: after an answer, or having given up on one.             *)
Ask ==
    /\ phase \in {"idle", "waiting"}
    /\ \E parts \in UserParts(turns + 1) : Says(<< Msg("user", parts) >>)

(* The first result may show an image, where the client's format has them.  *)
Results(image) == [n \in DOMAIN calls |-> Result(calls[n].x, image /\ n = 1)]
Images == IF conn.cl = "openai" THEN {FALSE} ELSE BOOLEAN
Single(role, parts) == [n \in DOMAIN parts |-> Msg(role, << parts[n] >>)]

(* The tools ran; an Anthropic client may put a remark in the same message, *)
(* a Responses client may list each output right after its call.            *)
RunTools ==
    /\ phase = "tools"
    /\ \E image \in Images :
          IF conn.cl = "anthropic"
          THEN \E remark \in {<<>>, << Part("text", << Name(turns + 1, 3) >>) >>} :
                  Says(<< Msg("user", Results(image) \o remark) >>)
          ELSE Says(Single("tool", Results(image)))

RunToolsPaired ==
    /\ phase = "tools" /\ conn.cl = "responses" /\ Len(calls) > 1
    /\ turns < MaxTurns
    /\ turns' = turns + 1
    /\ \E image \in Images :
          /\ chat' = SubSeq(chat, 1, Len(chat) - Len(calls))
                     \o FlattenSeq([n \in DOMAIN calls |->
                           << Msg("call", << calls[n] >>), Msg("tool", << Results(image)[n] >>) >>])
          /\ asked' = asked \o Tokens(Results(image))
    /\ calls' = <<>>
    /\ phase' = "ready"
    /\ UNCHANGED << conn, set, sent, said >>

(* The request as the client writes it.                                     *)
Request ==
    [system |-> IF conn.cl = "openai" THEN <<>> ELSE set.system,
     messages |-> (IF conn.cl = "openai" THEN Single("system", set.system) ELSE <<>>) \o chat,
     tools |-> set.tools, stop |-> set.stop, max |-> set.max, effort |-> set.effort,
     key |-> FALSE, store |-> "absent", stream |-> FALSE]

-----------------------------------------------------------------------------
(* The proxy and the upstream.                                              *)

Send ==
    /\ phase = "ready"
    /\ sent' = Append(sent, Prepare(conn.cl, conn.up, Request, set.active, set.pin,
                                    set.session, set.policy))
    /\ phase' = "waiting"
    /\ UNCHANGED << conn, set, chat, calls, turns, asked, said >>

(* Answers the upstream's format allows: a thought, then texts and calls in *)
(* any order; a Chat Completions message has one text before its calls.     *)
Answers(t) ==
    LET thought == IF conn.up = "anthropic" THEN "thinking" ELSE "reasoning"
        places(n) == { texts \in SUBSET (1 .. n) :
                         /\ Cardinality(texts) <= MaxTexts /\ n - Cardinality(texts) <= MaxCalls
                         /\ conn.up = "openai" => texts \subseteq {1} }
        body(n, texts) ==
            [i \in 1 .. n |->
                IF i \in texts
                THEN Part("text", << Name(t, 3 + Cardinality(texts \cap 1 .. i)) >>)
                ELSE Part("call", Name(t, 6 + Cardinality((1 .. i) \ texts)))]
    IN  UNION { { (IF think THEN << Part(thought, << Name(t, 9) >>) >> ELSE <<>>) \o body(n, texts)
                  : think \in BOOLEAN, texts \in places(n) } : n \in 0 .. MaxParts }

(* What the client adds to its history.                                     *)
Kept(parts) ==
    IF parts = <<>> THEN <<>>
    ELSE IF conn.cl = "responses"
         THEN (IF Texts(parts) = <<>> THEN <<>> ELSE << Msg("assistant", Texts(parts)) >>)
              \o Single("call", Calls(parts))
         ELSE << Msg("assistant", parts) >>

Answer ==
    /\ phase = "waiting"
    /\ \E parts \in Answers(turns) :
          LET got == Deliver(conn.cl, conn.up, parts)
          IN  /\ chat' = chat \o Kept(got)
              /\ calls' = Calls(got)
              /\ phase' = IF Calls(got) = <<>> THEN "idle" ELSE "tools"
              /\ said' = Append(said, Tokens(parts))
    /\ UNCHANGED << conn, set, turns, sent, asked >>

Next == Ask \/ RunTools \/ RunToolsPaired \/ Send \/ Answer

Spec == Init /\ [][Next]_vars

-----------------------------------------------------------------------------
(* Properties.                                                              *)

PartType(p) == p.k \in {"text", "image", "call", "result", "thinking", "reasoning"}
               /\ p.mark \in BOOLEAN /\ (p.k = "result" => p.image \in BOOLEAN)

(* Every state is well typed, and every request that leaves keeps the       *)
(* fields and the message roles its upstream format knows.                  *)
TypeOK ==
    /\ conn \in Conns /\ set \in Settings
    /\ phase \in {"idle", "ready", "waiting", "tools"}
    /\ turns \in 0 .. MaxTurns
    /\ \A n \in DOMAIN chat : \A i \in DOMAIN chat[n].content : PartType(chat[n].content[i])
    /\ \A n \in DOMAIN sent :
          \A i \in DOMAIN sent[n].messages :
             LET m == sent[n].messages[i]
             IN  /\ m.role \in CASE conn.up = "anthropic" -> {"user", "assistant"}
                                 [] conn.up = "openai" -> {"system", "user", "assistant", "tool"}
                                 [] conn.up = "responses" -> {"user", "assistant", "call", "tool"}
                 /\ m.content # <<>>
                 /\ \A j \in DOMAIN m.content : PartType(m.content[j])

OfToken(tokens, kinds) == SelectSeq(tokens, LAMBDA k : k[1] \in kinds)

(* What the upstream reads of its own earlier answers is what it said: no   *)
(* word and no call lost, doubled or moved to another answer, whatever the  *)
(* two formats do to text blocks and tool calls on the way there and back.  *)
(* An Anthropic client gives an answer back as it was; the others were      *)
(* given one message, and text that followed a call comes before it.        *)
AnswersReturn ==
    LET Gathered(answer) == OfToken(answer, {"word"}) \o OfToken(answer, {"call"})
        given == [n \in DOMAIN said |->
                     IF conn.cl = "anthropic" THEN said[n] ELSE Gathered(said[n])]
    IN  phase = "waiting" =>
            TokensOf(Last(sent).messages, {"assistant", "call"}) = FlattenSeq(given)

(* The upstream reads everything the client's side said, in its order:      *)
(* text, images and tool results of every turn, interrupted ones included.  *)
(* Only an image inside a tool result is missing, exactly when the request  *)
(* is translated; between two ends of one format it stays.                  *)
EverythingAsked ==
    phase = "waiting" =>
        TokensOf(Last(sent).messages, {"user", "tool"})
            = IF conn.cl = conn.up THEN asked ELSE OfToken(asked, {"word", "image", "result"})

Plainly(w) == [system |-> Plain(w.system), tools |-> Plain(w.tools),
               messages |-> [n \in DOMAIN w.messages |->
                                [w.messages[n] EXCEPT !.content = Plain(@)]]]

(* An upstream caches prompts by prefix: apart from the cache breakpoints,  *)
(* a request begins with all of the request before it (the comment on       *)
(* push_message: an earlier turn never changes when a later one arrives).   *)
PrefixStable ==
    [][ (sent' # sent /\ sent # <<>>) =>
            LET old == Plainly(Last(sent))
                new == Plainly(Last(sent'))
            IN  /\ new.system = old.system /\ new.tools = old.tools
                /\ IsPrefix(old.messages, new.messages) ]_vars

Ids(parts, kind) == { p.x : p \in Range(OfKind(parts, {kind})) }

(* Every tool call is answered where the upstream looks for the answer:     *)
(* Anthropic in the blocks that open the next message, Chat Completions in  *)
(* the `tool` messages right after it, Responses in a later item; and every *)
(* result answers a call.                                                   *)
CallsAnswered ==
    phase = "waiting" =>
        LET ms == Last(sent).messages
            Opens(m) == { m.content[i].x : i \in { j \in DOMAIN m.content :
                              \A l \in 1 .. j : m.content[l].k = "result" } }
            Before(n) == UNION { Ids(ms[i].content, "call") : i \in 1 .. n - 1 }
            Follow(n) == { i \in n + 1 .. Len(ms) : \A j \in n + 1 .. i : ms[j].role = "tool" }
        IN  \A n \in DOMAIN ms :
               /\ Ids(ms[n].content, "result") \subseteq Before(n)
               /\ Ids(ms[n].content, "call") \subseteq
                     CASE conn.up = "anthropic" ->
                            IF n = Len(ms) THEN {} ELSE Opens(ms[n + 1])
                       [] conn.up = "openai" ->
                            UNION { Ids(ms[i].content, "result") : i \in Follow(n) }
                       [] conn.up = "responses" ->
                            UNION { Ids(ms[i].content, "result") : i \in n + 1 .. Len(ms) }

MarkedAt(w) == { n \in DOMAIN w.messages : Marked(w.messages[n].content) }

(* The breakpoints the policy sets stay within Anthropic's four, and the    *)
(* cached prefix never shrinks: the message breakpoint moves forward only.  *)
BreakpointsAdvance ==
    [][ (sent' # sent /\ sent # <<>>) =>
            LET old == MarkedAt(Last(sent))
                new == MarkedAt(Last(sent'))
            IN  /\ Cardinality(old) <= 1 /\ Cardinality(new) <= 1
                /\ \A n \in old : \E i \in new : i >= n ]_vars
=============================================================================
