----------------------------- MODULE StreamIR -----------------------------
(***************************************************************************)
(* The streaming half of the intermediate representation: what each        *)
(* decoder makes of an upstream frame, what each encoder makes of an IR    *)
(* event, and how a finished event sequence folds into one response        *)
(* (domain/ir/*.rs, domain/translate.rs).  Everything here is an operator  *)
(* on records; Stream.tla runs it inside the driver.                       *)
(*                                                                         *)
(* Text is a sequence of pieces, <<>> the empty string, so that order and  *)
(* loss show.  Ids, model names and JSON layout are abstracted away.       *)
(***************************************************************************)
EXTENDS Integers, Sequences, FiniteSets, SequencesExt

Formats == {"anthropic", "openai", "responses"}
Prose == {"text", "reasoning"}
Kinds == Prose \cup {"tool"}
None == -1

-----------------------------------------------------------------------------
(* Token usage.  Reasoning tokens and cost follow the same rules as write.  *)

NoUsage == [input |-> 0, output |-> 0, read |-> None, write |-> 0]

Higher(a, b) == IF a > b THEN a ELSE b
Later(a, b) == IF b > 0 THEN b ELSE a

(* The prompt count an upstream reports, before and after parse_usage:      *)
(* Anthropic reports cached tokens apart, the others include them.          *)
ParseUsage(format, raw) ==
    IF format = "anthropic" /\ (raw.read # None \/ raw.write > 0)
    THEN [raw EXCEPT !.input = @ + Higher(raw.read, 0) + raw.write]
    ELSE [raw EXCEPT !.write = 0]

MergeUsage(acc, part) == [f \in DOMAIN acc |-> Higher(acc[f], part[f])]

(* What the client is told, in its own convention.                          *)
EncodeUsage(format, u) ==
    [input |-> IF format = "anthropic"
               THEN Higher(0, u.input - Higher(u.read, 0) - u.write)
               ELSE u.input,
     output |-> u.output, read |-> Higher(u.read, 0),
     write |-> IF format = "anthropic" THEN u.write ELSE 0]

-----------------------------------------------------------------------------
(* Decoders.  One record holds the emitter, the bookkeeping of the three    *)
(* decoders and the events of the frame at hand (out).                      *)

Decoder == [started |-> FALSE, next |-> 0, open |-> <<>>, usage |-> NoUsage,
            sawTool |-> FALSE, finished |-> FALSE,
            text |-> None, reasoning |-> None, keys |-> <<>>, stop |-> "none",
            out |-> <<>>]

Emit(d, e) == [d EXCEPT !.out = Append(@, e)]

Start(d) == IF d.started THEN d ELSE [Emit(d, [t |-> "start"]) EXCEPT !.started = TRUE]

Open(d, kind) ==
    LET s == Start(d)
    IN  [Emit(s, [t |-> "open", i |-> s.next, kind |-> kind]) EXCEPT
            !.next = @ + 1, !.open = Append(@, s.next), !.sawTool = @ \/ kind = "tool"]

Delta(d, i, x) == IF x = <<>> THEN d ELSE Emit(d, [t |-> "delta", i |-> i, x |-> x])

Close(d, i) ==
    IF i \notin ToSet(d.open) THEN d
    ELSE [Emit(d, [t |-> "stop", i |-> i]) EXCEPT !.open = RemoveFirst(@, i)]

\* Mutant: a report replaces the one before.
UsageReplaced(d, u) == [d EXCEPT !.usage = u]

(* Later non-zero fields win, except the cache reads, which only grow.       *)
Usage(d, u) ==
    [d EXCEPT !.usage = [f \in DOMAIN u |-> IF f = "read" THEN Higher(@[f], u[f])
                                                          ELSE Later(@[f], u[f])]]

\* Mutant: the blocks still open are not closed.
FinishEventsBare(d) ==
    [Start(d) EXCEPT !.finished = TRUE,
                     !.out = @ \o << [t |-> "usage", u |-> d.usage],
                                     [t |-> "finish", stop |-> "end_turn"] >>]

FinishEvents(d) ==
    IF d.finished THEN d
    ELSE LET s == Start(d)
             stops == [n \in DOMAIN s.open |-> [t |-> "stop", i |-> s.open[n]]]
             stop == IF s.stop # "none" THEN s.stop
                     ELSE IF s.sawTool THEN "tool_use" ELSE "end_turn"
         IN  [s EXCEPT !.finished = TRUE, !.open = <<>>,
                       !.out = @ \o stops \o << [t |-> "usage", u |-> s.usage],
                                                [t |-> "finish", stop |-> stop] >>]

(* Upstream keys (block index, tool index, item id) and the first block     *)
(* opened under each.                                                       *)
Knows(d, key) == \E n \in DOMAIN d.keys : d.keys[n].key = key
BlockOf(d, key) == d.keys[SelectInSeq(d.keys, LAMBDA k : k.key = key)].i
OpenAs(d, kind, key) ==
    LET o == Open(d, kind) IN [o EXCEPT !.keys = Append(@, [key |-> key, i |-> o.next - 1])]

CloseField(d, f) == IF d[f] = None THEN d ELSE [Close(d, d[f]) EXCEPT ![f] = None]
CloseProse(d) == CloseField(CloseField(d, "text"), "reasoning")

(* The open block of one prose kind, opened (and the other kind closed) if  *)
(* there is none.                                                           *)
InProse(d, kind) ==
    IF d[kind] # None THEN d
    ELSE LET other == IF kind = "text" THEN "reasoning" ELSE "text"
             o == Open(CloseField(d, other), kind)
         IN  [o EXCEPT ![kind] = o.next - 1]

SayProse(d, kind, x) == LET p == InProse(d, kind) IN Delta(p, p[kind], x)

AnthropicStop(reason) ==
    IF reason \in {"tool_use", "max_tokens", "stop_sequence"} THEN reason ELSE "end_turn"

AnthropicFrame(d, f) ==
    CASE f.t = "message_start" -> Usage(Start(d), ParseUsage("anthropic", f.usage))
      [] f.t = "content_block_start" ->
            IF f.kind \in Kinds THEN OpenAs(d, f.kind, f.index) ELSE d
      [] f.t = "content_block_delta" ->
            IF Knows(d, f.index) THEN Delta(d, BlockOf(d, f.index), f.x)
            ELSE IF f.kind = "text"
                 THEN LET o == OpenAs(d, "text", f.index) IN Delta(o, o.next - 1, f.x)
                 ELSE d
      [] f.t = "content_block_stop" ->
            IF Knows(d, f.index) THEN Close(d, BlockOf(d, f.index)) ELSE d
      [] f.t = "message_delta" ->
            Usage([d EXCEPT !.stop = AnthropicStop(f.stop)], ParseUsage("anthropic", f.usage))
      [] OTHER -> d

\* Mutant: "stop" ends the turn although tools were called.
OpenAIStopLiteral(reason) ==
    CASE reason = "none" -> "none"
      [] reason = "tool_calls" -> "tool_use"
      [] reason = "length" -> "max_tokens"
      [] OTHER -> "end_turn"

(* finish_reason "stop" leaves the choice to the emitter.                   *)
OpenAIStop(reason) ==
    CASE reason \in {"none", "stop"} -> "none"
      [] reason = "tool_calls" -> "tool_use"
      [] reason = "length" -> "max_tokens"
      [] OTHER -> "end_turn"

SayCall(d, c) ==
    LET k == IF Knows(d, c.index) THEN d ELSE OpenAs(CloseProse(d), "tool", c.index)
    IN  Delta(k, BlockOf(k, c.index), c.x)

OpenAIFrame(d, f) ==
    IF f.t # "chunk" THEN d
    ELSE LET u == Usage(Start(d), ParseUsage("openai", f.usage))
             r == IF f.reasoning = <<>> THEN u ELSE SayProse(u, "reasoning", f.reasoning)
             x == IF f.content = <<>> THEN r ELSE SayProse(r, "text", f.content)
             c == FoldLeft(SayCall, x, f.calls)
         IN  IF f.finish = "none" THEN c ELSE [c EXCEPT !.stop = OpenAIStop(f.finish)]

\* Mutant: the arguments of a call that comes only as a finished item are left out.
ItemDoneBare(d, f) ==
    CASE f.kind = "tool" ->
            LET o == IF Knows(d, f.key) THEN d ELSE OpenAs(CloseProse(d), "tool", f.key)
            IN  Close(o, BlockOf(o, f.key))
      [] f.kind \in Prose -> CloseField(d, f.kind)
      [] OTHER -> d

ItemDone(d, f) ==
    CASE f.kind = "tool" ->
            IF Knows(d, f.key) THEN Close(d, BlockOf(d, f.key))
            ELSE LET o == OpenAs(CloseProse(d), "tool", f.key)
                 IN  Close(Delta(o, o.next - 1, f.x), o.next - 1)
      [] f.kind \in Prose -> CloseField(d, f.kind)
      [] OTHER -> d

ResponsesFrame(d, f) ==
    CASE f.t \in {"created", "completed"} ->
            LET u == Usage(Start(d), ParseUsage("responses", f.usage))
            IN  IF f.status = "incomplete" THEN [u EXCEPT !.stop = "max_tokens"] ELSE u
      [] f.t = "item_added" ->
            IF f.kind = "tool" THEN OpenAs(CloseProse(d), "tool", f.key) ELSE d
      [] f.t = "prose_delta" -> SayProse(d, f.kind, f.x)
      [] f.t = "arguments_delta" ->
            IF Knows(d, f.key) THEN Delta(d, BlockOf(d, f.key), f.x) ELSE d
      [] f.t = "item_done" -> ItemDone(d, f)
      [] OTHER -> d

DecodeFrame(format, d, f) ==
    LET e == [d EXCEPT !.out = <<>>]
    IN  CASE format = "anthropic" -> AnthropicFrame(e, f)
          [] format = "openai" -> OpenAIFrame(e, f)
          [] format = "responses" -> ResponsesFrame(e, f)

DecodeEnd(d) == FinishEvents([d EXCEPT !.out = <<>>])

-----------------------------------------------------------------------------
(* Encoders: IR events to the client's payloads.                            *)

Encoder == [started |-> FALSE, kinds |-> << >>, tools |-> << >>, usage |-> NoUsage,
            nextOutput |-> 0, open |-> <<>>, items |-> <<>>, out |-> <<>>]

Put(e, p) == [e EXCEPT !.out = Append(@, p)]
KindOf(e, i) == IF \E n \in DOMAIN e.kinds : e.kinds[n].i = i
                THEN e.kinds[SelectInSeq(e.kinds, LAMBDA k : k.i = i)].kind
                ELSE "text"

AnthropicEvent(e, v) ==
    LET s == IF e.started THEN e
             ELSE [Put(e, [t |-> "message_start"]) EXCEPT !.started = TRUE]
    IN  CASE v.t = "start" -> s
          [] v.t = "open" ->
                [Put(s, [t |-> "block_start", i |-> v.i, kind |-> v.kind])
                    EXCEPT !.kinds = Append(@, [i |-> v.i, kind |-> v.kind])]
          [] v.t = "delta" -> Put(s, [t |-> "block_delta", i |-> v.i, kind |-> KindOf(s, v.i), x |-> v.x])
          [] v.t = "stop" -> Put(s, [t |-> "block_stop", i |-> v.i])
          [] v.t = "usage" -> [s EXCEPT !.usage = v.u]
          [] v.t = "finish" ->
                Put(Put(s, [t |-> "message_delta", stop |-> v.stop,
                            usage |-> EncodeUsage("anthropic", s.usage)]),
                    [t |-> "message_stop"])

FinishStr(stop) == CASE stop = "max_tokens" -> "length"
                     [] stop = "tool_use" -> "tool_calls"
                     [] OTHER -> "stop"

Ordinal(e, i) == IF i \in ToSet(e.tools) THEN SelectInSeq(e.tools, LAMBDA j : j = i) - 1 ELSE 0

(* A zero usage is left out of the last chunk.                              *)
OpenAIEvent(e, v) ==
    LET s == IF e.started THEN e ELSE [Put(e, [t |-> "role"]) EXCEPT !.started = TRUE]
    IN  CASE v.t = "open" ->
                LET k == [s EXCEPT !.kinds = Append(@, [i |-> v.i, kind |-> v.kind])]
                    c == [k EXCEPT !.tools = Append(@, v.i)]
                IN  IF v.kind # "tool" THEN k
                    ELSE Put(c, [t |-> "call", n |-> Ordinal(c, v.i), new |-> TRUE, x |-> <<>>])
          [] v.t = "delta" ->
                IF KindOf(s, v.i) = "tool"
                THEN Put(s, [t |-> "call", n |-> Ordinal(s, v.i), new |-> FALSE, x |-> v.x])
                ELSE Put(s, [t |-> "say", kind |-> KindOf(s, v.i), x |-> v.x])
          [] v.t = "usage" -> [s EXCEPT !.usage = v.u]
          [] v.t = "finish" ->
                Put(Put(s, [t |-> "last", stop |-> FinishStr(v.stop),
                            usage |-> IF s.usage.input > 0 \/ s.usage.output > 0
                                      THEN EncodeUsage("openai", s.usage) ELSE NoUsage]),
                    [t |-> "done"])
          [] OTHER -> s

(* Reasoning is not surfaced to Responses clients and takes no output index. *)
ResponsesOpen(s, v) ==
    LET it == [i |-> v.i, kind |-> v.kind, n |-> s.nextOutput, acc |-> <<>>]
        o == [s EXCEPT !.open = Append(@, it)]
    IN  IF v.kind = "reasoning" THEN o
        ELSE [Put(o, [t |-> "item_added", n |-> it.n, kind |-> v.kind]) EXCEPT !.nextOutput = @ + 1]

ResponsesEvent(e, v) ==
    LET s == IF e.started THEN e ELSE [Put(e, [t |-> "created"]) EXCEPT !.started = TRUE]
        pos == IF v.t \in {"delta", "stop"} THEN SelectInSeq(s.open, LAMBDA it : it.i = v.i) ELSE 0
        it == s.open[pos]
    IN  CASE v.t = "open" -> ResponsesOpen(s, v)
          [] v.t = "delta" /\ pos > 0 ->
                LET a == [s EXCEPT !.open[pos].acc = @ \o v.x]
                IN  IF it.kind = "reasoning" THEN a
                    ELSE Put(a, [t |-> "item_delta", n |-> it.n, x |-> v.x])
          [] v.t = "stop" /\ pos > 0 ->
                LET a == [s EXCEPT !.open = RemoveAt(@, pos)]
                    item == [n |-> it.n, kind |-> it.kind, x |-> it.acc]
                IN  IF it.kind = "reasoning" THEN a
                    ELSE [Put(a, [t |-> "item_done", item |-> item])
                            EXCEPT !.items = Append(@, item)]
          [] v.t = "usage" -> [s EXCEPT !.usage = v.u]
          [] v.t = "finish" ->
                Put(s, [t |-> "completed", items |-> s.items, stop |-> "completed",
                        usage |-> EncodeUsage("responses", s.usage)])
          [] OTHER -> s

EncodeEvents(format, e, events) ==
    LET s == [e EXCEPT !.out = <<>>]
    IN  CASE format = "anthropic" -> FoldLeft(AnthropicEvent, s, events)
          [] format = "openai" -> FoldLeft(OpenAIEvent, s, events)
          [] format = "responses" -> FoldLeft(ResponsesEvent, s, events)

-----------------------------------------------------------------------------
(* Non-streaming clients of a stream: fold the events, let the envelope win. *)

FoldEvents(events) ==
    LET Add(r, v) ==
            CASE v.t = "open" ->
                    [r EXCEPT !.at = Append(@, v.i),
                              !.content = Append(@, [kind |-> v.kind, x |-> <<>>])]
              [] v.t = "delta" /\ v.i \in ToSet(r.at) ->
                    [r EXCEPT !.content[SelectInSeq(r.at, LAMBDA i : i = v.i)].x = @ \o v.x]
              [] v.t = "usage" -> [r EXCEPT !.usage = v.u]
              [] v.t = "finish" -> [r EXCEPT !.stop = v.stop]
              [] OTHER -> r
    IN  FoldLeft(Add, [at |-> <<>>, content |-> <<>>, usage |-> NoUsage, stop |-> "end_turn"], events)

(* What the terminal envelope's own output decodes to.                       *)
EnvelopeStop(f) ==
    IF f.status = "incomplete" THEN "max_tokens"
    ELSE IF \E n \in DOMAIN f.output : f.output[n].kind = "tool" THEN "tool_use" ELSE "end_turn"

\* Mutant: an empty output of the envelope wins over the events.
AggregateResponsesEnvelope(frames) ==
    LET ends == SelectSeq(frames, LAMBDA f : f.t = "completed")
    IN  [content |-> FlattenSeq([n \in DOMAIN ends |-> ends[n].output]),
         stop |-> EnvelopeStop(Last(ends)), usage |-> ParseUsage("responses", Last(ends).usage)]

AggregateResponses(frames) ==
    LET Step(a, f) == LET d == ResponsesFrame([a.dec EXCEPT !.out = <<>>], f)
                      IN  [dec |-> d, events |-> a.events \o d.out]
        a == FoldLeft(Step, [dec |-> Decoder, events |-> <<>>], frames)
        folded == FoldEvents(a.events \o DecodeEnd(a.dec).out)
        ends == SelectSeq(frames, LAMBDA f : f.t = "completed")
    IN  IF ends = <<>> THEN folded
        ELSE LET e == Last(ends)
             IN  [folded EXCEPT
                    !.content = IF e.output # <<>> THEN e.output ELSE @,
                    !.stop = IF e.output # <<>> THEN EnvelopeStop(e) ELSE @,
                    !.usage = IF e.usage # NoUsage THEN ParseUsage("responses", e.usage) ELSE @]
=============================================================================
