------------------------- MODULE StreamRecordProofs -------------------------
(* TLAPS proofs about what a streamed answer leaves behind: the types of the    *)
(* driver's state, and the row that is recorded.                               *)
EXTENDS StreamProofs

Merging == INSTANCE Folding WITH Op <- MergeUsage
Burning == INSTANCE Folding WITH Op <- EnergyAfter

-----------------------------------------------------------------------------
(* Usage reports.                                                             *)

UsageFields == {"input", "output", "read", "write"}

\* A report has four counts.
LEMMA CountsAre ==
    ASSUME NEW u
    PROVE  u \in Counts <=> /\ u = [f \in UsageFields |-> u[f]]
                            /\ u.input \in Nat /\ u.output \in Nat /\ u.write \in Nat
                            /\ u.read \in Nat \cup {None}
BY DEF Counts, UsageFields

\* No usage is a report, and says nothing new.
LEMMA NothingCounted ==
    /\ NoUsage \in Counts
    /\ \A up \in Formats : ParseUsage(up, NoUsage) = NoUsage
    /\ \A u : Cumulative(u, NoUsage)
    /\ \A u \in Counts : Cumulative(NoUsage, u) /\ Cumulative(u, u)
<1>1. NoUsage \in Counts
  BY DEF NoUsage, Counts, None
<1>2. ASSUME NEW up \in Formats PROVE ParseUsage(up, NoUsage) = NoUsage
  BY DEF ParseUsage, NoUsage, None
<1>3. ASSUME NEW u PROVE Cumulative(u, NoUsage)
  BY DEF Cumulative, NoUsage
<1>4. ASSUME NEW u \in Counts PROVE Cumulative(NoUsage, u) /\ Cumulative(u, u)
  BY DEF Cumulative, NoUsage, Counts
<1> QED BY <1>1, <1>2, <1>3, <1>4

\* A parsed report is one.
LEMMA CountsParsed ==
    ASSUME NEW up \in Formats, NEW u \in Counts PROVE ParseUsage(up, u) \in Counts
<1>1. u.input \in Nat /\ u.write \in Nat /\ (u.read \in Nat \/ u.read = None)
  BY DEF Counts
<1>2. u.input + Higher(u.read, 0) + u.write \in Nat
  BY <1>1 DEF Higher, None
<1> DEFINE n == u.input + Higher(u.read, 0) + u.write
<1>3. [u EXCEPT !.input = n] \in Counts /\ [u EXCEPT !.write = 0] \in Counts
  <2> HIDE DEF n
  <2> QED BY <1>2 DEF Counts, n
<1>4. ParseUsage(up, u) \in { [u EXCEPT !.input = n], [u EXCEPT !.write = 0] }
  BY DEF ParseUsage
<1> QED BY <1>3, <1>4

\* Keeping the highest of cumulative counts is keeping the last that is not zero.
LEMMA MergedIsLater ==
    ASSUME NEW a \in Counts, NEW u \in Counts, Cumulative(a, u)
    PROVE  /\ MergeUsage(a, u) = [f \in DOMAIN u |-> IF f = "read" THEN Higher(a[f], u[f]) ELSE Later(a[f], u[f])]
           /\ MergeUsage(a, u) \in Counts
<1>1. DOMAIN a = UsageFields /\ DOMAIN u = UsageFields
  BY DEF Counts, UsageFields
<1>2. ASSUME NEW f \in {"input", "output", "write"}
      PROVE  a[f] \in Nat /\ u[f] \in Nat /\ (u[f] > 0 => u[f] >= a[f])
  BY DEF Counts, Cumulative
<1>3. ASSUME NEW f \in {"input", "output", "write"}
      PROVE  Higher(a[f], u[f]) = Later(a[f], u[f]) /\ Higher(a[f], u[f]) \in Nat
  <2> DEFINE x == a[f]
             y == u[f]
  <2>1. x \in Nat /\ y \in Nat /\ (y > 0 => y >= x)
    BY <1>2
  <2> HIDE DEF x, y
  <2>2. Higher(x, y) = Later(x, y) /\ Higher(x, y) \in Nat
    BY <2>1 DEF Higher, Later
  <2> QED BY <2>2 DEF x, y
<1>4. Higher(a.read, u.read) \in Nat \cup {None}
  <2>1. a.read \in Nat \cup {None} /\ u.read \in Nat \cup {None}
    BY DEF Counts
  <2> QED BY <2>1 DEF Higher
<1> DEFINE m == MergeUsage(a, u)
           l == [f \in DOMAIN u |-> IF f = "read" THEN Higher(a[f], u[f]) ELSE Later(a[f], u[f])]
<1>5. m = [f \in UsageFields |-> Higher(a[f], u[f])]
  BY <1>1 DEF MergeUsage
<1>6. m = l
  <2>1. ASSUME NEW f \in UsageFields
        PROVE  Higher(a[f], u[f]) = IF f = "read" THEN Higher(a[f], u[f]) ELSE Later(a[f], u[f])
    <3>1. CASE f = "read"
      BY <3>1
    <3>2. CASE f # "read"
      BY <1>3, <3>2 DEF UsageFields
    <3> QED BY <3>1, <3>2
  <2> QED BY <1>1, <1>5, <2>1
<1>7. m \in Counts
  <2>1. /\ m.input = Higher(a.input, u.input) /\ m.output = Higher(a.output, u.output)
        /\ m.write = Higher(a.write, u.write) /\ m.read = Higher(a.read, u.read)
        /\ m = [f \in UsageFields |-> m[f]]
    BY <1>5 DEF UsageFields
  <2> HIDE DEF m
  <2>2. m.input \in Nat /\ m.output \in Nat /\ m.write \in Nat /\ m.read \in Nat \cup {None}
    BY <1>3, <1>4, <2>1
  <2> QED BY <2>1, <2>2, CountsAre
<1> QED BY <1>6, <1>7

\* What is above both reports is above the merged one.
LEMMA CumulativeMerged ==
    ASSUME NEW a \in Counts, NEW b \in Counts, NEW u \in Counts, Cumulative(a, u), Cumulative(b, u)
    PROVE  Cumulative(MergeUsage(a, b), u)
<1>1. DOMAIN a = UsageFields
  BY DEF Counts, UsageFields
<1> SUFFICES ASSUME NEW f \in {"input", "output", "write"}, u[f] > 0
             PROVE  u[f] >= MergeUsage(a, b)[f]
  BY DEF Cumulative
<1>2. MergeUsage(a, b)[f] = Higher(a[f], b[f])
  BY <1>1 DEF MergeUsage, UsageFields
<1>3. u[f] >= a[f] /\ u[f] >= b[f]
  BY DEF Cumulative
<1> QED BY <1>2, <1>3 DEF Higher

-----------------------------------------------------------------------------
(* What a frame reports ends up in the decoder, and nothing else does.        *)

\* Decoder d2 has the usage of d.
IsDecoder(d) == DOMAIN d = DecoderFields
Kept(d, d2) == IsDecoder(d) => IsDecoder(d2) /\ d2.usage = d.usage

\* One after the other.
LEMMA KeptTwice == \A a, b, c : Kept(a, b) /\ Kept(b, c) => Kept(a, c)
BY DEF Kept

\* The emitter's operations keep the usage,
LEMMA StartKept == \A d : Kept(d, Start(d))
BY DEF Kept, IsDecoder, DecoderFields, Start, Emit

\* opening a block,
LEMMA OpenKept == \A d, kind : Kept(d, Open(d, kind))
<1> TAKE d, kind
<1> DEFINE s == Start(d)
<1>1. Kept(d, s)
  BY StartKept
<1>2. Open(d, kind) = [Emit(s, [t |-> "open", i |-> s.next, kind |-> kind]) EXCEPT
            !.next = @ + 1, !.open = Append(@, s.next), !.sawTool = @ \/ kind = "tool"]
  BY DEF Open
<1> HIDE DEF s
<1>3. Kept(s, Open(d, kind))
  BY <1>2 DEF Kept, IsDecoder, DecoderFields, Emit
<1> QED BY <1>1, <1>3, KeptTwice

\* text,
LEMMA DeltaKept == \A d, i, x : Kept(d, Delta(d, i, x))
BY DEF Kept, IsDecoder, DecoderFields, Delta, Emit

\* closing a block.
LEMMA CloseKept == \A d, i : Kept(d, Close(d, i))
BY DEF Kept, IsDecoder, DecoderFields, Close, Emit

\* A block under a key,
LEMMA OpenAsKept == \A d, kind, key : Kept(d, OpenAs(d, kind, key))
<1> TAKE d, kind, key
<1> DEFINE o == Open(d, kind)
<1>1. Kept(d, o)
  BY OpenKept
<1>2. OpenAs(d, kind, key) = [o EXCEPT !.keys = Append(@, [key |-> key, i |-> o.next - 1])]
  BY DEF OpenAs
<1> HIDE DEF o
<1>3. Kept(o, OpenAs(d, kind, key))
  BY <1>2 DEF Kept, IsDecoder, DecoderFields
<1> QED BY <1>1, <1>3, KeptTwice

\* a block of prose that is closed,
LEMMA CloseFieldKept == \A d : \A f \in Prose : Kept(d, CloseField(d, f))
<1> TAKE d
<1> TAKE f \in Prose
<1>1. CASE d[f] = None
  BY <1>1 DEF CloseField, Kept
<1>2. CASE d[f] # None
  <2> DEFINE c == Close(d, d[f])
  <2>1. Kept(d, c)
    BY CloseKept
  <2>2. CloseField(d, f) = [c EXCEPT ![f] = None]
    BY <1>2 DEF CloseField
  <2> HIDE DEF c
  <2>3. Kept(c, CloseField(d, f))
    BY <2>2 DEF Kept, IsDecoder, DecoderFields, Prose
  <2> QED BY <2>1, <2>3, KeptTwice
<1> QED BY <1>1, <1>2

\* or both.
LEMMA CloseProseKept == \A d : Kept(d, CloseProse(d))
<1> TAKE d
<1> DEFINE t == CloseField(d, "text")
<1>1. Kept(d, t)
  BY CloseFieldKept DEF Prose
<1> HIDE DEF t
<1>2. Kept(t, CloseField(t, "reasoning"))
  BY CloseFieldKept DEF Prose
<1>3. CloseProse(d) = CloseField(t, "reasoning")
  BY DEF CloseProse, t
<1> QED BY <1>1, <1>2, <1>3, KeptTwice

\* Prose,
LEMMA SayProseKept == \A d, x : \A kind \in Prose : Kept(d, SayProse(d, kind, x))
<1> TAKE d, x
<1> TAKE kind \in Prose
<1> DEFINE p == InProse(d, kind)
<1>1. Kept(d, p)
  <2>1. CASE d[kind] # None
    BY <2>1 DEF InProse, Kept
  <2>2. CASE d[kind] = None
    <3> DEFINE other == IF kind = "text" THEN "reasoning" ELSE "text"
               c == CloseField(d, other)
               o == Open(c, kind)
    <3>1. Kept(d, c)
      BY CloseFieldKept DEF Prose
    <3>2. p = [o EXCEPT ![kind] = o.next - 1]
      BY <2>2 DEF InProse
    <3> HIDE DEF c, p
    <3>3. Kept(c, o)
      BY OpenKept
    <3> HIDE DEF o
    <3>4. Kept(o, p)
      BY <3>2 DEF Kept, IsDecoder, DecoderFields, Prose
    <3> QED BY <3>1, <3>3, <3>4, KeptTwice
  <2> QED BY <2>1, <2>2
<1>2. SayProse(d, kind, x) = Delta(p, p[kind], x)
  BY DEF SayProse
<1> HIDE DEF p
<1>3. Kept(p, SayProse(d, kind, x))
  BY <1>2, DeltaKept
<1> QED BY <1>1, <1>3, KeptTwice

\* a call,
LEMMA SayCallKept == \A d, c : Kept(d, SayCall(d, c))
<1> TAKE d, c
<1> DEFINE p == CloseProse(d)
           o == OpenAs(p, "tool", c.index)
           k == IF Knows(d, c.index) THEN d ELSE o
<1>1. Kept(d, p)
  BY CloseProseKept
<1>2. SayCall(d, c) = Delta(k, BlockOf(k, c.index), c.x)
  BY DEF SayCall
<1>3. Kept(k, SayCall(d, c))
  <2> HIDE DEF k
  <2> QED BY <1>2, DeltaKept
<1>4. Kept(p, o)
  <2> HIDE DEF p
  <2> QED BY OpenAsKept
<1> HIDE DEF p, o
<1>5. Kept(d, k)
  <2>1. Kept(d, d)
    BY DEF Kept
  <2> QED BY <1>1, <1>4, <2>1, KeptTwice
<1> HIDE DEF k
<1> QED BY <1>3, <1>5, KeptTwice

\* a finished item.
LEMMA ItemDoneKept == \A d, f : Kept(d, ItemDone(d, f))
<1> TAKE d, f
<1>0. Kept(d, d)
  BY DEF Kept
<1>1. CASE f.kind = "tool"
  <2> DEFINE p == CloseProse(d)
             o == OpenAs(p, "tool", f.key)
             s == Delta(o, o.next - 1, f.x)
  <2>1. ItemDone(d, f) = IF Knows(d, f.key) THEN Close(d, BlockOf(d, f.key)) ELSE Close(s, o.next - 1)
    BY <1>1 DEF ItemDone, Prose
  <2>2. Kept(d, p)
    BY CloseProseKept
  <2> HIDE DEF p
  <2>3. Kept(p, o)
    BY OpenAsKept
  <2> HIDE DEF o
  <2>4. Kept(o, s)
    BY DeltaKept
  <2> HIDE DEF s
  <2>5. Kept(d, s)
    BY <2>2, <2>3, <2>4, KeptTwice
  <2>6. Kept(s, Close(s, o.next - 1)) /\ Kept(d, Close(d, BlockOf(d, f.key)))
    BY CloseKept
  <2> QED BY <2>1, <2>5, <2>6, KeptTwice
<1>2. CASE f.kind \in Prose
  <2>1. ItemDone(d, f) = CloseField(d, f.kind)
    BY <1>2 DEF ItemDone, Prose
  <2> QED BY <1>2, <2>1, CloseFieldKept
<1>3. CASE f.kind # "tool" /\ f.kind \notin Prose
  BY <1>0, <1>3 DEF ItemDone
<1> QED BY <1>1, <1>2, <1>3

\* The frames of a format that carry a report, and only they do; a comment carries an energy.
Bearing(up) ==
    CASE up = "anthropic" -> {"message_start", "message_delta"}
      [] up = "openai" -> {"chunk"}
      [] up = "responses" -> {"created", "completed"}
Honest(up, f) ==
    /\ "t" \in DOMAIN f
    /\ "usage" \in DOMAIN f <=> f.t \in Bearing(up)
    /\ f.t = "comment" => "energy" \in DOMAIN f /\ f.energy = 1

\* A report is merged,
Reported(d, u, d2) ==
    IsDecoder(d) /\ d.usage \in Counts /\ u \in Counts /\ Cumulative(d.usage, u) =>
        IsDecoder(d2) /\ d2.usage = MergeUsage(d.usage, u)
\* and none leaves what there was.
LEMMA NothingReported == \A d, d2 : Kept(d, d2) => Reported(d, NoUsage, d2)
<1> SUFFICES ASSUME NEW d, NEW d2, Kept(d, d2), IsDecoder(d), d.usage \in Counts
             PROVE  IsDecoder(d2) /\ d2.usage = MergeUsage(d.usage, NoUsage)
  BY DEF Reported
<1>1. IsDecoder(d2) /\ d2.usage = d.usage
  BY DEF Kept
<1> DEFINE a == d.usage
           m == MergeUsage(a, NoUsage)
<1>2. a \in Counts
  OBVIOUS
<1> HIDE DEF a
<1>3. m = [f \in DOMAIN a |-> Higher(a[f], NoUsage[f])] /\ DOMAIN a = UsageFields
  BY <1>2 DEF MergeUsage, Counts, UsageFields
<1>4. \A f \in UsageFields : Higher(a[f], NoUsage[f]) = a[f]
  BY <1>2 DEF Counts, UsageFields, NoUsage, Higher, None
<1>5. a = [f \in UsageFields |-> a[f]]
  BY <1>2, CountsAre
<1>6. m = a
  BY <1>3, <1>4, <1>5
<1> QED BY <1>1, <1>6 DEF a

\* The decoder merges a report as the scanner does.
LEMMA UsageReported == \A d, u : Reported(d, u, Usage(d, u))
<1> SUFFICES ASSUME NEW d, NEW u, IsDecoder(d), d.usage \in Counts, u \in Counts, Cumulative(d.usage, u)
             PROVE  IsDecoder(Usage(d, u)) /\ Usage(d, u).usage = MergeUsage(d.usage, u)
  BY DEF Reported
<1> DEFINE a == d.usage
           m == [f \in DOMAIN u |-> IF f = "read" THEN Higher(a[f], u[f]) ELSE Later(a[f], u[f])]
<1>1. Usage(d, u) = [d EXCEPT !.usage = m]
  BY DEF Usage
<1>2. a \in Counts /\ Cumulative(a, u)
  OBVIOUS
<1> HIDE DEF a
<1>3. m = MergeUsage(a, u)
  BY <1>2, MergedIsLater
<1> HIDE DEF m
<1> QED BY <1>1, <1>3 DEF IsDecoder, DecoderFields, a

\* Steps that keep the usage before and after a report change nothing of it.
LEMMA ReportedBetween ==
    \A a, b, c, d, u : Kept(a, b) /\ Reported(b, u, c) /\ Kept(c, d) => Reported(a, u, d)
BY DEF Kept, Reported, IsDecoder

\* A Messages frame,
LEMMA AnthropicReported ==
    ASSUME NEW f, Honest("anthropic", f), NEW d
    PROVE  Reported(d, UsageIn("anthropic", f), AnthropicFrame(d, f))
<1>0. \A e : Kept(e, e)
  BY DEF Kept
<1>1. CASE f.t = "message_start"
  <2> DEFINE s == Start(d)
             u == ParseUsage("anthropic", f.usage)
             r == Usage(s, u)
  <2>1. UsageIn("anthropic", f) = u
    BY <1>1 DEF Honest, Bearing, UsageIn
  <2>2. AnthropicFrame(d, f) = r
    BY <1>1 DEF AnthropicFrame
  <2>3. Kept(d, s)
    BY StartKept
  <2> HIDE DEF s, u
  <2>4. Reported(s, u, r)
    BY UsageReported
  <2> HIDE DEF r
  <2> QED BY <1>0, <2>1, <2>2, <2>3, <2>4, ReportedBetween
<1>2. CASE f.t = "message_delta"
  <2> DEFINE s == [d EXCEPT !.stop = AnthropicStop(f.stop)]
             u == ParseUsage("anthropic", f.usage)
             r == Usage(s, u)
  <2>1. UsageIn("anthropic", f) = u
    BY <1>2 DEF Honest, Bearing, UsageIn
  <2>2. AnthropicFrame(d, f) = r
    BY <1>2 DEF AnthropicFrame
  <2>3. Kept(d, s)
    BY DEF Kept, IsDecoder, DecoderFields
  <2> HIDE DEF s, u
  <2>4. Reported(s, u, r)
    BY UsageReported
  <2> HIDE DEF r
  <2> QED BY <1>0, <2>1, <2>2, <2>3, <2>4, ReportedBetween
<1>3. CASE f.t \notin {"message_start", "message_delta"}
  <2>1. UsageIn("anthropic", f) = NoUsage
    BY <1>3 DEF Honest, Bearing, UsageIn
  <2>2. Kept(d, AnthropicFrame(d, f))
    <3>1. CASE f.t = "content_block_start"
      <4>1. AnthropicFrame(d, f) \in { OpenAs(d, f.kind, f.index), d }
        BY <3>1 DEF AnthropicFrame
      <4> QED BY <1>0, <4>1, OpenAsKept
    <3>2. CASE f.t = "content_block_delta"
      <4> DEFINE o == OpenAs(d, "text", f.index)
      <4>1. AnthropicFrame(d, f) \in { Delta(d, BlockOf(d, f.index), f.x), Delta(o, o.next - 1, f.x), d }
        BY <3>2 DEF AnthropicFrame
      <4>2. Kept(d, o)
        BY OpenAsKept
      <4> HIDE DEF o
      <4>3. Kept(o, Delta(o, o.next - 1, f.x)) /\ Kept(d, Delta(d, BlockOf(d, f.index), f.x))
        BY DeltaKept
      <4> QED BY <1>0, <4>1, <4>2, <4>3, KeptTwice
    <3>3. CASE f.t = "content_block_stop"
      <4>1. AnthropicFrame(d, f) \in { Close(d, BlockOf(d, f.index)), d }
        BY <3>3 DEF AnthropicFrame
      <4> QED BY <1>0, <4>1, CloseKept
    <3>4. CASE f.t \notin {"content_block_start", "content_block_delta", "content_block_stop"}
      <4>1. AnthropicFrame(d, f) = d
        BY <1>3, <3>4 DEF AnthropicFrame
      <4> QED BY <1>0, <4>1
    <3> QED BY <3>1, <3>2, <3>3, <3>4
  <2> QED BY <2>1, <2>2, NothingReported
<1> QED BY <1>1, <1>2, <1>3

\* a chunk,
LEMMA OpenAIReported ==
    ASSUME NEW f, Frame(f), Honest("openai", f), NEW d
    PROVE  Reported(d, UsageIn("openai", f), OpenAIFrame(d, f))
<1>0. \A e : Kept(e, e)
  BY DEF Kept
<1>1. CASE f.t # "chunk"
  <2>1. UsageIn("openai", f) = NoUsage /\ OpenAIFrame(d, f) = d
    BY <1>1 DEF Honest, Bearing, UsageIn, OpenAIFrame
  <2> QED BY <1>0, <2>1, NothingReported
<1>2. CASE f.t = "chunk"
  <2> DEFINE s == Start(d)
             v == ParseUsage("openai", f.usage)
             u == Usage(s, v)
             r == IF f.reasoning = <<>> THEN u ELSE SayProse(u, "reasoning", f.reasoning)
             x == IF f.content = <<>> THEN r ELSE SayProse(r, "text", f.content)
             c == SayCalls(x, f.calls)
             e == OpenAIFrame(d, f)
  <2>1. UsageIn("openai", f) = v
    BY <1>2 DEF Honest, Bearing, UsageIn
  <2>2. e = IF f.finish = "none" THEN c ELSE [c EXCEPT !.stop = OpenAIStop(f.finish)]
    BY <1>2 DEF OpenAIFrame, SayCalls
  <2>3. Kept(d, s)
    BY StartKept
  <2> HIDE DEF s, v, e
  <2>4. Reported(s, v, u)
    BY UsageReported
  <2> HIDE DEF u
  <2>5. Kept(u, r)
    BY <1>0, SayProseKept DEF Prose
  <2> HIDE DEF r
  <2>6. Kept(r, x)
    BY <1>0, SayProseKept DEF Prose
  <2> HIDE DEF x
  <2>7. Kept(x, c)
    <3>1. f.calls = <<>> \/ \E k : f.calls = << k >>
      BY <1>2 DEF Frame, Calls1
    <3>2. SayCalls(x, <<>>) = x /\ \A k : SayCalls(x, << k >>) = SayCall(x, k)
      BY SaysCalls
    <3>3. c = x \/ \E k : c = SayCall(x, k)
      BY <3>1, <3>2
    <3> QED BY <1>0, <3>3, SayCallKept
  <2> HIDE DEF c
  <2>8. Kept(c, e)
    BY <2>2 DEF Kept, IsDecoder, DecoderFields
  <2>9. Kept(u, e)
    BY <2>5, <2>6, <2>7, <2>8, KeptTwice
  <2> QED BY <2>1, <2>3, <2>4, <2>9, ReportedBetween DEF e
<1> QED BY <1>1, <1>2

\* a Responses event.
LEMMA ResponsesReported ==
    ASSUME NEW f, Frame(f), Honest("responses", f), NEW d
    PROVE  Reported(d, UsageIn("responses", f), ResponsesFrame(d, f))
<1>0. \A e : Kept(e, e)
  BY DEF Kept
<1>1. CASE f.t \in {"created", "completed"}
  <2> DEFINE s == Start(d)
             v == ParseUsage("responses", f.usage)
             u == Usage(s, v)
             e == ResponsesFrame(d, f)
  <2>1. UsageIn("responses", f) = v
    BY <1>1 DEF Honest, Bearing, UsageIn
  <2>2. e = IF f.status = "incomplete" THEN [u EXCEPT !.stop = "max_tokens"] ELSE u
    BY <1>1 DEF ResponsesFrame
  <2>3. Kept(d, s)
    BY StartKept
  <2> HIDE DEF s, v, e
  <2>4. Reported(s, v, u)
    BY UsageReported
  <2> HIDE DEF u
  <2>5. Kept(u, e)
    BY <2>2 DEF Kept, IsDecoder, DecoderFields
  <2> QED BY <2>1, <2>3, <2>4, <2>5, ReportedBetween DEF e
<1>2. CASE f.t \notin {"created", "completed"}
  <2>1. UsageIn("responses", f) = NoUsage
    BY <1>2 DEF Honest, Bearing, UsageIn
  <2>2. Kept(d, ResponsesFrame(d, f))
    <3>1. CASE f.t = "item_added"
      <4> DEFINE p == CloseProse(d)
      <4>1. ResponsesFrame(d, f) \in { OpenAs(p, "tool", f.key), d }
        BY <3>1 DEF ResponsesFrame
      <4>2. Kept(d, p)
        BY CloseProseKept
      <4> HIDE DEF p
      <4>3. Kept(p, OpenAs(p, "tool", f.key))
        BY OpenAsKept
      <4> QED BY <1>0, <4>1, <4>2, <4>3, KeptTwice
    <3>2. CASE f.t = "prose_delta"
      <4>1. ResponsesFrame(d, f) = SayProse(d, f.kind, f.x) /\ f.kind \in Prose
        BY <3>2 DEF ResponsesFrame, Frame
      <4> QED BY <4>1, SayProseKept
    <3>3. CASE f.t = "arguments_delta"
      <4>1. ResponsesFrame(d, f) \in { Delta(d, BlockOf(d, f.key), f.x), d }
        BY <3>3 DEF ResponsesFrame
      <4> QED BY <1>0, <4>1, DeltaKept
    <3>4. CASE f.t = "item_done"
      <4>1. ResponsesFrame(d, f) = ItemDone(d, f)
        BY <3>4 DEF ResponsesFrame
      <4> QED BY <4>1, ItemDoneKept
    <3>5. CASE f.t \notin {"item_added", "prose_delta", "arguments_delta", "item_done"}
      <4>1. ResponsesFrame(d, f) = d
        BY <1>2, <3>5 DEF ResponsesFrame
      <4> QED BY <1>0, <4>1
    <3> QED BY <3>1, <3>2, <3>3, <3>4, <3>5
  <2> QED BY <2>1, <2>2, NothingReported
<1> QED BY <1>1, <1>2

\* So every decoder does.
LEMMA FrameReported ==
    ASSUME NEW up \in Formats, NEW f, Frame(f), Honest(up, f), NEW d
    PROVE  Reported(d, UsageIn(up, f), DecodeFrame(up, d, f))
<1> DEFINE e == [d EXCEPT !.out = <<>>]
<1>0. \A x : Kept(x, x)
  BY DEF Kept
<1>1. Kept(d, e)
  BY DEF Kept, IsDecoder, DecoderFields
<1>2. DecodeFrame(up, d, f) = CASE up = "anthropic" -> AnthropicFrame(e, f)
                                [] up = "openai" -> OpenAIFrame(e, f)
                                [] up = "responses" -> ResponsesFrame(e, f)
  BY DEF DecodeFrame
<1> HIDE DEF e
<1>3. Reported(e, UsageIn(up, f), DecodeFrame(up, d, f))
  BY <1>2, AnthropicReported, OpenAIReported, ResponsesReported DEF Formats
<1> QED BY <1>0, <1>1, <1>3, ReportedBetween

-----------------------------------------------------------------------------
(* The reports the upstream sends.                                            *)

\* A frame with report u or none; a few of them.
Bears(f, u) == Honest(conn.up, f) /\ UsageIn(conn.up, f) \in {NoUsage, u}
Bearers(s, u) == IsSeq(s) /\ Len(s) \in 0 .. 4 /\ \A n \in DOMAIN s : Bears(s[n], u)

\* Chunks without a report, and with one.
LEMMA ChunkBears ==
    ASSUME conn.up = "openai"
    PROVE  /\ \A r, c, calls, u : Bears(Chunk(r, c, calls), u)
           /\ \A r, c, stop, u : Bears([Chunk(r, c, <<>>) EXCEPT !.finish = stop], u)
           /\ \A r, c, u : Bears([Chunk(r, c, <<>>) EXCEPT !.usage = u], ParseUsage(conn.up, u))
<1>0. conn.up \in Formats /\ Bearing(conn.up) = {"chunk"}
  BY DEF Formats, Bearing
<1>1. ParseUsage(conn.up, NoUsage) = NoUsage
  BY <1>0, NothingCounted
<1>2. ASSUME NEW f, "t" \in DOMAIN f, f.t = "chunk", "usage" \in DOMAIN f, NEW u, f.usage = NoUsage \/ u = ParseUsage(conn.up, f.usage)
      PROVE  Bears(f, u)
  BY <1>0, <1>1, <1>2 DEF Bears, Honest, UsageIn
<1>3. ASSUME NEW r, NEW c, NEW calls, NEW u PROVE Bears(Chunk(r, c, calls), u)
  <2> DEFINE f == Chunk(r, c, calls)
  <2>1. "t" \in DOMAIN f /\ f.t = "chunk" /\ "usage" \in DOMAIN f /\ f.usage = NoUsage
    BY DEF Chunk
  <2> HIDE DEF f
  <2> QED BY <1>2, <2>1 DEF f
<1>4. ASSUME NEW r, NEW c, NEW stop, NEW u PROVE Bears([Chunk(r, c, <<>>) EXCEPT !.finish = stop], u)
  <2> DEFINE f == [Chunk(r, c, <<>>) EXCEPT !.finish = stop]
  <2>1. "t" \in DOMAIN f /\ f.t = "chunk" /\ "usage" \in DOMAIN f /\ f.usage = NoUsage
    BY DEF Chunk
  <2> HIDE DEF f
  <2> QED BY <1>2, <2>1 DEF f
<1>5. ASSUME NEW r, NEW c, NEW u
      PROVE  Bears([Chunk(r, c, <<>>) EXCEPT !.usage = u], ParseUsage(conn.up, u))
  <2> DEFINE f == [Chunk(r, c, <<>>) EXCEPT !.usage = u]
  <2>1. "t" \in DOMAIN f /\ f.t = "chunk" /\ "usage" \in DOMAIN f /\ f.usage = u
    BY DEF Chunk
  <2> HIDE DEF f
  <2>2. Bears(f, ParseUsage(conn.up, f.usage))
    BY <1>2, <2>1
  <2> QED BY <2>1, <2>2 DEF f
<1> QED BY <1>3, <1>4, <1>5

\* Frames of the other formats without a report.
LEMMA PlainBears ==
    ASSUME conn.up \in Formats, NEW f, "t" \in DOMAIN f, "usage" \notin DOMAIN f, f.t \notin Bearing(conn.up),
           f.t # "comment"
    PROVE  \A u : Bears(f, u)
BY DEF Bears, Honest, UsageIn

\* A few frames.
LEMMA FewBear ==
    ASSUME NEW u
    PROVE  /\ Bearers(<<>>, u)
           /\ \A a : Bears(a, u) => Bearers(<< a >>, u)
           /\ \A a, b : Bears(a, u) /\ Bears(b, u) => Bearers(<< a, b >>, u)
           /\ \A a, b, c : Bears(a, u) /\ Bears(b, u) /\ Bears(c, u) => Bearers(<< a, b, c >>, u)
<1>1. Bearers(<<>>, u)
  BY SequencesOf DEF Bearers
<1>2. ASSUME NEW a, Bears(a, u) PROVE Bearers(<< a >>, u)
  BY <1>2, SequencesOf DEF Bearers
<1>3. ASSUME NEW a, NEW b, Bears(a, u), Bears(b, u) PROVE Bearers(<< a, b >>, u)
  <2>1. << a, b >>[1] = a /\ << a, b >>[2] = b /\ Len(<< a, b >>) = 2
    OBVIOUS
  <2> QED BY <1>3, <2>1, SequencesOf DEF Bearers
<1>4. ASSUME NEW a, NEW b, NEW c, Bears(a, u), Bears(b, u), Bears(c, u) PROVE Bearers(<< a, b, c >>, u)
  <2>1. << a, b, c >>[1] = a /\ << a, b, c >>[2] = b /\ << a, b, c >>[3] = c /\ Len(<< a, b, c >>) = 3
    OBVIOUS
  <2> QED BY <1>4, <2>1, SequencesOf DEF Bearers
<1> QED BY <1>1, <1>2, <1>3, <1>4

\* The upstream's two reports, as parsed.
FirstReport == ParseUsage(conn.up, talk.usage.first)
FinalReport == ParseUsage(conn.up, talk.usage.final)

\* The opening message bears the first report,
LEMMA StartBears == ASSUME conn.up \in Formats PROVE Bearers(StartFrames, FirstReport)
<1>1. CASE conn.up = "anthropic"
  <2> DEFINE u == talk.usage.first
             f == [t |-> "message_start", usage |-> u]
  <2>1. StartFrames = << f >>
    BY <1>1 DEF StartFrames
  <2>2. Bears(f, FirstReport)
    BY <1>1 DEF Bears, Honest, UsageIn, Bearing, FirstReport
  <2> HIDE DEF f
  <2> QED BY <2>1, <2>2, FewBear
<1>2. CASE conn.up = "openai"
  <2> DEFINE u == talk.usage.first
             f == [Chunk(<<>>, <<>>, <<>>) EXCEPT !.usage = u]
  <2>1. StartFrames = << f >> /\ FirstReport = ParseUsage(conn.up, u)
    BY <1>2 DEF StartFrames, FirstReport
  <2> HIDE DEF u
  <2>2. Bears(f, FirstReport)
    BY <1>2, <2>1, ChunkBears
  <2> HIDE DEF f
  <2> QED BY <2>1, <2>2, FewBear
<1>3. CASE conn.up = "responses"
  <2> DEFINE f == [t |-> "created", status |-> "in_progress", usage |-> NoUsage, output |-> <<>>]
  <2>1. StartFrames = << f >>
    BY <1>3 DEF StartFrames
  <2>2. Bears(f, FirstReport)
    <3>1. ParseUsage(conn.up, NoUsage) = NoUsage
      BY NothingCounted
    <3> QED BY <1>3, <3>1 DEF Bears, Honest, UsageIn, Bearing
  <2> HIDE DEF f
  <2> QED BY <2>1, <2>2, FewBear
<1> QED BY <1>1, <1>2, <1>3 DEF Formats

\* what it says bears none,
LEMMA OpenBears ==
    ASSUME conn.up \in Formats, NEW n, NEW kind, NEW u PROVE Bearers(OpenFrames(n, kind), u)
<1>1. CASE conn.up = "anthropic"
  <2> DEFINE f == [t |-> "content_block_start", index |-> n, kind |-> kind]
  <2>1. OpenFrames(n, kind) = << f >>
    BY <1>1 DEF OpenFrames
  <2>2. Bears(f, u)
    BY <1>1, PlainBears DEF Bearing
  <2> HIDE DEF f
  <2> QED BY <2>1, <2>2, FewBear
<1>2. CASE conn.up = "openai"
  <2> DEFINE f == CallChunk(n, <<>>)
  <2>1. OpenFrames(n, kind) = << f >> \/ OpenFrames(n, kind) = <<>>
    BY <1>2 DEF OpenFrames
  <2>2. Bears(f, u)
    BY <1>2, ChunkBears DEF CallChunk
  <2> HIDE DEF f
  <2> QED BY <2>1, <2>2, FewBear
<1>3. CASE conn.up = "responses"
  <2> DEFINE f == [t |-> "item_added", kind |-> kind, key |-> n]
  <2>1. OpenFrames(n, kind) = << f >>
    BY <1>3 DEF OpenFrames
  <2>2. Bears(f, u)
    BY <1>3, PlainBears DEF Bearing
  <2> HIDE DEF f
  <2> QED BY <2>1, <2>2, FewBear
<1> QED BY <1>1, <1>2, <1>3 DEF Formats

\* a piece,
LEMMA PieceBears ==
    ASSUME conn.up \in Formats, NEW n, NEW kind, NEW x, NEW u PROVE Bearers(PieceFrames(n, kind, x), u)
<1>1. CASE conn.up = "anthropic"
  <2> DEFINE f == [t |-> "content_block_delta", index |-> n, kind |-> kind, x |-> x]
  <2>1. PieceFrames(n, kind, x) = << f >>
    BY <1>1 DEF PieceFrames
  <2>2. Bears(f, u)
    BY <1>1, PlainBears DEF Bearing
  <2> HIDE DEF f
  <2> QED BY <2>1, <2>2, FewBear
<1>2. CASE conn.up = "openai"
  <2> DEFINE f == IF kind = "tool" THEN CallChunk(n, x) ELSE ProseChunk(kind, x)
  <2>1. PieceFrames(n, kind, x) = << f >>
    BY <1>2 DEF PieceFrames
  <2>2. Bears(f, u)
    <3>1. \E r, c, calls : f = Chunk(r, c, calls)
      BY DEF CallChunk, ProseChunk
    <3> HIDE DEF f
    <3> QED BY <1>2, <3>1, ChunkBears
  <2> HIDE DEF f
  <2> QED BY <2>1, <2>2, FewBear
<1>3. CASE conn.up = "responses"
  <2> DEFINE f == IF kind = "tool" THEN [t |-> "arguments_delta", key |-> n, x |-> x]
                                   ELSE [t |-> "prose_delta", kind |-> kind, x |-> x]
  <2>1. PieceFrames(n, kind, x) = << f >>
    BY <1>3 DEF PieceFrames
  <2>2. Bears(f, u)
    <3>1. "t" \in DOMAIN f /\ "usage" \notin DOMAIN f /\ f.t \in {"arguments_delta", "prose_delta"}
      OBVIOUS
    <3> HIDE DEF f
    <3> QED BY <1>3, <3>1, PlainBears DEF Bearing
  <2> HIDE DEF f
  <2> QED BY <2>1, <2>2, FewBear
<1> QED BY <1>1, <1>2, <1>3 DEF Formats

\* the end of a part,
LEMMA CloseBears ==
    ASSUME conn.up \in Formats, NEW n, NEW u PROVE Bearers(CloseFrames(n), u)
<1>1. CASE conn.up = "anthropic"
  <2> DEFINE f == [t |-> "content_block_stop", index |-> n]
  <2>1. CloseFrames(n) = << f >>
    BY <1>1 DEF CloseFrames
  <2>2. Bears(f, u)
    BY <1>1, PlainBears DEF Bearing
  <2> HIDE DEF f
  <2> QED BY <2>1, <2>2, FewBear
<1>2. CASE conn.up = "openai"
  <2>1. CloseFrames(n) = <<>>
    BY <1>2 DEF CloseFrames
  <2> QED BY <2>1, FewBear
<1>3. CASE conn.up = "responses"
  <2> DEFINE kind == talk.parts[n].kind
             x == talk.parts[n].x
             f == [t |-> "item_done", kind |-> kind, key |-> n, x |-> x]
  <2>1. CloseFrames(n) = << f >>
    BY <1>3 DEF CloseFrames
  <2>2. Bears(f, u)
    BY <1>3, PlainBears DEF Bearing
  <2> HIDE DEF f
  <2> QED BY <2>1, <2>2, FewBear
<1> QED BY <1>1, <1>2, <1>3 DEF Formats

\* or a whole call,
LEMMA CallBears ==
    ASSUME conn.up = "responses", NEW n, NEW x, NEW u
    PROVE  Bearers(<< [t |-> "item_done", kind |-> "tool", key |-> n, x |-> x] >>, u)
<1> DEFINE f == [t |-> "item_done", kind |-> "tool", key |-> n, x |-> x]
<1>1. Bears(f, u)
  <2>1. conn.up \in Formats /\ "t" \in DOMAIN f /\ "usage" \notin DOMAIN f /\ f.t = "item_done"
    BY DEF Formats
  <2> HIDE DEF f
  <2> QED BY <2>1, PlainBears DEF Bearing
<1> HIDE DEF f
<1>2. Bearers(<< f >>, u)
  BY <1>1, FewBear
<1> QED BY <1>2 DEF f

\* Frames and frames.
LEMMA BearsConcat ==
    ASSUME NEW u, NEW s, Bearers(s, u), NEW t, Bearers(t, u), Len(s) <= 1, Len(t) <= 3
    PROVE  Bearers(s \o t, u)
<1> DEFINE S == { s[n] : n \in DOMAIN s } \cup { t[n] : n \in DOMAIN t }
<1>1. s \in Seq(S) /\ t \in Seq(S) /\ \A p \in S : Bears(p, u)
  BY DEF Bearers, IsSeq
<1> HIDE DEF S
<1>2. s \o t \in Seq(S) /\ Len(s \o t) = Len(s) + Len(t) /\ Len(s) \in Nat /\ Len(t) \in Nat
  BY <1>1
<1>3. IsSeq(s \o t)
  BY <1>2, SeqIsSeq
<1>4. \A n \in DOMAIN (s \o t) : (s \o t)[n] \in S
  BY <1>2
<1>5. Len(s \o t) \in 0 .. 4
  BY <1>2
<1> QED BY <1>1, <1>3, <1>4, <1>5 DEF Bearers

\* and the end of the answer bears the final one.
LEMMA FinishBears ==
    ASSUME conn.up \in Formats, NEW stop, NEW repeats, NEW first, first \in {<<>>, << Comment >>}
    PROVE  Bearers(first \o FinishFrames(stop, repeats), FinalReport)
<1> DEFINE last == FinishFrames(stop, repeats)
<1>0. Bearers(first, FinalReport) /\ Len(first) <= 1
  <2>1. DOMAIN Comment = {"t", "energy"} /\ Comment.t = "comment" /\ Comment.energy = 1
    BY DEF Comment
  <2>2. "comment" \notin Bearing(conn.up)
    BY DEF Bearing, Formats
  <2>3. Bears(Comment, FinalReport)
    BY <2>1, <2>2 DEF Bears, Honest, UsageIn
  <2>4. Bearers(first, FinalReport)
    BY <2>3, FewBear
  <2>5. Len(first) <= 1
    <3>1. Len(<<>>) <= 1 /\ \A c : Len(<< c >>) <= 1
      OBVIOUS
    <3> QED BY <3>1
  <2> QED BY <2>4, <2>5
<1>1. CASE conn.up = "anthropic"
  <2> DEFINE u == talk.usage.final
             f == [t |-> "message_delta", stop |-> stop, usage |-> u]
             g == [t |-> "message_stop"]
  <2>1. last = << f, g >> /\ FinalReport = ParseUsage(conn.up, u)
    BY <1>1 DEF FinishFrames, FinalReport
  <2>2. Bears(f, FinalReport)
    <3> HIDE DEF u
    <3> QED BY <1>1, <2>1 DEF Bears, Honest, UsageIn, Bearing
  <2>3. Bears(g, FinalReport)
    BY <1>1, PlainBears DEF Bearing
  <2> HIDE DEF f, g, last
  <2>4. Bearers(last, FinalReport)
    BY <2>1, <2>2, <2>3, FewBear
  <2>5. Len(last) <= 3
    BY <2>1
  <2> QED BY <1>0, <2>4, <2>5, BearsConcat DEF last
<1>2. CASE conn.up = "openai"
  <2> DEFINE u == talk.usage.final
             f == [Chunk(<<>>, <<>>, <<>>) EXCEPT !.finish = stop]
             g == [Chunk(<<>>, <<>>, <<>>) EXCEPT !.usage = u]
             h == [t |-> "[DONE]"]
  <2>1. last = << f, g, h >> /\ FinalReport = ParseUsage(conn.up, u)
    BY <1>2 DEF FinishFrames, FinalReport
  <2>2. Bears(f, FinalReport) /\ Bears(g, FinalReport)
    <3> HIDE DEF u
    <3> QED BY <1>2, <2>1, ChunkBears
  <2>3. Bears(h, FinalReport)
    BY <1>2, PlainBears DEF Bearing
  <2> HIDE DEF f, g, h, last
  <2>4. Bearers(last, FinalReport)
    BY <2>1, <2>2, <2>3, FewBear
  <2>5. Len(last) <= 3
    BY <2>1
  <2> QED BY <1>0, <2>4, <2>5, BearsConcat DEF last
<1>3. CASE conn.up = "responses"
  <2> DEFINE u == talk.usage.final
             said == IF repeats THEN Said ELSE <<>>
             status == IF stop = "max_tokens" THEN "incomplete" ELSE "completed"
             f == [t |-> "completed", status |-> status, usage |-> u, output |-> said]
  <2>1. last = << f >> /\ FinalReport = ParseUsage(conn.up, u)
    BY <1>3 DEF FinishFrames, FinalReport
  <2> HIDE DEF u, said, status
  <2>2. Bears(f, FinalReport)
    BY <1>3, <2>1 DEF Bears, Honest, UsageIn, Bearing
  <2> HIDE DEF f, last
  <2>3. Bearers(last, FinalReport)
    BY <2>1, <2>2, FewBear
  <2>5. Len(last) <= 3
    BY <2>1
  <2> QED BY <1>0, <2>3, <2>5, BearsConcat DEF last
<1> QED BY <1>1, <1>2, <1>3 DEF Formats

-----------------------------------------------------------------------------
(* Reports on their way.                                                      *)

\* The report in a line; reports u and those in lines A, in this order, and then those still to
\* come, are cumulative.
In(up, l) == UsageIn(up, l.f)
InOrder(up, A, u, coming) ==
    /\ u \in Counts /\ \A v \in coming : v \in Counts /\ Cumulative(u, v)
    /\ \A k \in DOMAIN A :
          /\ In(up, A[k]) \in Counts /\ Cumulative(u, In(up, A[k]))
          /\ \A v \in coming : Cumulative(In(up, A[k]), v)
    /\ \A j, k \in DOMAIN A : j < k => Cumulative(In(up, A[j]), In(up, A[k]))

\* What arrives of a line reports the same, or nothing.
LEMMA AlikeReports ==
    ASSUME NEW up, NEW f, NEW g, Alike(f, g)
    PROVE  UsageIn(up, g) \in {UsageIn(up, f), NoUsage}
<1>1. CASE g = f
  BY <1>1
<1>2. CASE g = [t |-> "junk"]
  BY <1>2 DEF UsageIn
<1>3. ASSUME "x" \in DOMAIN f, NEW x, g = [f EXCEPT !.x = x] PROVE UsageIn(up, g) = UsageIn(up, f)
  <2>1. DOMAIN g = DOMAIN f /\ ("usage" \in DOMAIN f => g.usage = f.usage)
    BY <1>3
  <2> QED BY <2>1 DEF UsageIn
<1> QED BY <1>1, <1>2, <1>3 DEF Alike

\* It is in order too.
LEMMA OrderLike ==
    ASSUME NEW up, NEW A, NEW u, NEW coming, InOrder(up, A, u, coming), NEW B, Like(A, B),
           NEW fewer \in SUBSET coming
    PROVE  InOrder(up, B, u, fewer)
<1>1. DOMAIN B \subseteq DOMAIN A
  BY DEF Like
<1>2. ASSUME NEW k \in DOMAIN B PROVE In(up, B[k]) \in {In(up, A[k]), NoUsage}
  BY AlikeReports DEF Like, In
<1>3. NoUsage \in Counts /\ (\A a : Cumulative(a, NoUsage)) /\ \A v \in Counts : Cumulative(NoUsage, v)
  BY NothingCounted
<1>4. ASSUME NEW k \in DOMAIN B
      PROVE  /\ In(up, B[k]) \in Counts /\ Cumulative(u, In(up, B[k]))
             /\ \A v \in fewer : Cumulative(In(up, B[k]), v)
  BY <1>1, <1>2, <1>3 DEF InOrder
<1>5. ASSUME NEW j \in DOMAIN B, NEW k \in DOMAIN B, j < k PROVE Cumulative(In(up, B[j]), In(up, B[k]))
  <2>1. Cumulative(In(up, A[j]), In(up, A[k])) /\ In(up, A[k]) \in Counts
    BY <1>1, <1>5 DEF InOrder
  <2> QED BY <1>2, <1>3, <2>1
<1> QED BY <1>4, <1>5 DEF InOrder

\* After the first frame is taken, and its report merged, the others are.
LEMMA OrderTake ==
    ASSUME NEW up, NEW A, IsSeq(A), A # <<>>, NEW u, NEW coming, InOrder(up, A, u, coming),
           NEW B, B = SubSeq(A, 3, Len(A)), NEW m, m = MergeUsage(u, In(up, A[1]))
    PROVE  /\ In(up, A[1]) \in Counts /\ Cumulative(u, In(up, A[1]))
           /\ InOrder(up, B, m, coming)
<1> DEFINE S == { A[k] : k \in DOMAIN A }
<1>1. A \in Seq(S)
  BY DEF IsSeq
<1> HIDE DEF S
<1>2. Len(A) \in Nat /\ Len(A) >= 1 /\ DOMAIN A = 1 .. Len(A)
  BY <1>1
<1>3. DOMAIN B \subseteq Nat /\ \A k \in DOMAIN B : k + 2 \in DOMAIN A /\ B[k] = A[k + 2]
  <2>1. CASE Len(A) < 3
    BY <1>1, <1>2, <2>1
  <2>2. CASE Len(A) >= 3
    <3>1. Len(B) = Len(A) - 2 /\ DOMAIN B = 1 .. Len(A) - 2 /\ \A k \in 1 .. Len(A) - 2 : B[k] = A[k + 2]
      BY <1>1, <1>2, <2>2
    <3> QED BY <1>2, <3>1
  <2> QED BY <1>2, <2>1, <2>2
<1> DEFINE v == In(up, A[1])
<1>4. u \in Counts /\ v \in Counts /\ Cumulative(u, v)
  BY <1>2 DEF InOrder
<1>5. m \in Counts
  <2> HIDE DEF v
  <2> QED BY <1>4, MergedIsLater DEF v
<1>6. ASSUME NEW w \in Counts, Cumulative(u, w), Cumulative(v, w) PROVE Cumulative(m, w)
  <2> HIDE DEF v
  <2> QED BY <1>4, <1>6, CumulativeMerged DEF v
<1>7. ASSUME NEW w \in coming PROVE w \in Counts /\ Cumulative(m, w)
  BY <1>2, <1>6 DEF InOrder
<1>8. ASSUME NEW k \in DOMAIN B
      PROVE  /\ In(up, B[k]) \in Counts /\ Cumulative(m, In(up, B[k]))
             /\ \A w \in coming : Cumulative(In(up, B[k]), w)
  <2>1. k + 2 \in DOMAIN A /\ B[k] = A[k + 2] /\ 1 < k + 2 /\ 1 \in DOMAIN A
    BY <1>2, <1>3
  <2>2. /\ In(up, B[k]) \in Counts /\ Cumulative(u, In(up, B[k])) /\ Cumulative(v, In(up, B[k]))
        /\ \A w \in coming : Cumulative(In(up, B[k]), w)
    BY <2>1 DEF InOrder
  <2> HIDE DEF v
  <2> QED BY <1>6, <2>2
<1>9. ASSUME NEW j \in DOMAIN B, NEW k \in DOMAIN B, j < k PROVE Cumulative(In(up, B[j]), In(up, B[k]))
  <2>1. /\ j + 2 \in DOMAIN A /\ B[j] = A[j + 2] /\ k + 2 \in DOMAIN A /\ B[k] = A[k + 2] /\ j + 2 < k + 2
    BY <1>3, <1>9
  <2> QED BY <2>1 DEF InOrder
<1> QED BY <1>4, <1>5, <1>7, <1>8, <1>9 DEF InOrder

\* The lines of frames.
LEMMA LinesAre ==
    ASSUME NEW s, IsSeq(s)
    PROVE  /\ IsSeq(Lines(s)) /\ Len(s) \in Nat /\ Len(Lines(s)) = 2 * Len(s)
           /\ DOMAIN Lines(s) = 1 .. 2 * Len(s)
           /\ \A k \in DOMAIN Lines(s) : /\ DOMAIN Lines(s)[k] = {"f", "line"}
                                         /\ \E n \in DOMAIN s : Lines(s)[k].f = s[n]
<1> DEFINE L == Lines(s)
           T == { L[k] : k \in 1 .. 2 * Len(s) }
<1>1. Len(s) \in Nat /\ DOMAIN s = 1 .. Len(s)
  BY DEF IsSeq
<1>2. /\ L = [k \in 1 .. 2 * Len(s) |-> L[k]]
      /\ \A k \in 1 .. 2 * Len(s) : L[k] = [f |-> s[(k + 1) \div 2], line |-> IF k % 2 = 1 THEN "data" ELSE "blank"]
  BY DEF Lines
<1> HIDE DEF L
<1>3. L \in Seq(T) /\ Len(L) = 2 * Len(s) /\ DOMAIN L = 1 .. 2 * Len(s)
  <2>1. 2 * Len(s) \in Nat
    BY <1>1
  <2>2. L \in [1 .. 2 * Len(s) -> T]
    BY <1>2
  <2> HIDE DEF T
  <2>3. L \in Seq(T) /\ DOMAIN L = 1 .. 2 * Len(s)
    BY <2>1, <2>2
  <2> QED BY <2>1, <2>3, LenProperties
<1> HIDE DEF T
<1>4. IsSeq(L)
  BY <1>3, SeqIsSeq
<1>5. ASSUME NEW k \in 1 .. 2 * Len(s)
      PROVE  DOMAIN L[k] = {"f", "line"} /\ \E n \in DOMAIN s : L[k].f = s[n]
  <2>1. (k + 1) \div 2 \in DOMAIN s
    BY <1>1
  <2>2. L[k] = [f |-> s[(k + 1) \div 2], line |-> IF k % 2 = 1 THEN "data" ELSE "blank"]
    BY <1>2
  <2> DEFINE n == (k + 1) \div 2
             b == IF k % 2 = 1 THEN "data" ELSE "blank"
  <2> HIDE DEF n, b
  <2> QED BY <2>1, <2>2 DEF n, b
<1> QED BY <1>1, <1>3, <1>4, <1>5 DEF L

\* Frames sent behind lines in order, with the next report to come or none.
LEMMA OrderSend ==
    ASSUME conn.up \in Formats, NEW A, IsSeq(A), NEW u, NEW coming, InOrder(conn.up, A, u, coming),
           NEW v, v = NoUsage \/ v \in coming, NEW s, Bearers(s, v),
           NEW fewer \in SUBSET coming, \A w \in fewer : Cumulative(v, w),
           NEW B, B = A \o Lines(s)
    PROVE  InOrder(conn.up, B, u, fewer)
<1> DEFINE L == Lines(s)
           S == { A[k] : k \in DOMAIN A } \cup { L[k] : k \in DOMAIN L }
<1>1. IsSeq(L) /\ \A k \in DOMAIN L : \E n \in DOMAIN s : L[k].f = s[n]
  BY LinesAre DEF Bearers
<1> HIDE DEF L
<1>2. A \in Seq(S) /\ L \in Seq(S)
  BY <1>1 DEF IsSeq
<1> HIDE DEF S
<1>3. /\ B \in Seq(S) /\ Len(B) = Len(A) + Len(L)
      /\ \A k \in 1 .. Len(A) + Len(L) : B[k] = IF k <= Len(A) THEN A[k] ELSE L[k - Len(A)]
  BY <1>2, ConcatProperties DEF L
<1>4. /\ Len(A) \in Nat /\ Len(L) \in Nat /\ DOMAIN A = 1 .. Len(A) /\ DOMAIN L = 1 .. Len(L)
      /\ DOMAIN B = 1 .. Len(A) + Len(L)
  BY <1>2, <1>3, LenProperties
<1>5. NoUsage \in Counts /\ (\A a : Cumulative(a, NoUsage))
      /\ \A a \in Counts : Cumulative(NoUsage, a) /\ Cumulative(a, a)
  BY NothingCounted
<1>6. ASSUME NEW k \in DOMAIN L PROVE In(conn.up, L[k]) \in {NoUsage, v}
  BY <1>1 DEF Bearers, Bears, In
<1>7. v \in Counts /\ Cumulative(u, v) /\ \A k \in DOMAIN A : Cumulative(In(conn.up, A[k]), v)
  BY <1>5 DEF InOrder
<1>8. ASSUME NEW k \in DOMAIN B
      PROVE  \/ k \in DOMAIN A /\ B[k] = A[k]
             \/ ~(k <= Len(A)) /\ In(conn.up, B[k]) \in {NoUsage, v}
  <2>1. CASE k <= Len(A)
    BY <1>3, <1>4, <2>1
  <2>2. CASE ~(k <= Len(A))
    <3>1. B[k] = L[k - Len(A)] /\ k - Len(A) \in DOMAIN L
      BY <1>3, <1>4, <2>2
    <3> QED BY <1>6, <2>2, <3>1
  <2> QED BY <2>1, <2>2
<1>9. ASSUME NEW k \in DOMAIN B
      PROVE  /\ In(conn.up, B[k]) \in Counts /\ Cumulative(u, In(conn.up, B[k]))
             /\ \A w \in fewer : Cumulative(In(conn.up, B[k]), w)
  <2>1. CASE k \in DOMAIN A /\ B[k] = A[k]
    BY <2>1 DEF InOrder
  <2>2. CASE In(conn.up, B[k]) \in {NoUsage, v}
    BY <1>5, <1>7, <2>2 DEF InOrder
  <2> QED BY <1>8, <2>1, <2>2
<1>10. ASSUME NEW j \in DOMAIN B, NEW k \in DOMAIN B, j < k
       PROVE  Cumulative(In(conn.up, B[j]), In(conn.up, B[k]))
  <2>1. CASE k \in DOMAIN A /\ B[k] = A[k]
    <3>1. j <= Len(A)
      BY <1>4, <1>10, <2>1
    <3>2. j \in DOMAIN A /\ B[j] = A[j]
      BY <1>8, <3>1
    <3> QED BY <1>10, <2>1, <3>2 DEF InOrder
  <2>2. CASE In(conn.up, B[k]) = NoUsage
    BY <1>5, <2>2
  <2>3. CASE In(conn.up, B[k]) = v
    <3>1. CASE j \in DOMAIN A /\ B[j] = A[j]
      BY <1>7, <2>3, <3>1
    <3>2. CASE In(conn.up, B[j]) \in {NoUsage, v}
      BY <1>5, <1>7, <2>3, <3>2
    <3> QED BY <1>8, <3>1, <3>2
  <2> QED BY <1>8, <2>1, <2>2, <2>3
<1> QED BY <1>9, <1>10 DEF InOrder

-----------------------------------------------------------------------------
(* The lines on their way.                                                    *)

HonestLine(up, l) == DOMAIN l = {"f", "line"} /\ Honest(up, l.f)
HonestLines(up, s) == IsSeq(s) /\ \A k \in DOMAIN s : HonestLine(up, s[k])

\* The lines carry honest reports, and there are not too many of them.
CarriedInv ==
    /\ talk.usage \in Usages[conn.up]
    /\ HonestLines(conn.up, wire) /\ Len(wire) <= MaxWire + 8
    /\ HonestLines(conn.up, buf) /\ Len(buf) <= MaxWire + 9 /\ (PassThrough => Len(buf) <= 1)
    /\ IsSeq(taken)

\* Lines of a set of honest ones.
LEMMA HonestIn ==
    ASSUME NEW up, NEW S, NEW s \in Seq(S), \A l \in S : HonestLine(up, l)
    PROVE  HonestLines(up, s)
<1>1. IsSeq(s)
  BY SeqIsSeq
<1>2. \A k \in DOMAIN s : s[k] \in S
  OBVIOUS
<1> QED BY <1>1, <1>2 DEF HonestLines

\* What arrives of an honest frame is honest.
LEMMA AlikeHonest ==
    ASSUME NEW up \in Formats, NEW f, Honest(up, f), NEW g, Alike(f, g)
    PROVE  Honest(up, g)
<1>1. CASE g = f
  BY <1>1
<1>2. CASE g = [t |-> "junk"]
  <2>1. "junk" \notin Bearing(up)
    BY DEF Bearing, Formats
  <2> QED BY <1>2, <2>1 DEF Honest
<1>3. ASSUME "x" \in DOMAIN f, NEW x, g = [f EXCEPT !.x = x] PROVE Honest(up, g)
  <2>1. /\ DOMAIN g = DOMAIN f /\ ("t" \in DOMAIN f => g.t = f.t)
        /\ "energy" \in DOMAIN f => g.energy = f.energy
    BY <1>3
  <2> QED BY <2>1 DEF Honest
<1> QED BY <1>1, <1>2, <1>3 DEF Alike

\* A line with another frame.
LEMMA HonestChange ==
    ASSUME NEW up \in Formats, NEW l, HonestLine(up, l), NEW g, Alike(l.f, g), NEW m, m = [l EXCEPT !.f = g]
    PROVE  HonestLine(up, m)
<1>1. DOMAIN m = {"f", "line"} /\ m.f = g
  BY DEF HonestLine
<1>2. Honest(up, g)
  BY AlikeHonest DEF HonestLine
<1> QED BY <1>1, <1>2 DEF HonestLine

\* What is sent.
LEMMA SendCarries ==
    ASSUME CarriedInv, conn.up \in Formats, NEW s, NEW u, Bearers(s, u), Send(s), talk'.usage = talk.usage
    PROVE  CarriedInv'
<1>1. /\ Len(wire) <= MaxWire /\ wire' = wire \o Lines(s) /\ UNCHANGED <<conn, buf, taken>>
  BY DEF Send, driver
<1> DEFINE L == Lines(s)
           w == wire'
           S == { wire[k] : k \in DOMAIN wire } \cup { L[k] : k \in DOMAIN L }
<1>2. /\ IsSeq(L) /\ Len(s) \in Nat /\ Len(L) = 2 * Len(s)
      /\ \A k \in DOMAIN L : DOMAIN L[k] = {"f", "line"} /\ \E n \in DOMAIN s : L[k].f = s[n]
  BY LinesAre DEF Bearers
<1>3. w = wire \o L
  BY <1>1
<1> HIDE DEF L, w
<1>4. \A l \in S : HonestLine(conn.up, l)
  <2>1. \A k \in DOMAIN wire : HonestLine(conn.up, wire[k])
    BY DEF CarriedInv, HonestLines
  <2>2. \A k \in DOMAIN L : HonestLine(conn.up, L[k])
    BY <1>2 DEF Bearers, Bears, HonestLine
  <2> QED BY <2>1, <2>2
<1>5. wire \in Seq(S) /\ L \in Seq(S)
  BY <1>2 DEF CarriedInv, HonestLines, IsSeq
<1> HIDE DEF S
<1>6. w \in Seq(S) /\ Len(w) = Len(wire) + Len(L) /\ Len(wire) \in Nat /\ Len(L) \in Nat
  BY <1>3, <1>5
<1>7. HonestLines(conn.up, w)
  BY <1>4, <1>6, HonestIn
<1>8. Len(w) <= MaxWire + 8
  <2>1. Len(s) <= 4
    <3> DEFINE n == Len(s)
    <3>1. n \in 0 .. 4
      BY DEF Bearers
    <3> HIDE DEF n
    <3>2. n <= 4
      BY <3>1
    <3> QED BY <3>2 DEF n
  <2> QED BY <1>1, <1>2, <1>6, <2>1, StreamAssumption
<1>9. HonestLines(conn'.up, wire') /\ Len(wire') <= MaxWire + 8
  BY <1>1, <1>7, <1>8 DEF w
<1> QED BY <1>1, <1>9 DEF CarriedInv, PassThrough

\* The connection breaks.
LEMMA BreakCarries ==
    ASSUME CarriedInv, conn.up \in Formats, UpBreak PROVE CarriedInv'
<1>1. /\ talk' = [talk EXCEPT !.phase = "broken"] /\ UNCHANGED <<conn, buf, taken>>
  BY DEF UpBreak, driver
<1> DEFINE S == { wire[k] : k \in DOMAIN wire }
<1>2. wire \in Seq(S) /\ Len(wire) \in Nat /\ \A l \in S : HonestLine(conn.up, l)
  BY DEF CarriedInv, HonestLines, IsSeq
<1> HIDE DEF S
<1>3. Len(wire) <= MaxWire + 8 /\ MaxWire \in Nat
  BY StreamAssumption DEF CarriedInv
<1>20. \E n \in 0 .. Len(wire) :
           \/ wire' = SubSeq(wire, 1, n)
           \/ n > 0 /\ wire' = [SubSeq(wire, 1, n) EXCEPT ![n].f = [t |-> "junk"]]
  BY Zenon DEF UpBreak
<1>21. PICK n \in 0 .. Len(wire) :
           \/ wire' = SubSeq(wire, 1, n)
           \/ n > 0 /\ wire' = [SubSeq(wire, 1, n) EXCEPT ![n].f = [t |-> "junk"]]
  BY <1>20, Zenon
<1> DEFINE kept == SubSeq(wire, 1, n)
<1>4. /\ kept = SubSeq(wire, 1, n)
      /\ \/ wire' = kept
         \/ n > 0 /\ wire' = [kept EXCEPT ![n].f = [t |-> "junk"]]
  BY <1>21, Zenon
<1> HIDE DEF kept
<1>5. kept \in Seq(S) /\ Len(kept) = n /\ DOMAIN kept = 1 .. n
  BY <1>2, <1>4, FirstLines
<1>6. Len(kept) <= MaxWire + 8
  BY <1>2, <1>3, <1>5
<1>7. CASE wire' = kept
  <2>1. HonestLines(conn.up, kept)
    BY <1>2, <1>5, HonestIn
  <2> QED BY <1>1, <1>6, <1>7, <2>1 DEF CarriedInv, PassThrough
<1>8. CASE n > 0 /\ wire' = [kept EXCEPT ![n].f = [t |-> "junk"]]
  <2> DEFINE g == [t |-> "junk"]
             l == [kept[n] EXCEPT !.f = g]
             T == S \cup {l}
             w == wire'
  <2>1. w = [kept EXCEPT ![n] = l]
    BY <1>8
  <2>2. kept[n] \in S /\ kept \in Seq(T) /\ l \in T
    <3>1. n \in DOMAIN kept
      BY <1>2, <1>5, <1>8
    <3>2. kept[n] \in S
      BY <1>5, <3>1
    <3> HIDE DEF l
    <3> QED BY <1>5, <3>2
  <2>3. Alike(kept[n].f, g)
    BY DEF Alike
  <2> HIDE DEF g
  <2>4. HonestLine(conn.up, l)
    BY <1>2, <2>2, <2>3, HonestChange
  <2>5. \A m \in T : HonestLine(conn.up, m)
    BY <1>2, <2>4
  <2> HIDE DEF w, l, T
  <2>6. w \in Seq(T) /\ Len(w) = Len(kept)
    <3>1. n \in 1 .. Len(kept)
      BY <1>2, <1>5, <1>8
    <3> QED BY <2>1, <2>2, <3>1, ExceptSeq
  <2>7. HonestLines(conn.up, w)
    BY <2>5, <2>6, HonestIn
  <2>8. wire' = w
    BY DEF w
  <2> HIDE DEF w
  <2> QED BY <1>1, <1>6, <2>6, <2>7, <2>8 DEF CarriedInv, PassThrough
<1> QED BY <1>4, <1>7, <1>8

\* The frames taken out of a buffer.
LEMMA TakenIs ==
    ASSUME NEW S, NEW c \in Seq(S)
    PROVE  IsSeq(Taken(c)) /\ \A n \in DOMAIN Taken(c) : \E k \in DOMAIN c : Taken(c)[n] = c[k].f
<1> DEFINE t == Taken(c)
           h == Len(c) \div 2
           T == { t[n] : n \in 1 .. h }
<1>1. h \in Nat /\ \A n \in 1 .. h : 2 * n - 1 \in 1 .. Len(c)
  OBVIOUS
<1>2. t = [n \in 1 .. h |-> t[n]] /\ \A n \in 1 .. h : t[n] = c[2 * n - 1].f
  BY DEF Taken
<1> HIDE DEF t, h
<1>3. t \in Seq(T) /\ DOMAIN t = 1 .. h
  <2>1. t \in [1 .. h -> T]
    BY <1>2
  <2> HIDE DEF T
  <2> QED BY <1>1, <2>1
<1> HIDE DEF T
<1>4. IsSeq(t)
  BY <1>3, SeqIsSeq
<1>5. DOMAIN c = 1 .. Len(c)
  OBVIOUS
<1>6. \A n \in DOMAIN t : \E k \in DOMAIN c : t[n] = c[k].f
  BY <1>1, <1>2, <1>3, <1>5
<1> QED BY <1>4, <1>6 DEF t

\* A chunk of lines.
LEMMA ChunkCarries ==
    ASSUME CarriedInv, conn.up \in Formats, ReadChunk PROVE CarriedInv'
<1>1. PICK n \in 0 .. Len(wire) :
        LET first == SubSeq(wire, 1, n)
            rest == SubSeq(wire, n + 1, Len(wire))
            b == buf \o first
        IN  /\ \/ wire' = rest
               \/ rest # <<>> /\ HasText(rest[1]) /\ wire' = [rest EXCEPT ![1] = Garble(@)]
            /\ IF PassThrough THEN buf' = Rest(b) /\ taken' = taken \o Taken(b)
               ELSE buf' = b /\ taken' = taken
  BY DEF ReadChunk
<1>2. Len(buf) < 2 /\ UNCHANGED <<conn, talk>>
  BY DEF ReadChunk
<1> DEFINE p == SubSeq(wire, 1, n)
           r == SubSeq(wire, n + 1, Len(wire))
           c == buf \o p
           w == wire'
           b == buf'
<1>3. /\ \/ w = r
         \/ r # <<>> /\ HasText(r[1]) /\ w = [r EXCEPT ![1] = Garble(@)]
      /\ IF PassThrough THEN b = Rest(c) /\ taken' = taken \o Taken(c) ELSE b = c /\ taken' = taken
  BY <1>1
<1>4. IsSeq(buf) /\ IsSeq(wire) /\ Splits(wire, buf, n, p, r, c) /\ Len(wire) <= MaxWire + 8 /\ MaxWire \in Nat
  BY StreamAssumption DEF CarriedInv, HonestLines, Splits
<1> DEFINE S == { wire[k] : k \in DOMAIN wire } \cup { buf[k] : k \in DOMAIN buf }
<1>5. wire \in Seq(S) /\ buf \in Seq(S) /\ \A l \in S : HonestLine(conn.up, l)
  BY DEF CarriedInv, HonestLines, IsSeq
<1> HIDE DEF S
<1>6. r \in Seq(S) /\ c \in Seq(S)
  <2>1. p \in Seq(S) /\ r \in Seq(S)
    BY <1>5
  <2> HIDE DEF p
  <2> QED BY <1>5, <2>1
<1> HIDE DEF p, r, c
<1>7. Whole(wire, buf, n, p, r, c)
  BY <1>4, ChunkSplits
<1>8. /\ Len(c) = Len(buf) + n /\ Len(r) = Len(wire) - n /\ n \in Nat /\ n <= Len(wire)
      /\ Len(buf) \in Nat /\ Len(wire) \in Nat
  BY <1>7 DEF Whole
<1>9. HonestLines(conn.up, w) /\ Len(w) <= MaxWire + 8
  <2>0. Len(r) <= MaxWire + 8
    BY <1>4, <1>8
  <2>1. CASE w = r
    BY <1>5, <1>6, <2>0, <2>1, HonestIn
  <2>2. CASE r # <<>> /\ HasText(r[1]) /\ w = [r EXCEPT ![1] = Garble(@)]
    <3> DEFINE f == r[1].f
               x == <<Garbled>>
               g == [f EXCEPT !.x = x]
               l == [r[1] EXCEPT !.f = g]
               T == S \cup {l}
    <3>1. w = [r EXCEPT ![1] = l] /\ r[1] \in S /\ r \in Seq(T) /\ l \in T /\ 1 \in DOMAIN r
      BY <1>6, <2>2 DEF Garble
    <3>2. Alike(r[1].f, g)
      <4>1. "x" \in DOMAIN f
        BY <2>2 DEF HasText
      <4> HIDE DEF x
      <4> QED BY <4>1 DEF Alike
    <3> HIDE DEF g
    <3>3. HonestLine(conn.up, l)
      BY <1>5, <3>1, <3>2, HonestChange
    <3>4. \A m \in T : HonestLine(conn.up, m)
      BY <1>5, <3>3
    <3> HIDE DEF w, l, T
    <3>5. w \in Seq(T) /\ Len(w) = Len(r)
      BY <3>1
    <3> QED BY <2>0, <3>4, <3>5, HonestIn
  <2> QED BY <1>3, <2>1, <2>2
<1>10. HonestLines(conn.up, c)
  BY <1>5, <1>6, HonestIn
<1>11. /\ HonestLines(conn.up, b) /\ Len(b) <= MaxWire + 9 /\ (PassThrough => Len(b) <= 1)
       /\ IsSeq(taken')
  <2>1. CASE PassThrough
    <3>1. b = Rest(c) /\ taken' = taken \o Taken(c)
      BY <1>3, <2>1
    <3>2. HonestLines(conn.up, b) /\ Len(b) \in {0, 1}
      <4>1. CASE b = <<>>
        <5>1. <<>> \in Seq(S) /\ Len(<<>>) = 0
          OBVIOUS
        <5> QED BY <1>5, <4>1, <5>1, HonestIn
      <4>2. CASE b # <<>>
        <5>1. b = << Last(c) >> /\ c # <<>>
          BY <3>1, <4>2 DEF Rest
        <5>2. Last(c) \in S
          BY <1>6, <5>1 DEF Last
        <5>3. b \in Seq(S) /\ Len(b) = 1
          BY <5>1, <5>2
        <5> QED BY <1>5, <5>3, HonestIn
      <4> QED BY <4>1, <4>2
    <3>3. IsSeq(taken')
      <4> DEFINE t == Taken(c)
                 U == { taken[k] : k \in DOMAIN taken } \cup { t[k] : k \in DOMAIN t }
      <4>1. IsSeq(t)
        BY <1>6, TakenIs
      <4>2. taken \in Seq(U) /\ t \in Seq(U)
        BY <4>1 DEF CarriedInv, IsSeq
      <4> HIDE DEF t, U
      <4>3. taken \o t \in Seq(U)
        BY <4>2
      <4> QED BY <3>1, <4>3, SeqIsSeq DEF t
    <3>4. Len(b) <= 1 /\ Len(b) <= MaxWire + 9
      <4> DEFINE k == Len(b)
      <4>1. k \in {0, 1}
        BY <3>2
      <4> HIDE DEF b, k
      <4>2. k <= 1 /\ k <= MaxWire + 9
        BY <1>4, <4>1
      <4> QED BY <4>2 DEF k
    <3> QED BY <3>2, <3>3, <3>4
  <2>2. CASE ~PassThrough
    <3>1. b = c /\ taken' = taken
      BY <1>3, <2>2
    <3>2. Len(c) <= MaxWire + 9
      BY <1>2, <1>4, <1>8
    <3> QED BY <1>10, <2>2, <3>1, <3>2 DEF CarriedInv
  <2> QED BY <2>1, <2>2
<1> QED BY <1>2, <1>9, <1>11 DEF CarriedInv, PassThrough, w, b

\* The upstream says frames with report u, and gets from one phase to another.
Says(s, u) == Bearers(s, u) /\ Send(s) /\ talk'.usage = talk.usage
Phases(a, b) == talk.phase = a /\ talk'.phase = b

\* What the upstream says is a few frames: the opening message, what comes between, or the end.
LEMMA UpSays ==
    ASSUME Talks(talk), conn.up \in Formats, Upstream
    PROVE  \/ UpClosed \/ UpBreak
           \/ \E s : \/ Phases("new", "talk") /\ Says(s, FirstReport)
                     \/ Phases("talk", "talk") /\ Says(s, NoUsage)
                     \/ Phases("talk", "finished") /\ Says(s, FinalReport)
<1>0. {"phase", "parts", "pieces", "stop", "usage"} = DOMAIN talk
  BY DEF Talks
<1>1. CASE UpStart
  <2>1. talk' = [talk EXCEPT !.phase = "talk"] /\ talk.phase = "new" /\ Send(StartFrames)
    BY <1>1 DEF UpStart
  <2>2. Says(StartFrames, FirstReport)
    BY <1>0, <2>1, StartBears DEF Says
  <2> QED BY <1>0, <2>1, <2>2 DEF Phases
<1>2. CASE UpPiece
  <2>1. PICK n \in DOMAIN talk.parts :
          /\ talk.phase = "talk"
          /\ talk' = [talk EXCEPT !.parts[n].x = @ \o NextPiece, !.pieces = @ + 1]
          /\ Send(PieceFrames(n, talk.parts[n].kind, NextPiece))
    BY <1>2 DEF UpPiece
  <2>2. talk'.usage = talk.usage /\ talk'.phase = "talk"
    BY <1>0, <2>1
  <2> DEFINE s == PieceFrames(n, talk.parts[n].kind, NextPiece)
  <2>3. Bearers(s, NoUsage)
    BY PieceBears
  <2> HIDE DEF s
  <2>4. Says(s, NoUsage)
    BY <2>1, <2>2, <2>3 DEF Says, s
  <2> QED BY <2>1, <2>2, <2>4 DEF Phases
<1>3. CASE UpClose
  <2>1. PICK n \in DOMAIN talk.parts :
          talk.phase = "talk" /\ talk' = [talk EXCEPT !.parts[n].open = FALSE] /\ Send(CloseFrames(n))
    BY <1>3 DEF UpClose
  <2>2. talk'.usage = talk.usage /\ talk'.phase = "talk"
    BY <1>0, <2>1
  <2>3. Says(CloseFrames(n), NoUsage)
    BY <2>1, <2>2, CloseBears DEF Says
  <2> QED BY <2>1, <2>2, <2>3 DEF Phases
<1>4. CASE UpWholeCall
  <2> DEFINE n == Len(talk.parts) + 1
             s == << [t |-> "item_done", kind |-> "tool", key |-> n, x |-> NextPiece] >>
             p == [Part("tool", NextPiece) EXCEPT !.open = FALSE]
  <2>1. /\ conn.up = "responses" /\ talk.phase = "talk" /\ Send(s)
        /\ talk' = [talk EXCEPT !.parts = Append(@, p), !.pieces = @ + 1]
    BY <1>4 DEF UpWholeCall
  <2>2. talk'.usage = talk.usage /\ talk'.phase = "talk"
    <3> HIDE DEF p
    <3> QED BY <1>0, <2>1
  <2>3. Bearers(s, NoUsage)
    <3> HIDE DEF n
    <3> QED BY <2>1, CallBears
  <2> HIDE DEF s
  <2>4. Says(s, NoUsage)
    BY <2>1, <2>2, <2>3 DEF Says
  <2> QED BY <2>1, <2>2, <2>4 DEF Phases
<1>5. CASE UpFinish
  <2>1. PICK stop, repeats, comments :
          /\ talk.phase = "talk" /\ talk' = [talk EXCEPT !.phase = "finished", !.stop = stop]
          /\ Send((IF comments THEN << Comment >> ELSE <<>>) \o FinishFrames(stop, repeats))
    BY <1>5 DEF UpFinish
  <2> DEFINE first == IF comments THEN << Comment >> ELSE <<>>
             s == first \o FinishFrames(stop, repeats)
  <2>2. first \in {<<>>, << Comment >>}
    OBVIOUS
  <2>3. talk'.usage = talk.usage /\ talk'.phase = "finished"
    BY <1>0, <2>1
  <2>4. Send(s)
    BY <2>1
  <2> HIDE DEF first
  <2>5. Bearers(s, FinalReport)
    BY <2>2, FinishBears
  <2> HIDE DEF s
  <2>6. Says(s, FinalReport)
    BY <2>3, <2>4, <2>5 DEF Says
  <2> QED BY <2>1, <2>3, <2>6 DEF Phases
<1>6. ASSUME NEW kind \in Kinds, UpOpen(kind)
      PROVE  \E s : Phases("talk", "talk") /\ Says(s, NoUsage)
  <2>1. PICK n, x, first, parts, pieces :
          /\ talk.phase = "talk" /\ talk' = [talk EXCEPT !.parts = parts, !.pieces = pieces]
          /\ Send(IF first THEN PieceFrames(n, kind, x) ELSE OpenFrames(n, kind))
    BY <1>6 DEF UpOpen
  <2>2. talk'.usage = talk.usage /\ talk'.phase = "talk"
    BY <1>0, <2>1
  <2> DEFINE s == IF first THEN PieceFrames(n, kind, x) ELSE OpenFrames(n, kind)
  <2>3. Bearers(s, NoUsage)
    <3>1. Bearers(PieceFrames(n, kind, x), NoUsage)
      BY PieceBears
    <3>2. Bearers(OpenFrames(n, kind), NoUsage)
      BY OpenBears
    <3> QED BY <3>1, <3>2
  <2>4. Send(s)
    BY <2>1
  <2> HIDE DEF s
  <2>5. Says(s, NoUsage)
    BY <2>2, <2>3, <2>4 DEF Says
  <2> QED BY <2>1, <2>2, <2>5 DEF Phases
<1> QED BY <1>1, <1>2, <1>3, <1>4, <1>5, <1>6 DEF Upstream

\* The lines out of the buffer and of the connection.
LEMMA RestCarried ==
    ASSUME NEW up, NEW s, HonestLines(up, s), Len(s) >= 2
    PROVE  HonestLines(up, SubSeq(s, 3, Len(s))) /\ Len(SubSeq(s, 3, Len(s))) = Len(s) - 2 /\ Len(s) \in Nat
<1> DEFINE S == { s[k] : k \in DOMAIN s }
           n == Len(s)
           r == SubSeq(s, 3, n)
<1>1. s \in Seq(S) /\ n \in Nat /\ \A l \in S : HonestLine(up, l)
  BY DEF HonestLines, IsSeq
<1> HIDE DEF S
<1>2. r \in Seq(S)
  BY <1>1
<1>3. Len(r) = IF 3 <= n THEN n - 3 + 1 ELSE 0
  BY <1>1
<1>4. HonestLines(up, r)
  <2> HIDE DEF r
  <2> QED BY <1>1, <1>2, HonestIn
<1>5. n >= 2
  OBVIOUS
<1> HIDE DEF n
<1>6. (IF 3 <= n THEN n - 3 + 1 ELSE 0) = n - 2
  BY <1>1, <1>5
<1> QED BY <1>1, <1>3, <1>4, <1>6 DEF n

\* Every step.
LEMMA CarriedKeeps ==
    ASSUME WireInv, StreamInv, CarriedInv, [Next]_vars PROVE CarriedInv'
<1>0. conn.up \in Formats /\ MaxWire \in Nat /\ Talks(talk)
  BY ConnTyped, StreamAssumption DEF WireInv
<1>1. CASE Upstream
  <2>1. CASE UpClosed
    BY <2>1 DEF UpClosed, driver, CarriedInv, PassThrough
  <2>2. CASE UpBreak
    BY <1>0, <2>2, BreakCarries
  <2>3. ASSUME NEW s, NEW u, Says(s, u) PROVE CarriedInv'
    BY <1>0, <2>3, SendCarries DEF Says
  <2> QED BY <1>0, <1>1, <2>1, <2>2, <2>3, UpSays
<1>2. CASE ReadChunk
  BY <1>0, <1>2, ChunkCarries
<1>3. HonestLines(conn.up, <<>>) /\ Len(<<>>) = 0 /\ IsSeq(<<>>)
  BY SequencesOf DEF HonestLines
<1>4. ASSUME NEW f, taken' = Append(taken, f) PROVE IsSeq(taken')
  BY <1>4, Grows DEF Grown, CarriedInv
<1>5. CASE TakeFrame
  <2>1. /\ ~PassThrough /\ Len(buf) >= 2 /\ buf' = SubSeq(buf, 3, Len(buf)) /\ wire' = wire
        /\ UNCHANGED <<conn, talk>> /\ taken' = Append(taken, buf[1].f)
    BY <1>5 DEF TakeFrame, Process, body
  <2> DEFINE b == buf'
  <2>2. HonestLines(conn.up, b) /\ Len(b) = Len(buf) - 2 /\ Len(buf) \in Nat /\ Len(buf) <= MaxWire + 9
    BY <2>1, RestCarried DEF CarriedInv
  <2> HIDE DEF b
  <2>3. Len(b) <= MaxWire + 9
    BY <1>0, <2>2
  <2> QED BY <1>4, <2>1, <2>2, <2>3 DEF CarriedInv, PassThrough, b
<1>6. CASE ReadEnd
  <2>1. ~PassThrough /\ wire' = wire /\ UNCHANGED <<conn, talk>>
    BY <1>6 DEF ReadEnd, body
  <2>2. CASE buf' = buf /\ taken' = taken
    BY <2>1, <2>2 DEF CarriedInv, PassThrough
  <2>3. CASE buf' = <<>> /\ taken' = Append(taken, buf[1].f)
    <3>1. 0 <= MaxWire + 9
      BY <1>0
    <3> QED BY <1>3, <1>4, <2>1, <2>3, <3>1 DEF CarriedInv, PassThrough
  <2> QED BY <1>6, <2>2, <2>3 DEF ReadEnd, Process
<1>7. CASE ScanEnd
  <2>1. PassThrough /\ wire' = wire /\ UNCHANGED <<conn, talk>>
    BY <1>7 DEF ScanEnd, body
  <2>2. CASE buf' = buf /\ taken' = taken
    BY <2>1, <2>2 DEF CarriedInv, PassThrough
  <2>3. CASE buf' = <<>> /\ taken' = taken \o [n \in DOMAIN buf |-> buf[n].f]
    <3>1. 0 <= MaxWire + 9 /\ 0 <= 1
      BY <1>0
    <3>2. IsSeq(taken')
      <4> DEFINE t == [n \in DOMAIN buf |-> buf[n].f]
                 N == Len(buf)
                 U == { taken[k] : k \in DOMAIN taken } \cup { buf[n].f : n \in DOMAIN buf }
      <4>1. N \in Nat /\ DOMAIN buf = 1 .. N
        BY DEF CarriedInv, HonestLines, IsSeq
      <4>2. t \in [1 .. N -> U]
        BY <4>1
      <4>3. taken \in Seq(U)
        BY DEF CarriedInv, IsSeq
      <4> HIDE DEF U, N
      <4>4. t \in Seq(U)
        BY <4>1, <4>2
      <4> HIDE DEF t
      <4>5. taken \o t \in Seq(U)
        BY <4>3, <4>4
      <4> QED BY <2>3, <4>5, SeqIsSeq DEF t
    <3> QED BY <1>3, <2>1, <2>3, <3>1, <3>2 DEF CarriedInv, PassThrough
  <2> QED BY <1>7, <2>2, <2>3 DEF ScanEnd
<1>8. CASE Finalize \/ Yield
  BY <1>8 DEF Finalize, Yield, body, CarriedInv, PassThrough
<1>9. CASE HangUp
  <2>1. wire' = <<>> /\ buf' = <<>> /\ UNCHANGED <<conn, talk, taken>>
    BY <1>9 DEF HangUp
  <2>2. 0 <= MaxWire + 8 /\ 0 <= MaxWire + 9 /\ 0 <= 1
    BY <1>0
  <2> QED BY <1>3, <2>1, <2>2 DEF CarriedInv, PassThrough
<1>10. CASE UNCHANGED vars
  BY <1>10 DEF vars, body, driver, CarriedInv, PassThrough
<1> QED BY <1>1, <1>2, <1>5, <1>6, <1>7, <1>8, <1>9, <1>10 DEF Next, Stopped, Proxy

\* And at the start.
LEMMA InitCarries == ASSUME Init PROVE CarriedInv
<1>1. wire = <<>> /\ buf = <<>> /\ taken = <<>> /\ talk.usage \in Usages[conn.up]
  BY DEF Init
<1>2. HonestLines(conn.up, <<>>) /\ Len(<<>>) = 0 /\ IsSeq(<<>>)
  BY SequencesOf DEF HonestLines
<1>3. 0 <= MaxWire + 8 /\ 0 <= MaxWire + 9 /\ 0 <= 1
  BY StreamAssumption
<1> QED BY <1>1, <1>2, <1>3 DEF CarriedInv

-----------------------------------------------------------------------------
(* The reports on their way are cumulative.                                   *)

\* The reports the upstream still has to send.
Coming == CASE talk.phase = "new" -> {FirstReport, FinalReport}
            [] talk.phase = "talk" -> {FinalReport}
            [] OTHER -> {}
ReportsInv == ~PassThrough /\ ~hung /\ ~finalized => InOrder(conn.up, Ahead, dec.usage, Coming)

\* What is sent comes behind what is on its way.
LEMMA AheadSend ==
    ASSUME IsSeq(buf), IsSeq(wire), NEW s, IsSeq(s), wire' = wire \o Lines(s), buf' = buf
    PROVE  Ahead' = Ahead \o Lines(s)
<1> DEFINE L == Lines(s)
           T == { L[n] : n \in DOMAIN L } \cup { buf[n] : n \in DOMAIN buf } \cup { wire[n] : n \in DOMAIN wire }
<1>1. IsSeq(L)
  BY LinesAre
<1> HIDE DEF L
<1>2. L \in Seq(T) /\ buf \in Seq(T) /\ wire \in Seq(T)
  BY <1>1 DEF IsSeq
<1> HIDE DEF T
<1>3. buf \o (wire \o L) = (buf \o wire) \o L
  BY <1>2, ConcatAssociative
<1> QED BY <1>3 DEF Ahead, L

\* The upstream's two reports.
LEMMA ReportsCounted ==
    ASSUME CarriedInv, conn.up \in Formats
    PROVE  /\ FirstReport \in Counts /\ FinalReport \in Counts /\ Cumulative(FirstReport, FinalReport)
           /\ Cumulative(NoUsage, FirstReport) /\ Cumulative(NoUsage, FinalReport)
<1> DEFINE u == talk.usage
<1>1. u.first \in Counts /\ u.final \in Counts /\ Cumulative(FirstReport, FinalReport)
  BY UsagesAssumption DEF CarriedInv, FirstReport, FinalReport
<1>2. FirstReport \in Counts /\ FinalReport \in Counts
  BY <1>1, CountsParsed DEF FirstReport, FinalReport
<1> QED BY <1>1, <1>2, NothingCounted

\* A frame is taken; it is the first ahead.
Taking == TakeFrame \/ (ReadEnd /\ end = "eof" /\ buf # <<>>)

\* It goes through the decoder, and its two lines are gone.
LEMMA TakesFirst ==
    ASSUME WireInv, StreamInv, Taking
    PROVE  /\ ~PassThrough /\ ~hung /\ ~finalized /\ pending = <<>> /\ ~done
           /\ UNCHANGED <<conn, talk, scan, done, finalized, rows, got, hung>>
           /\ buf # <<>> /\ Ahead # <<>> /\ Ahead[1] = buf[1] /\ Process(Ahead[1].f)
           /\ Ahead' = SubSeq(Ahead, 3, Len(Ahead))
<1>1. CASE TakeFrame
  <2>1. /\ ~PassThrough /\ ~hung /\ ~finalized /\ pending = <<>> /\ ~done /\ Len(buf) >= 2
        /\ UNCHANGED <<conn, talk, scan, done, finalized, rows, got, hung>>
        /\ Process(buf[1].f) /\ buf' = SubSeq(buf, 3, Len(buf)) /\ wire' = wire
    BY <1>1 DEF TakeFrame, StreamInv, body
  <2>2. IsSeq(buf) /\ IsSeq(wire)
    BY DEF WireInv
  <2>3. /\ SubSeq(buf, 3, Len(buf)) \o wire = SubSeq(Ahead, 3, Len(Ahead))
        /\ Ahead # <<>> /\ Ahead[1] = buf[1]
    BY <2>1, <2>2, TakeTwo DEF Ahead
  <2>4. Ahead' = SubSeq(buf, 3, Len(buf)) \o wire
    BY <2>1 DEF Ahead
  <2>5. buf # <<>>
    <3>1. Len(<<>>) = 0
      OBVIOUS
    <3> QED BY <2>1, <3>1
  <2> QED BY <2>1, <2>3, <2>4, <2>5
<1>2. CASE ReadEnd /\ end = "eof" /\ buf # <<>>
  <2>1. /\ ~PassThrough /\ ~hung /\ ~finalized /\ pending = <<>> /\ ~done /\ wire = <<>> /\ Len(buf) < 2
        /\ UNCHANGED <<conn, talk, scan, done, finalized, rows, got, hung>>
        /\ Process(buf[1].f) /\ buf' = <<>> /\ wire' = wire
    BY <1>2 DEF ReadEnd, StreamInv, body, AtEnd
  <2> DEFINE S == { buf[k] : k \in DOMAIN buf }
  <2>2. buf \in Seq(S)
    BY DEF WireInv, IsSeq
  <2> HIDE DEF S
  <2>3. Ahead = buf
    BY <2>1, <2>2 DEF Ahead
  <2>4. SubSeq(buf, 3, Len(buf)) = <<>>
    BY <2>1, <2>2
  <2>5. Ahead' = <<>>
    BY <2>1 DEF Ahead
  <2> QED BY <1>2, <2>1, <2>3, <2>4, <2>5
<1> QED BY <1>1, <1>2 DEF Taking

\* Its report is merged.
LEMMA FirstMerged ==
    ASSUME WireInv, StreamInv, CarriedInv, ReportsInv, Taking
    PROVE  dec'.usage = MergeUsage(dec.usage, In(conn.up, Ahead[1])) /\ InOrder(conn.up, Ahead', dec'.usage, Coming)
<1>1. /\ ~PassThrough /\ ~hung /\ ~finalized /\ buf # <<>> /\ Ahead # <<>> /\ Ahead[1] = buf[1]
      /\ Process(Ahead[1].f) /\ Ahead' = SubSeq(Ahead, 3, Len(Ahead))
  BY TakesFirst
<1> DEFINE f == Ahead[1].f
           u == UsageIn(conn.up, f)
           A == Ahead
           B == Ahead'
           d2 == dec'
           m == MergeUsage(dec.usage, In(conn.up, A[1]))
<1>2. conn.up \in Formats /\ d2 = DecodeFrame(conn.up, dec, f)
  BY <1>1, ConnTyped DEF Process
<1>3. Frame(f)
  <2>1. InTurn(A, talk.parts)
    BY <1>1 DEF WireInv
  <2> HIDE DEF A
  <2>2. IsSeq(A) /\ A # <<>>
    BY <1>1, <2>1 DEF InTurn, A
  <2>3. 1 \in DOMAIN A
    BY <2>2 DEF IsSeq
  <2>4. A[1].line = "data"
    BY <2>1, <2>3 DEF InTurn
  <2> QED BY <2>1, <2>3, <2>4 DEF InTurn, Data, A
<1>4. Honest(conn.up, f)
  <2>1. 1 \in DOMAIN buf
    BY <1>1 DEF WireInv, IsSeq
  <2> QED BY <1>1, <2>1 DEF CarriedInv, HonestLines, HonestLine
<1>5. IsDecoder(dec)
  <2>1. DOMAIN Bare(dec) = DecoderFields
    BY <1>1 DEF StreamInv, Hearer, Tracks
  <2> QED BY <2>1 DEF Bare, IsDecoder
<1>6. IsSeq(A) /\ A # <<>> /\ InOrder(conn.up, A, dec.usage, Coming) /\ B = SubSeq(A, 3, Len(A))
  BY <1>1 DEF WireInv, InTurn, ReportsInv
<1>7. u = In(conn.up, A[1])
  BY DEF In
<1> HIDE DEF A, B, d2, f, u
<1>8. /\ In(conn.up, A[1]) \in Counts /\ Cumulative(dec.usage, In(conn.up, A[1]))
      /\ InOrder(conn.up, B, m, Coming)
  BY <1>6, OrderTake
<1>9. dec.usage \in Counts
  BY <1>6 DEF InOrder
<1>10. Reported(dec, u, d2)
  BY <1>2, <1>3, <1>4, FrameReported DEF u
<1>11. d2.usage = m
  BY <1>5, <1>7, <1>8, <1>9, <1>10 DEF Reported
<1> QED BY <1>8, <1>11 DEF d2, B, A

\* Every step.
LEMMA ReportsKeep ==
    ASSUME WireInv, StreamInv, CarriedInv, ReportsInv, [Next]_vars PROVE ReportsInv'
<1> SUFFICES ASSUME ~PassThrough', ~hung', ~finalized'
             PROVE  InOrder(conn'.up, Ahead', dec'.usage, Coming')
  BY DEF ReportsInv
<1>0. conn.up \in Formats /\ Talks(talk) /\ IsSeq(buf) /\ IsSeq(wire)
  BY ConnTyped DEF WireInv
<1> DEFINE up == conn.up
           A == Ahead
           u == dec.usage
           B == Ahead'
           more == Coming
           fewer == Coming'
<1>1. CASE ~hung /\ Upstream
  <2>0. UNCHANGED <<conn, buf, dec, finalized, hung>>
    BY <1>1 DEF Upstream, UpStart, UpPiece, UpClose, UpWholeCall, UpFinish, UpClosed, UpBreak, UpOpen, Send, driver
  <2>1. ~PassThrough /\ ~finalized
    BY <2>0 DEF PassThrough
  <2>2. InOrder(up, A, u, more) /\ IsSeq(A)
    BY <1>1, <2>1 DEF ReportsInv, WireInv, InTurn
  <2>3. CASE UpClosed
    BY <2>0, <2>2, <2>3 DEF UpClosed, Ahead, Coming, FirstReport, FinalReport
  <2>4. CASE UpBreak
    <3>1. Like(A, B)
      BY <1>1, <2>1, <2>4, BreakLike
    <3>2. fewer = {}
      <4>1. talk'.phase = "broken"
        BY <1>0, <2>4 DEF UpBreak, Talks
      <4> QED BY <4>1 DEF Coming
    <3> HIDE DEF A, B, more, fewer, u
    <3>3. InOrder(up, B, u, fewer)
      BY <2>2, <3>1, <3>2, OrderLike
    <3> QED BY <2>0, <3>3 DEF A, B, more, fewer, u
  <2>5. ASSUME NEW s, NEW v, Says(s, v), v = NoUsage \/ v \in more, fewer \subseteq more,
               \A w \in fewer : Cumulative(v, w)
        PROVE  InOrder(conn'.up, Ahead', dec'.usage, Coming')
    <3>1. Bearers(s, v) /\ wire' = wire \o Lines(s)
      BY <2>5 DEF Says, Send
    <3>2. B = A \o Lines(s)
      BY <1>0, <2>0, <3>1, AheadSend DEF Bearers
    <3> HIDE DEF A, B, more, fewer, u
    <3>3. InOrder(up, B, u, fewer)
      BY <1>0, <2>2, <2>5, <3>1, <3>2, OrderSend
    <3> QED BY <2>0, <3>3 DEF A, B, more, fewer, u
  <2>6. FirstReport \in Counts /\ FinalReport \in Counts /\ Cumulative(FirstReport, FinalReport)
        /\ Cumulative(NoUsage, FirstReport) /\ Cumulative(NoUsage, FinalReport)
    BY <1>0, ReportsCounted
  <2>7. ASSUME NEW s, NEW v, Says(s, v) PROVE FirstReport' = FirstReport /\ FinalReport' = FinalReport
    BY <2>0, <2>7 DEF Says, FirstReport, FinalReport
  <2>8. ASSUME NEW s, Phases("new", "talk"), Says(s, FirstReport)
        PROVE  InOrder(conn'.up, Ahead', dec'.usage, Coming')
    <3>1. more = {FirstReport, FinalReport} /\ fewer = {FinalReport}
      BY <2>7, <2>8 DEF Coming, Phases
    <3> QED BY <2>5, <2>6, <2>8, <3>1
  <2>9. ASSUME NEW s, Phases("talk", "talk"), Says(s, NoUsage)
        PROVE  InOrder(conn'.up, Ahead', dec'.usage, Coming')
    <3>1. more = {FinalReport} /\ fewer = {FinalReport}
      BY <2>7, <2>9 DEF Coming, Phases
    <3> QED BY <2>5, <2>6, <2>9, <3>1
  <2>10. ASSUME NEW s, Phases("talk", "finished"), Says(s, FinalReport)
         PROVE  InOrder(conn'.up, Ahead', dec'.usage, Coming')
    <3>1. more = {FinalReport} /\ fewer = {}
      BY <2>7, <2>10 DEF Coming, Phases
    <3> QED BY <2>5, <2>6, <2>10, <3>1
  <2> QED BY <1>0, <1>1, <2>3, <2>4, <2>8, <2>9, <2>10, UpSays
<1>2. CASE ReadChunk
  <2>0. UNCHANGED <<conn, talk, dec, finalized, hung>>
    BY <1>2 DEF ReadChunk
  <2>1. ~PassThrough /\ ~finalized /\ ~hung /\ fewer = more
    BY <2>0 DEF PassThrough, Coming, FirstReport, FinalReport
  <2>2. InOrder(up, A, u, more)
    BY <2>1 DEF ReportsInv
  <2>3. Like(A, B)
    BY <1>2, <2>1, ChunkLike
  <2> HIDE DEF A, B, more, fewer, u
  <2>4. InOrder(up, B, u, fewer)
    BY <2>1, <2>2, <2>3, OrderLike
  <2> QED BY <2>0, <2>4 DEF A, B, more, fewer, u
<1>3. CASE Taking
  <2>1. InOrder(conn.up, Ahead', dec'.usage, Coming)
    BY <1>3, FirstMerged
  <2>2. conn' = conn /\ Coming' = Coming
    BY <1>3, TakesFirst DEF Coming, FirstReport, FinalReport
  <2> QED BY <2>1, <2>2
<1>4. CASE (ReadEnd /\ ~Taking) \/ Yield \/ UNCHANGED vars
  <2>1. UNCHANGED <<conn, talk, dec, finalized, hung, buf, wire>>
    <3>1. CASE ReadEnd /\ ~Taking
      BY <3>1 DEF ReadEnd, Taking, body
    <3>2. CASE Yield
      BY <3>2 DEF Yield, body
    <3>3. CASE UNCHANGED vars
      BY <3>3 DEF vars, body, driver
    <3> QED BY <1>4, <3>1, <3>2, <3>3
  <2>2. ~PassThrough /\ ~finalized /\ ~hung /\ Coming' = Coming /\ Ahead' = Ahead
    BY <2>1 DEF PassThrough, Coming, FirstReport, FinalReport, Ahead
  <2> QED BY <2>1, <2>2 DEF ReportsInv
<1>5. CASE Finalize \/ HangUp
  BY <1>5 DEF Finalize, HangUp
<1>6. CASE ScanEnd
  BY <1>6 DEF ScanEnd, PassThrough
<1> QED BY <1>1, <1>2, <1>3, <1>4, <1>5, <1>6 DEF Next, Stopped, Proxy, Taking

\* And at the start.
LEMMA InitReports == ASSUME Init PROVE ReportsInv
<1>1. /\ conn \in Conns /\ wire = <<>> /\ buf = <<>> /\ dec.usage = NoUsage /\ talk.phase = "new"
  BY DEF Init, Decoder
<1>2. Ahead = <<>> /\ DOMAIN <<>> = {}
  BY <1>1 DEF Ahead
<1>3. conn.up \in Formats /\ CarriedInv
  BY <1>1, InitCarries, StreamAssumption
<1>4. Coming = {FirstReport, FinalReport}
  BY <1>1 DEF Coming
<1>5. \A v \in Coming : v \in Counts /\ Cumulative(NoUsage, v)
  BY <1>3, <1>4, ReportsCounted
<1>6. NoUsage \in Counts
  BY NothingCounted
<1> QED BY <1>1, <1>2, <1>5, <1>6 DEF ReportsInv, InOrder

-----------------------------------------------------------------------------
(* The end of the client's stream.                                            *)

\* None of them ends the stream,
NoLast(s) == \A n \in DOMAIN s : s[n].t \notin Lasts
\* and what does tells usage u, or leaves it out.
Truth(cl, u, s) == \A n \in DOMAIN s : s[n].t \in Lasts => s[n].usage \in {EncodeUsage(cl, u), NoUsage}

\* A client that reads the terminal event has its stream ended,
LEMMA LastEnds ==
    ASSUME NEW c, IsClient(c), NEW s, Payloads(s), ~ReadAll(c, s).ended PROVE NoLast(s)
<1> SUFFICES ASSUME NEW n \in DOMAIN s, s[n].t \in Lasts PROVE FALSE
  BY DEF NoLast
<1> DEFINE S == { s[k] : k \in DOMAIN s }
           m == n - 1
           a == SubSeq(s, 1, m)
           p == s[n]
           h == SubSeq(s, 1, n)
           b == SubSeq(s, n + 1, Len(s))
<1>1. s \in Seq(S) /\ Len(s) \in Nat /\ n \in 1 .. Len(s) /\ (\A q \in S : q.t \in Tags) /\ p \in S
  BY DEF Payloads, IsSeq
<1>2. a \in Seq(S) /\ h = Append(a, p)
  <2>1. n = m + 1 /\ m \in Nat /\ m + 1 <= Len(s)
    BY <1>1
  <2> HIDE DEF S, m
  <2>2. SubSeq(s, 1, m) \in Seq(S) /\ SubSeq(s, 1, m + 1) = Append(SubSeq(s, 1, m), s[m + 1])
    BY <1>1, <2>1
  <2> QED BY <2>1, <2>2
<1>3. h \in Seq(S) /\ b \in Seq(S) /\ s = h \o b
  <2>1. h \in Seq(S) /\ b \in Seq(S)
    BY <1>1
  <2>2. Splits(s, <<>>, n, h, b, <<>> \o h)
    BY <1>1 DEF Splits
  <2> HIDE DEF h, b
  <2>3. Whole(s, <<>>, n, h, b, <<>> \o h)
    BY <2>2, ChunkSplits, SequencesOf DEF Payloads
  <2> QED BY <2>1, <2>3 DEF Whole
<1> HIDE DEF S, a, p, h, b, m
<1>4. \A t \in Seq(S) : Payloads(t)
  BY <1>1, SeqIsSeq DEF Payloads
<1>5. Payloads(a) /\ Payloads(h) /\ Payloads(b) /\ IsSeq(a)
  BY <1>2, <1>3, <1>4 DEF Payloads
<1> DEFINE c1 == ReadAll(c, a)
           c2 == ReadAll(c, h)
<1>6. c2 = Receive(c1, p)
  BY <1>2, <1>5, ReadsOneMore
<1>7. IsClient(c1)
  BY <1>5, FaultsStay DEF Stays
<1>8. ReadAll(c, s) = ReadAll(c2, b)
  BY <1>3, <1>5, PayloadsConcat
<1> HIDE DEF c1, c2
<1>9. p.t \in Lasts
  BY DEF p
<1>10. IsClient(c2) /\ c2.ended
  <2>1. Receive(c1, p) = [c1 EXCEPT !.ok = @ /\ c1.started /\ ~c1.ended /\ (c1.format # "openai" => c1.open = {}),
                                    !.ended = TRUE]
    <3>1. p.t = "message_delta" \/ p.t = "last" \/ p.t = "completed"
      BY <1>9 DEF Lasts
    <3>2. CASE p.t = "message_delta"
      BY <3>2 DEF Receive, Starts, Lasts, After
    <3>3. CASE p.t = "last"
      BY <3>3 DEF Receive, Starts, Lasts, After
    <3>4. CASE p.t = "completed"
      BY <3>4 DEF Receive, Starts, Lasts, After
    <3> QED BY <3>1, <3>2, <3>3, <3>4
  <2> QED BY <1>6, <1>7, <2>1 DEF IsClient, ClientFields
<1>11. ReadAll(c2, b).ended
  BY <1>5, <1>10, FaultsStay DEF Stays
<1> QED BY <1>8, <1>11

\* so before it has read it there was none.
LEMMA NoneBefore ==
    ASSUME NEW c, IsClient(c), NEW s, Payloads(s), NEW t, Payloads(t), ~ReadAll(c, s \o t).ended
    PROVE  NoLast(s)
<1> DEFINE c1 == ReadAll(c, s)
<1>1. ReadAll(c, s \o t) = ReadAll(c1, t)
  BY PayloadsConcat
<1>2. IsClient(c1)
  BY FaultsStay DEF Stays
<1> HIDE DEF c1
<1>3. ~c1.ended
  BY <1>1, <1>2, FaultsStay DEF Stays
<1> QED BY <1>3, LastEnds DEF c1

\* One payload more tells what those before and it tell.
LEMMA OneMoreTells ==
    ASSUME NEW cl, NEW u, NEW e, IsSeq(e.out), Truth(cl, u, e.out), "out" \in DOMAIN e, NEW p,
           p.t \in Lasts => p.usage \in {EncodeUsage(cl, u), NoUsage}, NEW e2, e2 = Put(e, p)
    PROVE  IsSeq(e2.out) /\ Truth(cl, u, e2.out) /\ "out" \in DOMAIN e2 /\ ("usage" \in DOMAIN e => e2.usage = e.usage)
<1>1. e2.out = Append(e.out, p) /\ DOMAIN e2 = DOMAIN e /\ ("usage" \in DOMAIN e => e2.usage = e.usage)
  BY DEF Put
<1> DEFINE s == e.out
           t == e2.out
<1>2. Grown(s, p, t)
  BY <1>1, Grows
<1> HIDE DEF s, t
<1>3. \A n \in DOMAIN t : (n \in DOMAIN s /\ t[n] = s[n]) \/ t[n] = p
  BY <1>2 DEF Grown
<1>4. Truth(cl, u, s)
  BY DEF s
<1>5. Truth(cl, u, t)
  BY <1>3, <1>4 DEF Truth
<1> QED BY <1>1, <1>2, <1>5 DEF t, Grown

\* The terminal event tells the usage that is recorded.
LEMMA EndTells ==
    ASSUME NEW cl \in Formats, NEW e, NEW from, IsClient(from), NEW b, NEW d2, NEW y, NEW stop,
           Ends(cl, e, from, b, d2, y, stop), NEW x, x = EncodeEvents(cl, e, d2.out)
    PROVE  x.usage = b.usage /\ Truth(cl, b.usage, x.out)
<1> DEFINE u == b.usage
           v == [t |-> "finish", stop |-> stop]
           w == [t |-> "usage", u |-> u]
           z == EncodeEvent(cl, y, w)
<1>1. PICK next : On(cl, next, {}, y, from)
  BY DEF Ends
<1>2. Writer(y) /\ y.started /\ Reader(cl, ReadAll(from, y.out))
  BY <1>1 DEF On, Hearing, Hears
<1>3. NoLast(y.out)
  BY <1>2, LastEnds DEF Writer, Reader
<1>4. x = EncodeEvent(cl, z, v) /\ v.t = "finish"
  BY DEF Ends
<1>w. w.t = "usage" /\ w.u = u
  OBVIOUS
<1> HIDE DEF u, v, w
<1>5. z = [y EXCEPT !.usage = u]
  <2>1. CASE cl = "anthropic"
    <3>1. z = AnthropicEvent(y, w)
      BY <2>1 DEF EncodeEvent
    <3> QED BY <1>2, <1>w, <3>1 DEF AnthropicEvent
  <2>2. CASE cl = "openai"
    <3>1. z = OpenAIEvent(y, w)
      BY <2>2 DEF EncodeEvent
    <3> QED BY <1>2, <1>w, <3>1 DEF OpenAIEvent
  <2>3. CASE cl = "responses"
    <3>1. z = ResponsesEvent(y, w)
      BY <2>3 DEF EncodeEvent
    <3> QED BY <1>2, <1>w, <3>1 DEF ResponsesEvent
  <2> QED BY <2>1, <2>2, <2>3 DEF Formats
<1> HIDE DEF z
<1>6. z.out = y.out /\ z.usage = u /\ z.started /\ DOMAIN z = EncoderFields /\ IsSeq(z.out)
  BY <1>2, <1>5 DEF Writer, Payloads, EncoderFields
<1>7. Truth(cl, u, z.out) /\ "out" \in DOMAIN z /\ "usage" \in DOMAIN z
  BY <1>3, <1>6 DEF NoLast, Truth, EncoderFields
<1>8. \E p, q : /\ p.t \in Lasts => p.usage \in {EncodeUsage(cl, u), NoUsage}
                /\ q.t \in Lasts => q.usage \in {EncodeUsage(cl, u), NoUsage}
                /\ x = Put(z, p) \/ x = Put(Put(z, p), q)
  <2>1. CASE cl = "anthropic"
    <3> DEFINE p == [t |-> "message_delta", stop |-> v.stop, usage |-> EncodeUsage("anthropic", z.usage)]
               q == [t |-> "message_stop"]
    <3>1. x = Put(Put(z, p), q)
      <4>1. x = AnthropicEvent(z, v)
        BY <1>4, <2>1 DEF EncodeEvent
      <4> QED BY <4>1, <1>4, <1>6 DEF AnthropicEvent
    <3>2. p.usage = EncodeUsage(cl, u) /\ q.t \notin Lasts
      BY <1>6, <2>1 DEF Lasts
    <3> HIDE DEF p, q
    <3> QED BY <3>1, <3>2
  <2>2. CASE cl = "openai"
    <3> DEFINE r == IF z.usage.input > 0 \/ z.usage.output > 0 THEN EncodeUsage("openai", z.usage) ELSE NoUsage
               p == [t |-> "last", stop |-> FinishStr(v.stop), usage |-> r]
               q == [t |-> "done"]
    <3>1. x = Put(Put(z, p), q)
      <4>1. x = OpenAIEvent(z, v)
        BY <1>4, <2>2 DEF EncodeEvent
      <4> QED BY <4>1, <1>4, <1>6 DEF OpenAIEvent
    <3>2. r \in {EncodeUsage(cl, u), NoUsage}
      BY <1>6, <2>2
    <3>3. p.usage = r /\ q.t \notin Lasts
      BY DEF Lasts
    <3> HIDE DEF p, q, r
    <3> QED BY <3>1, <3>2, <3>3
  <2>3. CASE cl = "responses"
    <3> DEFINE p == [t |-> "completed", items |-> z.items, stop |-> "completed",
                     usage |-> EncodeUsage("responses", z.usage)]
    <3>1. x = Put(z, p)
      <4>1. x = ResponsesEvent(z, v)
        BY <1>4, <2>3 DEF EncodeEvent
      <4> QED BY <4>1, <1>4, <1>6 DEF ResponsesEvent
    <3>2. p.usage = EncodeUsage(cl, u)
      BY <1>6, <2>3
    <3> HIDE DEF p
    <3> QED BY <3>1, <3>2
  <2> QED BY <2>1, <2>2, <2>3 DEF Formats
<1>9. PICK p, q : /\ p.t \in Lasts => p.usage \in {EncodeUsage(cl, u), NoUsage}
                  /\ q.t \in Lasts => q.usage \in {EncodeUsage(cl, u), NoUsage}
                  /\ x = Put(z, p) \/ x = Put(Put(z, p), q)
  BY <1>8
<1> DEFINE y1 == Put(z, p)
<1>10. /\ IsSeq(y1.out) /\ Truth(cl, u, y1.out) /\ "out" \in DOMAIN y1 /\ y1.usage = u /\ "usage" \in DOMAIN y1
  <2>1. DOMAIN y1 = DOMAIN z
    BY DEF Put
  <2> HIDE DEF y1
  <2>2. y1 = Put(z, p)
    BY DEF y1
  <2> QED BY <1>6, <1>7, <1>9, <2>1, <2>2, OneMoreTells
<1> HIDE DEF y1
<1>11. CASE x = y1
  BY <1>10, <1>11 DEF u
<1>12. CASE x = Put(y1, q)
  <2>1. Truth(cl, u, x.out) /\ x.usage = u
    BY <1>9, <1>10, <1>12, OneMoreTells
  <2> QED BY <2>1 DEF u
<1> QED BY <1>9, <1>11, <1>12 DEF y1

\* The first terminal event is one.
LEMMA LastFound ==
    ASSUME NEW s, IsSeq(s), NEW n \in DOMAIN s, s[n].t \in Lasts
    PROVE  LET k == SelectInSeq(s, LAMBDA p : p.t \in Lasts) IN k \in DOMAIN s /\ s[k].t \in Lasts
<1> DEFINE I == { m \in 1 .. Len(s) : s[m].t \in Lasts }
           k == SelectInSeq(s, LAMBDA p : p.t \in Lasts)
<1>1. DOMAIN s = 1 .. Len(s) /\ Len(s) \in Nat
  BY DEF IsSeq
<1>2. I # {} /\ I \in SUBSET Nat
  BY <1>1
<1>3. k = Min(I)
  BY <1>2 DEF SelectInSeq
<1>4. Min(I) \in I
  BY <1>2, MinIn
<1> QED BY <1>1, <1>3, <1>4

\* The blocks of a decoder are some of those it has numbered.
Roomy(d) == Len(d.open) <= d.next /\ Len(d.keys) <= d.next

\* No more than n different numbers are below n.
LEMMA NoMoreThan ==
    ASSUME NEW m \in Nat, NEW n \in Nat, NEW f \in [1 .. m -> 0 .. n - 1],
           \A j, k \in 1 .. m : f[j] = f[k] => j = k
    PROVE  m <= n
<1> SUFFICES ASSUME m > n PROVE FALSE
  OBVIOUS
<1>1. IsFiniteSet(1 .. m) /\ Cardinality(1 .. m) = m
  BY FS_Interval
<1>2. IsFiniteSet(0 .. n - 1) /\ Cardinality(0 .. n - 1) = n
  <2>1. 0 \in Int /\ n - 1 \in Int
    OBVIOUS
  <2>2. IsFiniteSet(0 .. n - 1) /\ Cardinality(0 .. n - 1) = IF 0 > n - 1 THEN 0 ELSE n - 1 - 0 + 1
    BY <2>1, FS_Interval
  <2> QED BY <2>2
<1>3. \E j, k \in 1 .. m : j # k /\ f[j] = f[k]
  <2> DEFINE S == 1 .. m
             T == 0 .. n - 1
  <2>1. IsFiniteSet(S) /\ IsFiniteSet(T) /\ Cardinality(T) < Cardinality(S) /\ f \in [S -> T]
    BY <1>1, <1>2
  <2> HIDE DEF S, T
  <2>2. \E j, k \in S : j # k /\ f[j] = f[k]
    BY <2>1, FS_PigeonHole
  <2> QED BY <2>2 DEF S
<1> QED BY <1>3

\* A decoder whose bookkeeping is right has no more open blocks and keys than numbers.
LEMMA TracksFew == ASSUME NEW d, NEW live, Tracks(d, live) PROVE Roomy(d)
<1>1. /\ IsSeq(d.open) /\ IsSeq(d.keys) /\ d.next \in Nat
      /\ ToSet(d.open) \subseteq 0 .. d.next - 1
      /\ \A m, n \in DOMAIN d.open : d.open[m] = d.open[n] => m = n
      /\ \A n \in DOMAIN d.keys : d.keys[n].i \in 0 .. d.next - 1
      /\ \A m, n \in DOMAIN d.keys : d.keys[m].i = d.keys[n].i => m = n
  BY DEF Tracks
<1> DEFINE s == d.open
           t == d.keys
           n == d.next
<1> HIDE DEF s, t, n
<1>2. Len(s) <= n
  <2> DEFINE f == [k \in 1 .. Len(s) |-> s[k]]
  <2>1. Len(s) \in Nat /\ DOMAIN s = 1 .. Len(s)
    BY <1>1 DEF s, IsSeq
  <2>2. f \in [1 .. Len(s) -> 0 .. n - 1] /\ \A j, k \in 1 .. Len(s) : f[j] = f[k] => j = k
    BY <1>1, <2>1 DEF s, n, ToSet
  <2>3. n \in Nat
    BY <1>1 DEF n
  <2> HIDE DEF f
  <2> QED BY <2>1, <2>2, <2>3, NoMoreThan
<1>3. Len(t) <= n
  <2> DEFINE f == [k \in 1 .. Len(t) |-> t[k].i]
  <2>1. Len(t) \in Nat /\ DOMAIN t = 1 .. Len(t)
    BY <1>1 DEF t, IsSeq
  <2>2. f \in [1 .. Len(t) -> 0 .. n - 1] /\ \A j, k \in 1 .. Len(t) : f[j] = f[k] => j = k
    BY <1>1, <2>1 DEF t, n
  <2>3. n \in Nat
    BY <1>1 DEF n
  <2> HIDE DEF f
  <2> QED BY <2>1, <2>2, <2>3, NoMoreThan
<1> QED BY <1>2, <1>3 DEF Roomy, s, t, n

-----------------------------------------------------------------------------
(* What a byte-for-byte forwarding of the same frames records.                *)

ScanOf(up, s) == FoldLeft(MergeUsage, NoUsage, Reports(up, s))
BurntOf(s) == IF \E n \in DOMAIN s : s[n].t = "comment" THEN 1 ELSE None

\* The reports of frames, one by one.
LEMMA ReportsAre ==
    ASSUME NEW up, NEW s, IsSeq(s), NEW r, r = Reports(up, s)
    PROVE  /\ IsSeq(r) /\ Len(s) \in Nat /\ Len(r) = Len(s) /\ DOMAIN s = 1 .. Len(s)
           /\ \A n \in 1 .. Len(s) : r[n] = UsageIn(up, s[n])
<1> DEFINE N == Len(s)
           T == { r[n] : n \in DOMAIN s }
<1>1. N \in Nat /\ DOMAIN s = 1 .. N
  BY DEF IsSeq
<1>2. DOMAIN r = DOMAIN s /\ r = [n \in DOMAIN s |-> r[n]] /\ \A n \in DOMAIN s : r[n] = UsageIn(up, s[n])
  BY DEF Reports
<1>3. r \in [1 .. N -> T]
  BY <1>1, <1>2
<1> HIDE DEF T, N
<1>4. r \in Seq(T) /\ DOMAIN r = 1 .. N
  BY <1>1, <1>3
<1>5. Len(r) = N
  BY <1>1, <1>4, LenProperties
<1>6. IsSeq(r)
  BY <1>4, SeqIsSeq
<1> QED BY <1>1, <1>2, <1>5, <1>6 DEF N

\* Those of frames and frames.
LEMMA ReportsConcat ==
    ASSUME NEW up, NEW s, IsSeq(s), NEW t, IsSeq(t)
    PROVE  Reports(up, s \o t) = Reports(up, s) \o Reports(up, t)
<1> DEFINE S == { s[n] : n \in DOMAIN s } \cup { t[n] : n \in DOMAIN t }
           c == s \o t
           a == Reports(up, s)
           b == Reports(up, t)
           r == Reports(up, c)
           T == { a[n] : n \in DOMAIN a } \cup { b[n] : n \in DOMAIN b } \cup { r[n] : n \in DOMAIN r }
           d == a \o b
<1>1. s \in Seq(S) /\ t \in Seq(S)
  BY DEF IsSeq
<1> HIDE DEF S
<1>2. /\ c \in Seq(S) /\ Len(c) = Len(s) + Len(t)
      /\ \A n \in 1 .. Len(s) + Len(t) : c[n] = IF n <= Len(s) THEN s[n] ELSE t[n - Len(s)]
  BY <1>1, ConcatProperties
<1> HIDE DEF c
<1>3. IsSeq(c)
  BY <1>2, SeqIsSeq
<1>4. /\ IsSeq(a) /\ Len(s) \in Nat /\ Len(a) = Len(s) /\ \A n \in 1 .. Len(s) : a[n] = UsageIn(up, s[n])
  BY ReportsAre
<1>5. /\ IsSeq(b) /\ Len(t) \in Nat /\ Len(b) = Len(t) /\ \A n \in 1 .. Len(t) : b[n] = UsageIn(up, t[n])
  BY ReportsAre
<1>6. /\ IsSeq(r) /\ Len(r) = Len(c) /\ \A n \in 1 .. Len(c) : r[n] = UsageIn(up, c[n])
  BY <1>3, ReportsAre
<1> HIDE DEF a, b, r
<1>7. a \in Seq(T) /\ b \in Seq(T) /\ r \in Seq(T)
  BY <1>4, <1>5, <1>6 DEF IsSeq
<1> HIDE DEF T
<1>8. /\ d \in Seq(T) /\ Len(d) = Len(a) + Len(b)
      /\ \A n \in 1 .. Len(a) + Len(b) : d[n] = IF n <= Len(a) THEN a[n] ELSE b[n - Len(a)]
  BY <1>7, ConcatProperties
<1> HIDE DEF d
<1>9. Len(d) = Len(r) /\ Len(d) = Len(s) + Len(t)
  BY <1>2, <1>4, <1>5, <1>6, <1>8
<1>10. ASSUME NEW n \in 1 .. Len(d) PROVE d[n] = r[n]
  <2>1. n \in Nat /\ n >= 1 /\ n <= Len(s) + Len(t)
    BY <1>4, <1>5, <1>9
  <2>2. CASE n <= Len(s)
    <3>1. d[n] = a[n] /\ a[n] = UsageIn(up, s[n]) /\ c[n] = s[n] /\ r[n] = UsageIn(up, c[n])
      BY <1>2, <1>4, <1>5, <1>6, <1>8, <2>1, <2>2
    <3> QED BY <3>1
  <2>3. CASE ~(n <= Len(s))
    <3>1. n - Len(s) \in 1 .. Len(t)
      BY <1>4, <1>5, <2>1, <2>3
    <3>2. d[n] = b[n - Len(s)] /\ c[n] = t[n - Len(s)] /\ r[n] = UsageIn(up, c[n])
      BY <1>2, <1>4, <1>5, <1>6, <1>8, <2>1, <2>3
    <3> QED BY <1>5, <3>1, <3>2
  <2> QED BY <2>2, <2>3
<1>11. d = r
  BY <1>7, <1>8, <1>9, <1>10, SeqEqual
<1> QED BY <1>11 DEF d, r, a, b, c

\* The usage of frames and frames,
LEMMA ScansOn ==
    ASSUME NEW up, NEW s, IsSeq(s), NEW t, IsSeq(t)
    PROVE  ScanOf(up, s \o t) = FoldLeft(MergeUsage, ScanOf(up, s), Reports(up, t))
<1> DEFINE a == Reports(up, s)
           b == Reports(up, t)
           T == { a[n] : n \in DOMAIN a } \cup { b[n] : n \in DOMAIN b }
<1>1. Reports(up, s \o t) = a \o b
  BY ReportsConcat
<1>2. IsSeq(a) /\ IsSeq(b)
  BY ReportsAre
<1>3. \A u, r : Merging!Fold(u, r) = FoldLeft(MergeUsage, u, r)
  BY DEF Merging!Fold, Merging!FoldLeft, Merging!MapThenFoldSet, Merging!Max, FoldLeft, MapThenFoldSet, Max
<1> HIDE DEF a, b
<1>4. a \in Seq(T) /\ b \in Seq(T)
  BY <1>2 DEF IsSeq
<1> HIDE DEF T
<1>5. Merging!Fold(NoUsage, a \o b) = Merging!Fold(Merging!Fold(NoUsage, a), b)
  BY <1>4, Merging!FoldConcat
<1> QED BY <1>1, <1>3, <1>5 DEF ScanOf, a, b

\* of none,
LEMMA ScansNothing == \A up : ScanOf(up, <<>>) = NoUsage
<1> TAKE up
<1>1. Reports(up, <<>>) = <<>>
  BY DEF Reports
<1>2. \A u, r : Merging!Fold(u, r) = FoldLeft(MergeUsage, u, r)
  BY DEF Merging!Fold, Merging!FoldLeft, Merging!MapThenFoldSet, Merging!Max, FoldLeft, MapThenFoldSet, Max
<1>3. Merging!Fold(NoUsage, <<>>) = NoUsage
  BY Merging!FoldEmpty
<1> QED BY <1>1, <1>2, <1>3 DEF ScanOf

\* and of one more.
LEMMA ScansOneMore ==
    ASSUME NEW up, NEW s, IsSeq(s), NEW f
    PROVE  ScanOf(up, Append(s, f)) = MergeUsage(ScanOf(up, s), UsageIn(up, f))
<1> DEFINE u == ScanOf(up, s)
           v == UsageIn(up, f)
           t == << f >>
           r == << v >>
           S == { s[n] : n \in DOMAIN s } \cup {f}
<1>1. s \in Seq(S) /\ f \in S
  BY DEF IsSeq
<1> HIDE DEF S
<1>2. Append(s, f) = s \o t
  BY <1>1
<1>3. IsSeq(t)
  BY SequencesOf
<1>4. Reports(up, t) = r
  BY DEF Reports
<1>5. ScanOf(up, s \o t) = FoldLeft(MergeUsage, u, Reports(up, t))
  BY <1>3, ScansOn
<1>6. \A x, y : Merging!Fold(x, y) = FoldLeft(MergeUsage, x, y)
  BY DEF Merging!Fold, Merging!FoldLeft, Merging!MapThenFoldSet, Merging!Max, FoldLeft, MapThenFoldSet, Max
<1> HIDE DEF u, v
<1>7. r = Append(<<>>, v) /\ <<>> \in Seq({})
  OBVIOUS
<1> HIDE DEF r
<1>8. Merging!Fold(u, <<>>) = u
  BY Merging!FoldEmpty
<1>9. Merging!Fold(u, Append(<<>>, v)) = MergeUsage(Merging!Fold(u, <<>>), v)
  BY <1>7, Merging!FoldAppend
<1>10. Merging!Fold(u, r) = MergeUsage(u, v)
  BY <1>7, <1>8, <1>9
<1> QED BY <1>2, <1>4, <1>5, <1>6, <1>10 DEF u, v

\* Frames whose comments are honest.
Priced(t) == IsSeq(t) /\ \A n \in DOMAIN t : t[n].t = "comment" => t[n].energy = 1

\* The energy after them.
LEMMA BurnsOn ==
    ASSUME NEW s, IsSeq(s), NEW t, Priced(t)
    PROVE  FoldLeft(EnergyAfter, BurntOf(s), t) = BurntOf(s \o t)
<1> DEFINE e == BurntOf(s)
           N == Len(t)
           P(n) == SubSeq(t, 1, n)
           S == { s[n] : n \in DOMAIN s } \cup { t[n] : n \in DOMAIN t }
           After2(n) == IF \E k \in 1 .. n : t[k].t = "comment" THEN 1 ELSE e
           G == { n \in Nat : n <= N => Burning!Fold(e, P(n)) = After2(n) }
<1>1. s \in Seq(S) /\ t \in Seq(S) /\ N \in Nat /\ DOMAIN t = 1 .. N
  BY DEF Priced, IsSeq
<1> HIDE DEF S, e
<1>2. 0 \in G
  <2>1. P(0) = <<>> /\ After2(0) = e
    BY <1>1
  <2> HIDE DEF P, After2
  <2> QED BY <2>1, Burning!FoldEmpty
<1>3. ASSUME NEW n \in Nat, n \in G PROVE n + 1 \in G
  <2> SUFFICES ASSUME n + 1 <= N PROVE Burning!Fold(e, P(n + 1)) = After2(n + 1)
    OBVIOUS
  <2>1. n <= N /\ n + 1 \in DOMAIN t
    BY <1>1
  <2>2. P(n + 1) = Append(P(n), t[n + 1]) /\ P(n) \in Seq(S)
    BY <1>1, <2>1
  <2>3. Burning!Fold(e, P(n)) = After2(n)
    BY <1>3, <2>1
  <2>4. t[n + 1].t = "comment" => t[n + 1].energy = 1
    BY <2>1 DEF Priced
  <2> DEFINE q == t[n + 1]
  <2>5. After2(n + 1) = IF q.t = "comment" THEN 1 ELSE After2(n)
    <3>1. \A k : k \in 1 .. n + 1 <=> k \in 1 .. n \/ k = n + 1
      OBVIOUS
    <3>2. (\E k \in 1 .. n + 1 : t[k].t = "comment") <=> (\E k \in 1 .. n : t[k].t = "comment") \/ q.t = "comment"
      BY <3>1
    <3> HIDE DEF q
    <3> QED BY <3>2
  <2> HIDE DEF P, After2, q
  <2>6. Burning!Fold(e, Append(P(n), q)) = EnergyAfter(Burning!Fold(e, P(n)), q)
    BY <2>2, Burning!FoldAppend
  <2> QED BY <2>2, <2>3, <2>4, <2>5, <2>6 DEF EnergyAfter, q
<1>4. N \in G
  <2> HIDE DEF G
  <2> QED BY <1>1, <1>2, <1>3, InductionOnNat
<1>5. P(N) = t
  BY <1>1
<1>6. Burning!Fold(e, t) = After2(N)
  <2> HIDE DEF P, After2
  <2> QED BY <1>1, <1>4, <1>5
<1>7. FoldLeft(EnergyAfter, e, t) = After2(N)
  <2> HIDE DEF After2
  <2> QED BY <1>6 DEF Burning!Fold, Burning!FoldLeft, Burning!MapThenFoldSet, Burning!Max, FoldLeft,
             MapThenFoldSet, Max
<1> DEFINE c == s \o t
<1>8. /\ Len(s) \in Nat /\ DOMAIN s = 1 .. Len(s) /\ DOMAIN c = 1 .. Len(s) + N
      /\ \A n \in 1 .. Len(s) : c[n] = s[n]
      /\ \A n \in 1 .. N : c[n + Len(s)] = t[n] /\ n + Len(s) \in 1 .. Len(s) + N
      /\ \A n \in 1 .. Len(s) + N : n \in 1 .. Len(s) \/ n - Len(s) \in 1 .. N
  <2>1. /\ c \in Seq(S) /\ Len(c) = Len(s) + N /\ Len(s) \in Nat
        /\ \A n \in 1 .. Len(s) + N : c[n] = IF n <= Len(s) THEN s[n] ELSE t[n - Len(s)]
    BY <1>1, ConcatProperties, LenProperties
  <2> HIDE DEF c, N
  <2>2. DOMAIN c = 1 .. Len(s) + N /\ DOMAIN s = 1 .. Len(s)
    BY <1>1, <2>1, LenProperties
  <2>3. ASSUME NEW n \in 1 .. N PROVE c[n + Len(s)] = t[n] /\ n + Len(s) \in 1 .. Len(s) + N
    <3>1. n + Len(s) \in 1 .. Len(s) + N /\ ~(n + Len(s) <= Len(s)) /\ (n + Len(s)) - Len(s) = n
      BY <1>1, <2>1
    <3> QED BY <2>1, <3>1
  <2>4. \A n \in 1 .. Len(s) : c[n] = s[n]
    BY <1>1, <2>1
  <2>5. \A n \in 1 .. Len(s) + N : n \in 1 .. Len(s) \/ n - Len(s) \in 1 .. N
    BY <1>1, <2>1
  <2> QED BY <2>1, <2>2, <2>3, <2>4, <2>5
<1> HIDE DEF c, N
<1>9. (\E n \in DOMAIN c : c[n].t = "comment")
        <=> (\E n \in DOMAIN s : s[n].t = "comment") \/ (\E n \in 1 .. N : t[n].t = "comment")
  <2>1. ASSUME NEW n \in DOMAIN c, c[n].t = "comment"
        PROVE  (\E k \in DOMAIN s : s[k].t = "comment") \/ (\E k \in 1 .. N : t[k].t = "comment")
    <3>1. CASE n \in 1 .. Len(s)
      BY <1>8, <2>1, <3>1
    <3>2. CASE n - Len(s) \in 1 .. N
      <4>1. c[(n - Len(s)) + Len(s)] = t[n - Len(s)] /\ (n - Len(s)) + Len(s) = n
        BY <1>8, <3>2
      <4> QED BY <2>1, <3>2, <4>1
    <3> QED BY <1>8, <3>1, <3>2
  <2>2. ASSUME NEW n \in DOMAIN s, s[n].t = "comment" PROVE \E k \in DOMAIN c : c[k].t = "comment"
    <3>1. n \in DOMAIN c /\ c[n] = s[n]
      BY <1>1, <1>8, <2>2
    <3> QED BY <2>2, <3>1
  <2>3. ASSUME NEW n \in 1 .. N, t[n].t = "comment" PROVE \E k \in DOMAIN c : c[k].t = "comment"
    BY <1>8, <2>3
  <2> QED BY <2>1, <2>2, <2>3
<1>10. After2(N) = BurntOf(c)
  BY <1>9 DEF BurntOf, e
<1> QED BY <1>7, <1>10 DEF c, e

\* The energy after one frame more.
LEMMA BurnsOneMore ==
    ASSUME NEW s, IsSeq(s), NEW f, f.t = "comment" => f.energy = 1
    PROVE  EnergyAfter(BurntOf(s), f) = BurntOf(Append(s, f))
<1> DEFINE t == Append(s, f)
           burnt == \E n \in DOMAIN s : s[n].t = "comment"
<1>1. Grown(s, f, t)
  BY Grows
<1> HIDE DEF t
<1>2. (\E n \in DOMAIN t : t[n].t = "comment") <=> burnt \/ f.t = "comment"
  <2>1. /\ \A n \in DOMAIN t : (n \in DOMAIN s /\ t[n] = s[n]) \/ t[n] = f
        /\ \A n \in DOMAIN s : n \in DOMAIN t /\ t[n] = s[n]
        /\ Len(s) + 1 \in DOMAIN t /\ t[Len(s) + 1] = f
    BY <1>1 DEF Grown
  <2> QED BY <2>1
<1>3. BurntOf(s) = IF burnt THEN 1 ELSE None
  BY DEF BurntOf
<1>4. BurntOf(t) = IF burnt \/ f.t = "comment" THEN 1 ELSE None
  BY <1>2 DEF BurntOf
<1>5. EnergyAfter(BurntOf(s), f) = IF f.t = "comment" THEN 1 ELSE BurntOf(s)
  BY DEF EnergyAfter
<1> HIDE DEF burnt
<1> QED BY <1>3, <1>4, <1>5 DEF t

-----------------------------------------------------------------------------
(* The record.                                                                *)

Scanned == ScanOf(conn.up, taken)
Burnt == BurntOf(taken)

\* The driver's flags; a decoder that is not used, or was dropped, is as new.
FlagsInv ==
    /\ {done, finalized, hung} \subseteq BOOLEAN /\ end \in {"open", "eof", "error"}
    /\ PassThrough \/ hung => dec = Decoder
\* There is one row or none, of what was taken; a translated stream has it once it is finalized.
RowsInv ==
    /\ energy = Burnt
    /\ rows = <<>> \/ rows = << [usage |-> Scanned, energy |-> Burnt] >>
    /\ rows # <<>> => done
    /\ ~PassThrough => (rows # <<>> <=> finalized)
\* A forwarded stream has it after an end of file, and has counted what was taken.
ScanInv ==
    PassThrough => /\ scan = Scanned /\ got = <<>> /\ ~finalized
                   /\ done => end # "open" /\ (~hung /\ end = "eof" => rows # <<>>)
\* So has the decoder of a translated one,
CountInv == ~PassThrough /\ ~hung /\ ~finalized => dec.usage = Scanned
\* and the client is told so at its end, not before.
ToldInv ==
    /\ ~finalized => NoLast(got)
    /\ finalized => Truth(conn.cl, Scanned, got) /\ Truth(conn.cl, Scanned, pending) /\ Roomy(dec)
RecordInv == FlagsInv /\ RowsInv /\ ScanInv /\ CountInv /\ ToldInv

\* A step that takes nothing and touches nothing the record is about.
Calm == UNCHANGED <<conn, dec, scan, energy, finalized, rows, got, taken, hung, pending>>

\* It keeps the record right, whatever it does to the upstream's side or to the driver of a
\* translated stream.
LEMMA CalmRecords ==
    ASSUME RecordInv, Calm, done' \in BOOLEAN, end' \in {"open", "eof", "error"}, done => done',
           PassThrough /\ done' => done /\ end' = end
    PROVE  RecordInv'
<1>0. UNCHANGED <<conn, dec, scan, energy, finalized, rows, got, taken, hung, pending>>
  BY DEF Calm
<1>1. Scanned' = Scanned /\ Burnt' = Burnt /\ PassThrough' = PassThrough
  BY <1>0 DEF Scanned, Burnt, PassThrough
<1>2. FlagsInv'
  BY <1>0, <1>1 DEF RecordInv, FlagsInv
<1>3. RowsInv'
  BY <1>0, <1>1 DEF RecordInv, RowsInv
<1>4. ScanInv'
  BY <1>0, <1>1 DEF RecordInv, ScanInv
<1>5. CountInv'
  BY <1>0, <1>1 DEF RecordInv, CountInv
<1>6. ToldInv'
  BY <1>0, <1>1 DEF RecordInv, ToldInv
<1> QED BY <1>2, <1>3, <1>4, <1>5, <1>6 DEF RecordInv

\* The upstream's side.
LEMMA UpRecords == ASSUME RecordInv, Upstream PROVE RecordInv'
<1>1. ASSUME NEW s, Send(s) PROVE end = "open" /\ end' = "open" /\ UNCHANGED <<conn, driver, hung>>
  BY <1>1 DEF Send
<1>2. UpStart \/ UpPiece \/ UpClose \/ UpWholeCall \/ UpFinish \/ (\E kind \in Kinds : UpOpen(kind))
        => \E s : Send(s)
  BY DEF UpStart, UpPiece, UpClose, UpWholeCall, UpFinish, UpOpen
<1>3. UpClosed \/ UpBreak => end = "open" /\ end' \in {"eof", "error"} /\ UNCHANGED <<conn, driver, hung>>
  BY DEF UpClosed, UpBreak
<1>4. end = "open" /\ end' \in {"open", "eof", "error"} /\ UNCHANGED <<conn, driver, hung>>
  BY <1>1, <1>2, <1>3 DEF Upstream
<1>5. Calm /\ done' = done
  BY <1>4 DEF Calm, driver
<1>6. done \in BOOLEAN /\ (PassThrough => ~done)
  BY <1>4 DEF RecordInv, FlagsInv, ScanInv
<1> QED BY <1>4, <1>5, <1>6, CalmRecords

\* More frames are taken; a forwarded stream's.
LEMMA MoreScanned ==
    ASSUME RecordInv, PassThrough, ~hung, ~done, IsSeq(taken), NEW t, Priced(t), taken' = taken \o t,
           scan' = FoldLeft(MergeUsage, scan, Reports(conn.up, t)), energy' = FoldLeft(EnergyAfter, energy, t),
           UNCHANGED <<conn, end, dec, pending, done, finalized, rows, got, hung>>
    PROVE  RecordInv'
<1>1. scan' = Scanned' /\ energy' = Burnt' /\ PassThrough'
  <2>1. scan = ScanOf(conn.up, taken) /\ energy = BurntOf(taken) /\ IsSeq(t)
    BY DEF RecordInv, ScanInv, RowsInv, Scanned, Burnt, Priced
  <2>2. FoldLeft(MergeUsage, ScanOf(conn.up, taken), Reports(conn.up, t)) = ScanOf(conn.up, taken \o t)
    BY <2>1, ScansOn
  <2>3. FoldLeft(EnergyAfter, BurntOf(taken), t) = BurntOf(taken \o t)
    BY BurnsOn
  <2> QED BY <2>1, <2>2, <2>3 DEF Scanned, Burnt, PassThrough
<1>2. rows = <<>> /\ ~finalized /\ got = <<>> /\ dec = Decoder
  BY DEF RecordInv, RowsInv, ScanInv, FlagsInv
<1>3. FlagsInv'
  BY <1>2 DEF RecordInv, FlagsInv
<1>4. RowsInv'
  BY <1>1, <1>2 DEF RecordInv, RowsInv
<1>5. ScanInv'
  BY <1>1, <1>2 DEF RecordInv, ScanInv
<1>6. CountInv' /\ ToldInv'
  BY <1>1, <1>2 DEF RecordInv, CountInv, ToldInv
<1> QED BY <1>3, <1>4, <1>5, <1>6 DEF RecordInv

\* A chunk.
LEMMA ChunkRecords == ASSUME RecordInv, CarriedInv, ReadChunk PROVE RecordInv'
<1>1. /\ ~hung /\ ~done /\ UNCHANGED <<conn, end, dec, pending, done, finalized, rows, got, hung>>
  BY DEF ReadChunk
<1>2. CASE ~PassThrough
  <2>1. Calm
    BY <1>1, <1>2 DEF ReadChunk, Calm
  <2>2. done' \in BOOLEAN /\ end' \in {"open", "eof", "error"} /\ done' = done
    BY <1>1 DEF RecordInv, FlagsInv
  <2> QED BY <1>2, <2>1, <2>2, CalmRecords
<1>3. CASE PassThrough
  <2>1. PICK n \in 0 .. Len(wire) :
          LET b == buf \o SubSeq(wire, 1, n)
          IN  /\ taken' = taken \o Taken(b)
              /\ scan' = FoldLeft(MergeUsage, scan, Reports(conn.up, Taken(b)))
              /\ energy' = FoldLeft(EnergyAfter, energy, Taken(b))
    BY <1>3 DEF ReadChunk
  <2> DEFINE p == SubSeq(wire, 1, n)
             b == buf \o p
             t == Taken(b)
             S == { l \in { buf[k] : k \in DOMAIN buf } \cup { wire[k] : k \in DOMAIN wire } : HonestLine(conn.up, l) }
  <2>2. buf \in Seq(S) /\ wire \in Seq(S) /\ \A l \in S : HonestLine(conn.up, l)
    <3>1. /\ IsSeq(buf) /\ \A k \in DOMAIN buf : buf[k] \in S
          /\ IsSeq(wire) /\ \A k \in DOMAIN wire : wire[k] \in S
      BY DEF CarriedInv, HonestLines
    <3> HIDE DEF S
    <3>2. \A s : IsSeq(s) /\ (\A k \in DOMAIN s : s[k] \in S) => s \in Seq(S)
      BY DEF IsSeq
    <3> QED BY <3>1, <3>2 DEF S
  <2> HIDE DEF S
  <2>3. p \in Seq(S)
    BY <2>2
  <2> HIDE DEF p
  <2>4. b \in Seq(S)
    BY <2>2, <2>3
  <2> HIDE DEF b
  <2>5. IsSeq(t) /\ \A k \in DOMAIN t : \E j \in DOMAIN b : t[k] = b[j].f
    BY <2>4, TakenIs
  <2>6. \A j \in DOMAIN b : HonestLine(conn.up, b[j])
    BY <2>2, <2>4
  <2> HIDE DEF t
  <2>7. Priced(t)
    BY <2>5, <2>6 DEF Priced, HonestLine, Honest
  <2>8. IsSeq(taken)
    BY DEF CarriedInv
  <2>9. /\ taken' = taken \o t /\ scan' = FoldLeft(MergeUsage, scan, Reports(conn.up, t))
        /\ energy' = FoldLeft(EnergyAfter, energy, t)
    BY <2>1 DEF t, b, p
  <2> QED BY <1>1, <1>3, <2>7, <2>8, <2>9, MoreScanned
<1> QED BY <1>2, <1>3

\* Until the end the client has not read a terminal event, and none is on its way to it.
LEMMA NotLastYet ==
    ASSUME StreamInv, ~hung, ~PassThrough, ~finalized PROVE NoLast(got) /\ NoLast(pending)
<1> DEFINE c == Client(conn.cl)
           b == ReadAll(c, got)
<1>1. Payloads(got) /\ Payloads(pending) /\ ~ReadAll(c, got \o pending).ended
  BY DEF StreamInv, Hearer, Hears, Reader, Reads
<1>2. IsClient(c)
  BY DEF IsClient, ClientFields, Client
<1> HIDE DEF c
<1>3. NoLast(got)
  BY <1>1, <1>2, NoneBefore
<1>4. IsClient(b)
  BY <1>1, <1>2, FaultsStay DEF Stays
<1>5. ReadAll(c, got \o pending) = ReadAll(b, pending)
  BY <1>1, PayloadsConcat
<1> HIDE DEF b
<1>6. NoLast(pending)
  BY <1>1, <1>4, <1>5, LastEnds
<1> QED BY <1>3, <1>6

\* One frame is taken and decoded.
LEMMA TakingRecords ==
    ASSUME WireInv, StreamInv, CarriedInv, ReportsInv, RecordInv, Taking, UNCHANGED end PROVE RecordInv'
<1> DEFINE f == buf[1].f
<1>1. /\ ~PassThrough /\ ~hung /\ ~finalized /\ buf # <<>> /\ Ahead[1] = buf[1] /\ Process(Ahead[1].f)
      /\ UNCHANGED <<conn, talk, scan, done, finalized, rows, got, hung>>
  BY TakesFirst
<1>2. taken' = Append(taken, f) /\ energy' = EnergyAfter(energy, f)
  BY <1>1 DEF Process
<1>3. dec'.usage = MergeUsage(dec.usage, UsageIn(conn.up, f))
  BY <1>1, FirstMerged DEF In
<1>4. f.t = "comment" => f.energy = 1
  <2>1. 1 \in DOMAIN buf
    BY <1>1 DEF WireInv, IsSeq
  <2> QED BY <2>1 DEF CarriedInv, HonestLines, HonestLine, Honest
<1> HIDE DEF f
<1>5. IsSeq(taken)
  BY DEF CarriedInv
<1>6. dec'.usage = Scanned'
  <2>1. dec.usage = ScanOf(conn.up, taken)
    BY <1>1 DEF RecordInv, CountInv, Scanned
  <2>2. ScanOf(conn.up, Append(taken, f)) = MergeUsage(ScanOf(conn.up, taken), UsageIn(conn.up, f))
    BY <1>5, ScansOneMore
  <2> QED BY <1>1, <1>2, <1>3, <2>1, <2>2 DEF Scanned
<1>7. energy' = Burnt'
  <2>1. energy = BurntOf(taken)
    BY DEF RecordInv, RowsInv, Burnt
  <2>2. EnergyAfter(BurntOf(taken), f) = BurntOf(Append(taken, f))
    BY <1>4, <1>5, BurnsOneMore
  <2> QED BY <1>2, <2>1, <2>2 DEF Burnt
<1>8. ~PassThrough' /\ rows = <<>> /\ ~hung' /\ ~finalized'
  BY <1>1 DEF PassThrough, RecordInv, RowsInv
<1>9. FlagsInv'
  BY <1>1, <1>8 DEF RecordInv, FlagsInv
<1>10. RowsInv'
  BY <1>1, <1>7, <1>8 DEF RecordInv, RowsInv
<1>11. ScanInv' /\ CountInv'
  BY <1>6, <1>8 DEF ScanInv, CountInv
<1>12. ToldInv'
  BY <1>1, <1>8 DEF RecordInv, ToldInv
<1> QED BY <1>9, <1>10, <1>11, <1>12 DEF RecordInv

\* A decoder that closed all its blocks has few.
LEMMA EndsRoomy ==
    ASSUME NEW b, Roomy(b), b.next \in Nat, NEW cl, NEW e, NEW from, NEW d2, NEW y, NEW stop,
           Ends(cl, e, from, b, d2, y, stop)
    PROVE  Roomy(d2)
<1>1. d2.open = <<>> /\ d2.keys = b.keys /\ d2.next = b.next
  BY DEF Ends
<1>2. Len(<<>>) = 0
  OBVIOUS
<1>3. Len(d2.open) <= d2.next
  BY <1>1, <1>2
<1> QED BY <1>1, <1>3 DEF Roomy

\* The end is told and recorded.
LEMMA FinalizeRecords ==
    ASSUME StreamInv, RecordInv, Finalize PROVE RecordInv'
<1>1. /\ ~PassThrough /\ ~hung /\ done /\ ~finalized /\ pending = <<>> /\ finalized' = TRUE
      /\ UNCHANGED <<conn, end, energy, done, got, taken, hung>>
      /\ dec' = DecodeEnd(dec) /\ enc' = EncodeEvents(conn.cl, enc, dec'.out) /\ pending' = enc'.out
      /\ rows' = Append(rows, [usage |-> enc'.usage, energy |-> energy])
  BY DEF Finalize, body, Row
<1> DEFINE from == Reads
           d2 == dec'
           x == enc'
           b == Bare(dec)
           live == Living(Ahead, talk.parts)
<1>2. Hearer(conn.cl, dec, enc, from, live)
  BY <1>1 DEF StreamInv
<1>3. Good(conn.cl, enc, from, b, live)
  BY <1>2, HearerIsGood
<1>4. b = [dec EXCEPT !.out = <<>>] /\ d2 = DecodeEnd(dec) /\ x = EncodeEvents(conn.cl, enc, d2.out)
  BY <1>1 DEF Bare
<1>5. Tracks(b, live) /\ conn.cl \in Formats /\ IsClient(from)
  BY <1>2 DEF Hearer, Hears, Reader, IsClient
<1>6. b.usage = dec.usage /\ b.next \in Nat
  BY <1>5 DEF Bare, Tracks, DecoderFields
<1> HIDE DEF from, d2, x, b, live
<1>7. PICK y, stop : Ends(conn.cl, enc, from, b, d2, y, stop)
  BY <1>3, <1>4, LastEvents
<1>8. x.usage = b.usage /\ Truth(conn.cl, b.usage, x.out)
  <2> DEFINE cl == conn.cl
             e == enc
  <2>1. cl \in Formats /\ IsClient(from) /\ Ends(cl, e, from, b, d2, y, stop)
    BY <1>5, <1>7
  <2>2. x = EncodeEvents(cl, e, d2.out)
    BY <1>4
  <2> HIDE DEF cl, e
  <2>3. x.usage = b.usage /\ Truth(cl, b.usage, x.out)
    BY <2>1, <2>2, EndTells
  <2> QED BY <2>3 DEF cl
<1>9. Roomy(d2)
  <2>1. Roomy(b)
    BY <1>5, TracksFew
  <2> QED BY <1>6, <1>7, <2>1, EndsRoomy
<1>10. dec.usage = Scanned /\ rows = <<>> /\ energy = Burnt
  BY <1>1 DEF RecordInv, CountInv, RowsInv
<1>11. Scanned' = Scanned /\ Burnt' = Burnt /\ ~PassThrough'
  BY <1>1 DEF Scanned, Burnt, PassThrough
<1>12. rows' = << [usage |-> Scanned', energy |-> Burnt'] >> /\ Truth(conn.cl, Scanned, pending')
  BY <1>1, <1>6, <1>8, <1>10, <1>11 DEF x
<1>13. Truth(conn.cl, Scanned, got)
  BY <1>1, NotLastYet DEF NoLast, Truth
<1>14. FlagsInv'
  BY <1>1, <1>11 DEF RecordInv, FlagsInv
<1>15. RowsInv'
  <2>1. rows' # <<>> /\ energy' = Burnt'
    BY <1>1, <1>10, <1>11, <1>12
  <2> QED BY <1>1, <1>12, <2>1 DEF RowsInv
<1>16. ScanInv' /\ CountInv'
  BY <1>1, <1>11 DEF ScanInv, CountInv
<1>17. ToldInv'
  BY <1>1, <1>9, <1>11, <1>12, <1>13 DEF ToldInv, d2
<1> QED BY <1>14, <1>15, <1>16, <1>17 DEF RecordInv

\* What the client takes was on its way.
LEMMA TakenOver ==
    ASSUME NEW g, Payloads(g), NEW p, Payloads(p), p # <<>>
    PROVE  /\ \A n \in DOMAIN Append(g, Head(p)) :
                 (\E k \in DOMAIN g : Append(g, Head(p))[n] = g[k]) \/ (\E k \in DOMAIN p : Append(g, Head(p))[n] = p[k])
           /\ \A n \in DOMAIN Tail(p) : \E k \in DOMAIN p : Tail(p)[n] = p[k]
<1> DEFINE S == { p[n] : n \in DOMAIN p }
           h == Head(p)
           t == Tail(p)
           a == Append(g, h)
<1>1. p \in Seq(S) /\ IsSeq(g)
  BY DEF Payloads, IsSeq
<1> HIDE DEF S
<1>2. h \in S /\ t \in Seq(S)
  BY <1>1
<1> HIDE DEF h, t
<1>3. Grown(g, h, a)
  BY <1>1, Grows
<1> HIDE DEF a
<1>4. \A n \in DOMAIN a : (n \in DOMAIN g /\ a[n] = g[n]) \/ a[n] = h
  BY <1>3 DEF Grown
<1>5. \A n \in DOMAIN t : t[n] \in S
  BY <1>2
<1> QED BY <1>2, <1>4, <1>5 DEF S, a, h, t

\* The client takes a payload.
LEMMA YieldRecords ==
    ASSUME StreamInv, RecordInv, Yield PROVE RecordInv'
<1>1. /\ ~hung /\ pending # <<>> /\ got' = Append(got, Head(pending)) /\ pending' = Tail(pending)
      /\ UNCHANGED <<conn, end, dec, scan, energy, done, finalized, rows, taken, hung>>
  BY DEF Yield, body
<1>2. ~PassThrough
  BY <1>1 DEF StreamInv
<1>3. Scanned' = Scanned /\ Burnt' = Burnt /\ PassThrough' = PassThrough
  BY <1>1 DEF Scanned, Burnt, PassThrough
<1>4. /\ \A n \in DOMAIN got' : (\E k \in DOMAIN got : got'[n] = got[k]) \/ (\E k \in DOMAIN pending : got'[n] = pending[k])
      /\ \A n \in DOMAIN pending' : \E k \in DOMAIN pending : pending'[n] = pending[k]
  BY <1>1, TakenOver DEF StreamInv
<1>5. CASE finalized
  <2>1. Truth(conn.cl, Scanned, got') /\ Truth(conn.cl, Scanned, pending')
    BY <1>4, <1>5 DEF RecordInv, ToldInv, Truth
  <2>2. ToldInv'
    BY <1>1, <1>3, <1>5, <2>1 DEF RecordInv, ToldInv
  <2>3. FlagsInv' /\ RowsInv' /\ ScanInv' /\ CountInv'
    BY <1>1, <1>2, <1>3 DEF RecordInv, FlagsInv, RowsInv, ScanInv, CountInv
  <2> QED BY <2>2, <2>3 DEF RecordInv
<1>6. CASE ~finalized
  <2>1. NoLast(got')
    BY <1>1, <1>2, <1>4, <1>6, NotLastYet DEF NoLast
  <2>2. ToldInv'
    BY <1>1, <1>6, <2>1 DEF ToldInv
  <2>3. FlagsInv' /\ RowsInv' /\ ScanInv' /\ CountInv'
    BY <1>1, <1>2, <1>3 DEF RecordInv, FlagsInv, RowsInv, ScanInv, CountInv
  <2> QED BY <2>2, <2>3 DEF RecordInv
<1> QED BY <1>5, <1>6

\* What is left of a forwarded stream.
LEMMA LeftOver ==
    ASSUME NEW b, IsSeq(b), ~(Len(b) > 1), NEW s, IsSeq(s), NEW t, t = s \o [n \in DOMAIN b |-> b[n].f]
    PROVE  IF b = <<>> THEN t = s ELSE 1 \in DOMAIN b /\ t = Append(s, b[1].f)
<1> DEFINE r == [n \in DOMAIN b |-> b[n].f]
           S == { s[n] : n \in DOMAIN s }
<1>1. s \in Seq(S) /\ DOMAIN b = 1 .. Len(b) /\ Len(b) \in Nat
  BY DEF IsSeq
<1> HIDE DEF S
<1>2. CASE b = <<>>
  <2>1. r = <<>>
    BY <1>2
  <2>2. s \o <<>> = s
    BY <1>1
  <2> QED BY <1>2, <2>1, <2>2
<1>3. CASE b # <<>>
  <2>1. Len(b) = 1
    <3>1. Len(b) # 0
      <4> DEFINE B == { b[n] : n \in DOMAIN b }
      <4>1. b \in Seq(B)
        BY DEF IsSeq
      <4> HIDE DEF B
      <4> QED BY <1>3, <4>1, EmptySeq
    <3> QED BY <1>1, <3>1
  <2>2. DOMAIN b = {1}
    BY <1>1, <2>1
  <2>3. r = << b[1].f >>
    <3>1. r = [n \in 1 .. 1 |-> b[1].f]
      BY <2>2
    <3> QED BY <3>1
  <2>4. s \o << b[1].f >> = Append(s, b[1].f)
    BY <1>1
  <2> QED BY <1>3, <2>2, <2>3, <2>4
<1> QED BY <1>2, <1>3

\* A forwarded stream ends.
LEMMA ScanEndRecords ==
    ASSUME StreamInv, CarriedInv, RecordInv, ScanEnd PROVE RecordInv'
<1>1. /\ PassThrough /\ ~hung /\ ~done /\ end # "open" /\ done' = TRUE
      /\ UNCHANGED <<conn, end, dec, pending, finalized, got, hung>>
  BY DEF ScanEnd, body, AtEnd
<1>2. /\ PassThrough' /\ rows = <<>> /\ ~finalized /\ got = <<>> /\ dec = Decoder
      /\ scan = ScanOf(conn.up, taken) /\ energy = BurntOf(taken)
  BY <1>1 DEF PassThrough, RecordInv, RowsInv, ScanInv, FlagsInv, Scanned, Burnt
<1>3. CASE end = "error"
  <2>1. UNCHANGED <<scan, energy, rows, taken>>
    BY <1>3 DEF ScanEnd
  <2>2. Scanned' = Scanned /\ Burnt' = Burnt
    BY <1>1, <2>1 DEF Scanned, Burnt
  <2>3. FlagsInv'
    BY <1>1, <1>2 DEF RecordInv, FlagsInv
  <2>4. RowsInv'
    BY <1>1, <1>2, <2>1, <2>2 DEF RecordInv, RowsInv
  <2>5. ScanInv'
    BY <1>1, <1>2, <1>3, <2>1, <2>2 DEF RecordInv, ScanInv
  <2>6. CountInv' /\ ToldInv'
    BY <1>1, <1>2 DEF RecordInv, CountInv, ToldInv
  <2> QED BY <2>3, <2>4, <2>5, <2>6 DEF RecordInv
<1>4. CASE end # "error"
  <2> DEFINE f == buf[1].f
             u == IF buf = <<>> THEN scan ELSE MergeUsage(scan, UsageIn(conn.up, f))
             g == IF buf = <<>> THEN energy ELSE EnergyAfter(energy, f)
  <2>1. /\ scan' = u /\ energy' = g /\ rows' = Append(rows, [usage |-> u, energy |-> g])
        /\ taken' = taken \o [n \in DOMAIN buf |-> buf[n].f]
    BY <1>4 DEF ScanEnd
  <2>2. IsSeq(buf) /\ ~(Len(buf) > 1) /\ IsSeq(taken)
    BY <1>1 DEF CarriedInv, HonestLines, IsSeq
  <2>3. IF buf = <<>> THEN taken' = taken ELSE 1 \in DOMAIN buf /\ taken' = Append(taken, f)
    BY <2>1, <2>2, LeftOver
  <2>4. buf # <<>> => (f.t = "comment" => f.energy = 1)
    BY <2>3 DEF CarriedInv, HonestLines, HonestLine, Honest
  <2> HIDE DEF f
  <2>5. u = Scanned' /\ g = Burnt'
    <3>1. CASE buf = <<>>
      BY <1>1, <1>2, <2>3, <3>1 DEF Scanned, Burnt
    <3>2. CASE buf # <<>>
      <4>1. ScanOf(conn.up, Append(taken, f)) = MergeUsage(ScanOf(conn.up, taken), UsageIn(conn.up, f))
        BY <2>2, ScansOneMore
      <4>2. EnergyAfter(BurntOf(taken), f) = BurntOf(Append(taken, f))
        BY <2>2, <2>4, <3>2, BurnsOneMore
      <4> QED BY <1>1, <1>2, <2>3, <3>2, <4>1, <4>2 DEF Scanned, Burnt
    <3> QED BY <3>1, <3>2
  <2> HIDE DEF u, g
  <2>6. rows' = << [usage |-> Scanned', energy |-> Burnt'] >> /\ rows' # <<>> /\ energy' = Burnt' /\ scan' = Scanned'
    BY <1>2, <2>1, <2>5
  <2>7. FlagsInv'
    BY <1>1, <1>2 DEF RecordInv, FlagsInv
  <2>8. RowsInv'
    BY <1>1, <1>2, <2>6 DEF RowsInv
  <2>9. ScanInv'
    BY <1>1, <1>2, <2>6 DEF ScanInv
  <2>10. CountInv' /\ ToldInv'
    BY <1>1, <1>2 DEF RecordInv, CountInv, ToldInv
  <2> QED BY <2>7, <2>8, <2>9, <2>10 DEF RecordInv
<1> QED BY <1>3, <1>4

\* A new decoder has no blocks.
LEMMA DecoderRoomy == Roomy(Decoder) /\ Decoder.usage = NoUsage /\ Len(<<>>) = 0
<1>1. Len(<<>>) = 0
  OBVIOUS
<1>2. Decoder.open = <<>> /\ Decoder.keys = <<>> /\ Decoder.next = 0 /\ Decoder.usage = NoUsage
  BY DEF Decoder
<1> QED BY <1>1, <1>2 DEF Roomy

\* The client hangs up.
LEMMA HangUpRecords == ASSUME RecordInv, HangUp PROVE RecordInv'
<1>1. /\ ~hung /\ ~Over /\ hung' = TRUE /\ end' = "eof" /\ pending' = <<>> /\ dec' = Decoder
      /\ UNCHANGED <<conn, scan, energy, done, finalized, rows, got, taken>>
  BY DEF HangUp
<1>2. Scanned' = Scanned /\ Burnt' = Burnt /\ PassThrough' = PassThrough
  BY <1>1 DEF Scanned, Burnt, PassThrough
<1>3. FlagsInv'
  BY <1>1 DEF RecordInv, FlagsInv
<1>4. RowsInv'
  BY <1>1, <1>2 DEF RecordInv, RowsInv
<1>5. ScanInv'
  BY <1>1, <1>2 DEF RecordInv, ScanInv
<1>6. CountInv'
  BY <1>1 DEF CountInv
<1>7. ToldInv'
  <2>1. Truth(conn.cl, Scanned, <<>>)
    BY SequencesOf DEF Truth
  <2> QED BY <1>1, <1>2, <2>1, DecoderRoomy DEF RecordInv, ToldInv
<1> QED BY <1>3, <1>4, <1>5, <1>6, <1>7 DEF RecordInv

\* At the start,
LEMMA InitRecords == ASSUME Init PROVE RecordInv
<1>1. /\ end = "open" /\ dec = Decoder /\ scan = NoUsage /\ energy = None /\ pending = <<>>
      /\ done = FALSE /\ finalized = FALSE /\ rows = <<>> /\ got = <<>> /\ hung = FALSE /\ taken = <<>>
  BY DEF Init
<1>2. Scanned = NoUsage /\ Burnt = None
  BY <1>1, ScansNothing, SequencesOf DEF Scanned, Burnt, BurntOf
<1>3. FlagsInv
  BY <1>1 DEF FlagsInv
<1>4. RowsInv /\ ScanInv /\ CountInv
  BY <1>1, <1>2, DecoderRoomy DEF RowsInv, ScanInv, CountInv
<1>5. ToldInv
  BY <1>1, SequencesOf DEF ToldInv, NoLast
<1> QED BY <1>3, <1>4, <1>5 DEF RecordInv

\* and every step.
LEMMA RecordKeeps ==
    ASSUME WireInv, StreamInv, CarriedInv, ReportsInv, RecordInv, [Next]_vars PROVE RecordInv'
<1>1. CASE Taking
  <2>1. UNCHANGED end
    BY <1>1 DEF Taking, TakeFrame, ReadEnd, body
  <2> QED BY <1>1, <2>1, TakingRecords
<1>2. CASE (ReadEnd /\ ~Taking) \/ UNCHANGED vars
  <2>1. CASE ReadEnd /\ ~Taking
    <3>1. Calm /\ done' = TRUE /\ end' = end /\ ~PassThrough
      BY <2>1 DEF ReadEnd, Taking, body, Calm
    <3>2. end' \in {"open", "eof", "error"} /\ done' \in BOOLEAN
      BY <3>1 DEF RecordInv, FlagsInv
    <3> QED BY <3>1, <3>2, CalmRecords
  <2>2. CASE UNCHANGED vars
    <3>1. Calm /\ done' = done /\ end' = end
      BY <2>2 DEF vars, body, driver, Calm
    <3>2. end' \in {"open", "eof", "error"} /\ done' \in BOOLEAN
      BY <3>1 DEF RecordInv, FlagsInv
    <3> QED BY <3>1, <3>2, CalmRecords
  <2> QED BY <1>2, <2>1, <2>2
<1> QED BY <1>1, <1>2, UpRecords, ChunkRecords, FinalizeRecords, YieldRecords, ScanEndRecords, HangUpRecords
        DEF Next, Stopped, Proxy, Taking

-----------------------------------------------------------------------------
(* Theorems.                                                                  *)

RecordedInv == WireInv /\ StreamInv /\ CarriedInv /\ ReportsInv /\ RecordInv

\* Everything that is known of the stream holds in every state it can be in.
LEMMA StreamKeepsRecord == Spec => []RecordedInv
<1>1. Init => RecordedInv
  BY InitKeeps, InitCarries, InitReports, InitRecords DEF RecordedInv
<1>2. RecordedInv /\ [Next]_vars => RecordedInv'
  BY NextKeeps, CarriedKeeps, ReportsKeep, RecordKeeps DEF RecordedInv
<1> QED BY <1>1, <1>2, PTL DEF Spec

\* An answer leaves at most one row, with the usage and the energy of the frames that were
\* taken; a client that has the terminal event of a translated stream was told what that row
\* says, or nothing; and a forwarded stream that ends with an end of file leaves a row.
THEOREM StreamRecorded == Spec => []RecordedAsTold
<1>1. ASSUME RecordedInv PROVE RecordedAsTold
  <2>1. rows = <<>> \/ rows = << [usage |-> Scanned, energy |-> Burnt] >>
    BY <1>1 DEF RecordedInv, RecordInv, RowsInv
  <2> DEFINE r == [usage |-> Scanned, energy |-> Burnt]
  <2> HIDE DEF r
  <2>2. Len(<<>>) = 0 /\ Len(<< r >>) = 1 /\ << r >>[1] = r /\ 0 <= 1 /\ 1 <= 1
    OBVIOUS
  <2>3. Len(rows) <= 1
    BY <2>1, <2>2 DEF r
  <2>4. rows # <<>> => rows[1] = [usage |-> Scanned, energy |-> Burnt]
    BY <2>1, <2>2 DEF r
  <2>5. PassThrough /\ Over /\ ~hung /\ end = "eof" => rows # <<>>
    BY <1>1 DEF RecordedInv, RecordInv, ScanInv, Over
  <2>6. ASSUME Ended
        PROVE  rows # <<>> /\ LastOf.usage \in {EncodeUsage(conn.cl, rows[1].usage), NoUsage}
    <3>1. PICK n \in DOMAIN got : got[n].t \in Lasts
      BY <2>6 DEF Ended
    <3>2. finalized /\ Truth(conn.cl, Scanned, got)
      BY <1>1, <3>1 DEF RecordedInv, RecordInv, ToldInv, NoLast
    <3>3. ~PassThrough
      BY <1>1, <3>2 DEF RecordedInv, RecordInv, ScanInv
    <3>4. rows # <<>> /\ rows[1].usage = Scanned
      BY <1>1, <2>4, <3>2, <3>3 DEF RecordedInv, RecordInv, RowsInv
    <3>5. IsSeq(got)
      BY <1>1 DEF RecordedInv, StreamInv, Payloads
    <3> DEFINE k == SelectInSeq(got, LAMBDA p : p.t \in Lasts)
    <3>6. k \in DOMAIN got /\ got[k].t \in Lasts
      BY <3>1, <3>5, LastFound
    <3>7. LastOf = got[k]
      BY DEF LastOf
    <3> HIDE DEF k
    <3> QED BY <3>2, <3>4, <3>6, <3>7 DEF Truth
  <2> QED BY <2>3, <2>4, <2>5, <2>6 DEF RecordedAsTold, Scanned, Burnt, ScanOf, BurntOf
<1> QED BY <1>1, StreamKeepsRecord, PTL

\* Types of the driver's state, whatever the bounds: the buffer is never longer than what can be
\* in flight, and the decoder's blocks are some of those it has numbered.
THEOREM StreamTypeOK == Spec => []TypeOK
<1>1. ASSUME RecordedInv PROVE TypeOK
  <2>1. /\ conn \in Conns /\ end \in {"open", "eof", "error"}
        /\ Len(buf) <= MaxWire + 9 /\ (PassThrough => Len(buf) <= 1)
        /\ {done, finalized, hung} \subseteq BOOLEAN /\ (finalized => done)
    BY <1>1 DEF RecordedInv, StreamInv, CarriedInv, RecordInv, FlagsInv
  <2>2. energy \in {None, 1}
    BY <1>1 DEF RecordedInv, RecordInv, RowsInv, Burnt, BurntOf
  <2>3. Roomy(dec)
    <3>1. CASE PassThrough \/ hung
      BY <1>1, <3>1, DecoderRoomy DEF RecordedInv, RecordInv, FlagsInv
    <3>2. CASE finalized
      BY <1>1, <3>2 DEF RecordedInv, RecordInv, ToldInv
    <3>3. CASE ~PassThrough /\ ~hung /\ ~finalized
      <4> DEFINE b == Bare(dec)
      <4>1. Tracks(b, Living(Ahead, talk.parts))
        BY <1>1, <3>3 DEF RecordedInv, StreamInv, Hearer
      <4>2. b.open = dec.open /\ b.keys = dec.keys /\ b.next = dec.next
        BY <4>1 DEF Bare, Tracks, DecoderFields
      <4> HIDE DEF b
      <4>3. Roomy(b)
        BY <4>1, TracksFew
      <4> QED BY <4>2, <4>3 DEF Roomy
    <3> QED BY <3>1, <3>2, <3>3
  <2>4. dec.next >= Len(dec.open) /\ dec.next >= Len(dec.keys)
    BY <2>3 DEF Roomy
  <2> QED BY <2>1, <2>2, <2>4 DEF TypeOK
<1> QED BY <1>1, StreamKeepsRecord, PTL
=============================================================================
