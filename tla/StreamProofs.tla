---------------------------- MODULE StreamProofs ----------------------------
(* TLAPS proofs about a streamed answer, for any formats, upstream, client     *)
(* and bounds.                                                                 *)
EXTENDS Stream, FiniteSetTheorems, SequenceTheorems, WellFoundedInduction, TLAPS

-----------------------------------------------------------------------------
(* Folds.                                                                     *)

INSTANCE Folding WITH Op <- Receive
Anthropic == INSTANCE Folding WITH Op <- AnthropicEvent
OpenAI == INSTANCE Folding WITH Op <- OpenAIEvent
Responses == INSTANCE Folding WITH Op <- ResponsesEvent
Calling == INSTANCE Folding WITH Op <- SayCall

\* One event encoded in the client's format.
EncodeEvent(format, e, v) ==
    CASE format = "anthropic" -> AnthropicEvent(e, v)
      [] format = "openai" -> OpenAIEvent(e, v)
      [] format = "responses" -> ResponsesEvent(e, v)

\* Encoder b is e with nothing written.
Emptied(e, b) == b = [e EXCEPT !.out = <<>>]

\* Events are encoded one by one, from an encoder that has written nothing.
LEMMA EncodesOneByOne ==
    ASSUME NEW cl \in Formats, NEW e
    PROVE  /\ \A b : Emptied(e, b) => EncodeEvents(cl, e, <<>>) = b
           /\ \A s, v : IsSeq(s) => EncodeEvents(cl, e, Append(s, v))
                                      = EncodeEvent(cl, EncodeEvents(cl, e, s), v)
<1> DEFINE b == [e EXCEPT !.out = <<>>]
<1>1. \A s : /\ Anthropic!Fold(b, s) = FoldLeft(AnthropicEvent, b, s)
             /\ OpenAI!Fold(b, s) = FoldLeft(OpenAIEvent, b, s)
             /\ Responses!Fold(b, s) = FoldLeft(ResponsesEvent, b, s)
  BY DEF Anthropic!Fold, Anthropic!FoldLeft, Anthropic!MapThenFoldSet, Anthropic!Max,
         OpenAI!Fold, OpenAI!FoldLeft, OpenAI!MapThenFoldSet, OpenAI!Max,
         Responses!Fold, Responses!FoldLeft, Responses!MapThenFoldSet, Responses!Max,
         FoldLeft, MapThenFoldSet, Max
<1>2. \A s : EncodeEvents(cl, e, s) = CASE cl = "anthropic" -> Anthropic!Fold(b, s)
                                        [] cl = "openai" -> OpenAI!Fold(b, s)
                                        [] cl = "responses" -> Responses!Fold(b, s)
  BY <1>1 DEF EncodeEvents
<1> HIDE DEF b
<1>3. EncodeEvents(cl, e, <<>>) = b
  BY <1>2, Anthropic!FoldEmpty, OpenAI!FoldEmpty, Responses!FoldEmpty DEF Formats
<1>4. ASSUME NEW s, NEW v, IsSeq(s)
      PROVE  EncodeEvents(cl, e, Append(s, v)) = EncodeEvent(cl, EncodeEvents(cl, e, s), v)
  <2>1. Anthropic!Fold(b, Append(s, v)) = AnthropicEvent(Anthropic!Fold(b, s), v)
    BY <1>4, Anthropic!FoldAppend DEF IsSeq
  <2>2. OpenAI!Fold(b, Append(s, v)) = OpenAIEvent(OpenAI!Fold(b, s), v)
    BY <1>4, OpenAI!FoldAppend DEF IsSeq
  <2>3. Responses!Fold(b, Append(s, v)) = ResponsesEvent(Responses!Fold(b, s), v)
    BY <1>4, Responses!FoldAppend DEF IsSeq
  <2> QED BY <1>2, <2>1, <2>2, <2>3 DEF EncodeEvent, Formats
<1> QED BY <1>3, <1>4 DEF b, Emptied

\* Sequence t is s with one more element.
Grown(s, e, t) ==
    /\ IsSeq(t) /\ Len(s) \in Nat /\ Len(t) = Len(s) + 1
    /\ DOMAIN s = 1 .. Len(s) /\ DOMAIN t = 1 .. Len(s) + 1
    /\ \A n \in DOMAIN s : t[n] = s[n]
    /\ t[Len(s) + 1] = e

\* Append makes one.
LEMMA Grows == ASSUME NEW s, IsSeq(s), NEW e PROVE Grown(s, e, Append(s, e))
BY Appended DEF Grown

\* The client reads payloads one by one.
ReadAll(c, payloads) == FoldLeft(Receive, c, payloads)

\* Reading is a fold.
LEMMA ReadsFolds == \A c, s : Fold(c, s) = ReadAll(c, s)
BY DEF Fold, ReadAll

\* Having read nothing,
LEMMA ReadsNothing == ASSUME NEW c PROVE ReadAll(c, <<>>) = c
BY ReadsFolds, FoldEmpty

\* one payload more,
LEMMA ReadsOneMore ==
    ASSUME NEW c, NEW s, IsSeq(s), NEW p
    PROVE  ReadAll(c, Append(s, p)) = Receive(ReadAll(c, s), p)
<1>1. Fold(c, Append(s, p)) = Receive(Fold(c, s), p)
  BY FoldAppend DEF IsSeq
<1> QED BY <1>1, ReadsFolds

\* and one sequence after the other.
LEMMA ReadsOn ==
    ASSUME NEW c, NEW S, NEW s \in Seq(S), NEW t \in Seq(S)
    PROVE  ReadAll(c, s \o t) = ReadAll(ReadAll(c, s), t)
<1>1. Fold(c, s \o t) = Fold(Fold(c, s), t)
  BY FoldConcat
<1> QED BY <1>1, ReadsFolds

-----------------------------------------------------------------------------
(* A client that has heard the encoder.                                       *)

EncoderFields == {"started", "kinds", "tools", "usage", "nextOutput", "open", "items", "out"}
ClientFields == {"format", "ok", "started", "ended", "open", "blocks"}
BlockFields == {"i", "kind", "x"}

\* The n-th block of the answer is the client's n-th, numbered n - 1; the same are open.
HearsAnthropic(next, open, e, c) ==
    /\ IsSeq(e.kinds) /\ Len(e.kinds) = next /\ Len(c.blocks) = next
    /\ \A n \in 1 .. next : /\ e.kinds[n].i = n - 1 /\ c.blocks[n].i = n - 1
                            /\ c.blocks[n].kind = e.kinds[n].kind
    /\ c.open = open

\* The client has one text, one reasoning and the calls of the encoder's tools.
HearsOpenAI(next, e, c) ==
    /\ IsSeq(e.kinds) /\ IsSeq(e.tools)
    /\ \A n \in DOMAIN e.kinds : /\ e.kinds[n].kind \in Kinds
                                 /\ e.kinds[n].kind = "tool" => e.kinds[n].i \in ToSet(e.tools)
    /\ \A n \in DOMAIN e.tools : e.tools[n] \in 0 .. next - 1
    /\ \A n \in DOMAIN c.blocks :
          /\ c.blocks[n].i \in c.open
          /\ \/ c.blocks[n].kind \in Prose /\ c.blocks[n].i = << c.blocks[n].kind, 0 >>
             \/ /\ c.blocks[n].kind = "tool"
                /\ \E k \in DOMAIN e.tools : c.blocks[n].i = << "tool", k - 1 >>
    /\ \A k \in DOMAIN e.tools : \E n \in DOMAIN c.blocks : c.blocks[n].i = << "tool", k - 1 >>

\* The encoder's open items are the open blocks; those the client is shown are open
\* there, with the text they have so far.
HearsResponses(open, e, c) ==
    /\ e.nextOutput \in Nat /\ Len(c.blocks) = e.nextOutput
    /\ \A n \in DOMAIN c.blocks : c.blocks[n].i = n - 1
    /\ IsSeq(e.open)
    /\ \A n \in DOMAIN e.open : DOMAIN e.open[n] = {"i", "kind", "n", "acc"} /\ e.open[n].i \in open
    /\ \A i \in open : \E n \in DOMAIN e.open : e.open[n].i = i
    /\ \A m, n \in DOMAIN e.open :
          e.open[m].i = e.open[n].i \/ (e.open[m].kind # "reasoning" /\ e.open[n].kind # "reasoning"
                                        /\ e.open[m].n = e.open[n].n) => m = n
    /\ \A n \in DOMAIN e.open : e.open[n].kind # "reasoning" =>
          /\ e.open[n].n \in 0 .. e.nextOutput - 1 /\ e.open[n].n \in c.open
          /\ c.blocks[e.open[n].n + 1].x = e.open[n].acc
    /\ \A j \in c.open : \E n \in DOMAIN e.open : e.open[n].kind # "reasoning" /\ e.open[n].n = j

\* A client that has read no fault and no end.
Reader(cl, c) ==
    /\ DOMAIN c = ClientFields /\ c.format = cl /\ c.ok /\ c.started \in BOOLEAN /\ ~c.ended
    /\ IsSeq(c.blocks) /\ \A n \in DOMAIN c.blocks : DOMAIN c.blocks[n] = BlockFields

Tags == Starts \cup Lasts \cup After \cup
        {"block_start", "block_delta", "block_stop", "item_added", "item_delta", "item_done", "call", "say"}
Payloads(s) == IsSeq(s) /\ \A n \in DOMAIN s : s[n].t \in Tags

Writer(e) == DOMAIN e = EncoderFields /\ Payloads(e.out) /\ e.started \in BOOLEAN

\* Client c has read without a fault what encoder e made of a stream that
\* has opened `next` blocks, and has `open` open.
Hears(cl, next, open, e, c) ==
    /\ Writer(e) /\ Reader(cl, c) /\ c.started = e.started
    /\ next \in Nat /\ open \subseteq 0 .. next - 1
    /\ cl = "anthropic" => HearsAnthropic(next, open, e, c)
    /\ cl = "openai" => HearsOpenAI(next, e, c)
    /\ cl = "responses" => HearsResponses(open, e, c)

\* The same of a client that was at `from` before it read what is in the encoder.
Hearing(cl, next, open, e, from) ==
    Hears(cl, next, open, e, ReadAll(from, e.out))

\* Encoder e2 is e after one payload more; client d is c after a block opened, got text, was closed.
Writes(e, p, e2) ==
    /\ Writer(e) /\ p.t \in Tags
    /\ DOMAIN e2 = EncoderFields /\ e2.started \in BOOLEAN /\ e2.out = Append(e.out, p)
BeginsOn(c, d) == d = [c EXCEPT !.ok = @ /\ ~c.started, !.started = TRUE]
Opens(c, i, kind, d) == d = Opened(c, i, kind)
Tells(c, i, x, d) == d = Told(c, i, x)
Closes(c, i, d) == d = Closed(c, i)

\* One payload more.
LEMMA OneMore ==
    ASSUME NEW e, NEW e2, NEW p, Writes(e, p, e2)
    PROVE  Writer(e2) /\ \A from : ReadAll(from, e2.out) = Receive(ReadAll(from, e.out), p)
<1> USE DEF Writes
<1>1. ASSUME NEW from PROVE ReadAll(from, Append(e.out, p)) = Receive(ReadAll(from, e.out), p)
  BY ReadsOneMore DEF Writer, Payloads
<1>2. Payloads(Append(e.out, p))
  <2>1. /\ IsSeq(Append(e.out, p)) /\ DOMAIN e.out = 1 .. Len(e.out) /\ Len(e.out) \in Nat
        /\ DOMAIN Append(e.out, p) = 1 .. Len(e.out) + 1
        /\ \A n \in DOMAIN e.out : Append(e.out, p)[n] = e.out[n]
        /\ Append(e.out, p)[Len(e.out) + 1] = p
    BY Appended DEF Writer, Payloads
  <2>2. ASSUME NEW n \in DOMAIN Append(e.out, p) PROVE Append(e.out, p)[n].t \in Tags
    <3>1. n \in DOMAIN e.out \/ n = Len(e.out) + 1
      BY <2>1
    <3> QED BY <3>1, <2>1 DEF Writer, Payloads
  <2> QED BY <2>1, <2>2 DEF Payloads
<1> QED BY <1>1, <1>2 DEF Writer

\* What the client makes of each payload.
LEMMA Receives ==
    ASSUME NEW c
    PROVE  /\ \A p : p.t \in Starts => BeginsOn(c, Receive(c, p))
           /\ \A i, kind : Receive(c, [t |-> "block_start", i |-> i, kind |-> kind]) = Opened(c, i, kind)
           /\ \A n, kind : Receive(c, [t |-> "item_added", n |-> n, kind |-> kind]) = Opened(c, n, kind)
           /\ \A n, x : Receive(c, [t |-> "item_delta", n |-> n, x |-> x]) = Told(c, n, x)
           /\ \A i : Receive(c, [t |-> "block_stop", i |-> i]) = Closed(c, i)
           /\ \A n, x : Receive(c, [t |-> "call", n |-> n, new |-> TRUE, x |-> x])
                          = Opened(c, << "tool", n >>, "tool")
           /\ \A n, x : Receive(c, [t |-> "call", n |-> n, new |-> FALSE, x |-> x])
                          = Told(c, << "tool", n >>, x)
           /\ \A kind, x : Receive(c, [t |-> "say", kind |-> kind, x |-> x]) = Spoken(c, kind, x)
<1> USE DEF Receive, Starts, Lasts, After, BeginsOn
<1>1. ASSUME NEW p, p.t \in Starts
      PROVE  BeginsOn(c, Receive(c, p))
  <2>1. p.t = "message_start" \/ p.t = "role" \/ p.t = "created"
    BY <1>1
  <2>2. CASE p.t = "message_start"
    BY <2>2
  <2>3. CASE p.t = "role"
    BY <2>3
  <2>4. CASE p.t = "created"
    BY <2>4
  <2> QED BY <2>1, <2>2, <2>3, <2>4
<1>2. \A i, kind : Receive(c, [t |-> "block_start", i |-> i, kind |-> kind]) = Opened(c, i, kind)
  OBVIOUS
<1>3. \A n, kind : Receive(c, [t |-> "item_added", n |-> n, kind |-> kind]) = Opened(c, n, kind)
  OBVIOUS
<1>4. \A n, x : Receive(c, [t |-> "item_delta", n |-> n, x |-> x]) = Told(c, n, x)
  OBVIOUS
<1>5. \A i : Receive(c, [t |-> "block_stop", i |-> i]) = Closed(c, i)
  OBVIOUS
<1>6. \A n, x : Receive(c, [t |-> "call", n |-> n, new |-> TRUE, x |-> x]) = Opened(c, << "tool", n >>, "tool")
  OBVIOUS
<1>7. \A n, x : Receive(c, [t |-> "call", n |-> n, new |-> FALSE, x |-> x]) = Told(c, << "tool", n >>, x)
  OBVIOUS
<1>8. \A kind, x : Receive(c, [t |-> "say", kind |-> kind, x |-> x]) = Spoken(c, kind, x)
  OBVIOUS
<1> HIDE DEF Receive, Starts, Lasts, After, BeginsOn
<1> QED BY <1>1, <1>2, <1>3, <1>4, <1>5, <1>6, <1>7, <1>8

\* A block opened that was not there.
Fresh(c, i) == \A n \in DOMAIN c.blocks : c.blocks[n].i # i
HasOpened(c, i, kind, d) ==
    /\ d.started /\ d.open = c.open \cup {i}
    /\ Len(c.blocks) \in Nat /\ Len(d.blocks) = Len(c.blocks) + 1
    /\ DOMAIN c.blocks = 1 .. Len(c.blocks) /\ DOMAIN d.blocks = 1 .. Len(c.blocks) + 1
    /\ \A n \in DOMAIN c.blocks : d.blocks[n] = c.blocks[n]
    /\ d.blocks[Len(c.blocks) + 1] = [i |-> i, kind |-> kind, x |-> <<>>]

\* A client that has not met the name opens the block.
LEMMA OpensOne ==
    ASSUME NEW cl, NEW c, Reader(cl, c), NEW i, Fresh(c, i), NEW kind, NEW d, Opens(c, i, kind, d)
    PROVE  c.started => Reader(cl, d) /\ HasOpened(c, i, kind, d)
<1> SUFFICES ASSUME c.started PROVE Reader(cl, d) /\ HasOpened(c, i, kind, d)
  OBVIOUS
<1> DEFINE b == [i |-> i, kind |-> kind, x |-> <<>>]
<1>1. /\ DOMAIN d = ClientFields /\ d.format = c.format /\ d.started = c.started /\ d.ended = c.ended
      /\ d.ok /\ d.open = c.open \cup {i} /\ d.blocks = Append(c.blocks, b)
  BY DEF Opens, Opened, Reader, ClientFields, Fresh
<1>2. /\ IsSeq(Append(c.blocks, b)) /\ Len(c.blocks) \in Nat /\ Len(Append(c.blocks, b)) = Len(c.blocks) + 1
      /\ DOMAIN c.blocks = 1 .. Len(c.blocks) /\ DOMAIN Append(c.blocks, b) = 1 .. Len(c.blocks) + 1
      /\ \A n \in DOMAIN c.blocks : Append(c.blocks, b)[n] = c.blocks[n]
      /\ Append(c.blocks, b)[Len(c.blocks) + 1] = b
  BY Appended DEF Reader
<1>3. DOMAIN b = BlockFields
  BY DEF BlockFields
<1> HIDE DEF b
<1>4. \A n \in DOMAIN d.blocks : DOMAIN d.blocks[n] = BlockFields
  <2> SUFFICES ASSUME NEW n \in DOMAIN d.blocks PROVE DOMAIN d.blocks[n] = BlockFields
    OBVIOUS
  <2>1. n \in DOMAIN c.blocks \/ n = Len(c.blocks) + 1
    BY <1>1, <1>2
  <2> QED BY <2>1, <1>1, <1>2, <1>3 DEF Reader
<1>5. Reader(cl, d)
  BY <1>1, <1>2, <1>4 DEF Reader
<1> QED BY <1>1, <1>2, <1>5 DEF b, HasOpened

\* Text for an open block, which is the first of its name.
HasTold(c, i, x, d) ==
    /\ d.started = c.started /\ d.open = c.open
    /\ Len(d.blocks) = Len(c.blocks) /\ DOMAIN d.blocks = DOMAIN c.blocks
    /\ \A m \in DOMAIN c.blocks : d.blocks[m].i = c.blocks[m].i /\ d.blocks[m].kind = c.blocks[m].kind
    /\ \E n \in DOMAIN c.blocks :
          /\ n = SelectInSeq(c.blocks, LAMBDA b : b.i = i) /\ c.blocks[n].i = i
          /\ d.blocks[n].x = c.blocks[n].x \o x
          /\ \A m \in DOMAIN c.blocks : m # n => d.blocks[m] = c.blocks[m]

\* Text for an open block arrives in it.
LEMMA TellsOne ==
    ASSUME NEW cl, NEW c, Reader(cl, c), NEW i \in c.open, NEW x, ~Fresh(c, i), NEW d, Tells(c, i, x, d)
    PROVE  Reader(cl, d) /\ HasTold(c, i, x, d)
<1>e. \E m \in DOMAIN c.blocks : c.blocks[m].i = i
  BY DEF Fresh
<1> DEFINE n == SelectInSeq(c.blocks, LAMBDA b : b.i = i)
           s == [c.blocks EXCEPT ![n].x = @ \o x]
<1>0. DOMAIN c.blocks = 1 .. Len(c.blocks) /\ Len(c.blocks) \in Nat
  BY DEF Reader, IsSeq
<1>9. n \in DOMAIN c.blocks /\ c.blocks[n].i = i
  <2> DEFINE I == { m \in 1 .. Len(c.blocks) : c.blocks[m].i = i }
  <2>1. I # {} /\ I \in SUBSET Nat
    BY <1>0, <1>e
  <2>2. n = Min(I)
    BY <2>1 DEF SelectInSeq
  <2> HIDE DEF n
  <2>3. n \in I
    BY <2>1, <2>2, MinIn
  <2> QED BY <2>3, <1>0
<1>1. d = [c EXCEPT !.ok = @ /\ i \in c.open, !.blocks = s]
  <2>1. n # 0
    BY <1>0, <1>9
  <2> QED BY <2>1 DEF Tells, Told, Reader
<1> HIDE DEF n
<1>2. /\ DOMAIN d = ClientFields /\ d.format = c.format /\ d.started = c.started /\ d.ended = c.ended
      /\ d.ok /\ d.open = c.open /\ d.blocks = s
  <2> HIDE DEF s
  <2> QED BY <1>1 DEF Reader, ClientFields
<1>3. /\ DOMAIN s = DOMAIN c.blocks
      /\ \A m \in DOMAIN c.blocks : m # n => s[m] = c.blocks[m]
      /\ DOMAIN s[n] = BlockFields /\ s[n].i = c.blocks[n].i /\ s[n].kind = c.blocks[n].kind
      /\ s[n].x = c.blocks[n].x \o x
  BY <1>9 DEF Reader, BlockFields
<1>4. IsSeq(s) /\ Len(s) = Len(c.blocks)
  <2>1. s = [m \in 1 .. Len(c.blocks) |-> s[m]]
    BY <1>0
  <2> HIDE DEF s
  <2>2. s \in Seq({ s[m] : m \in DOMAIN s }) /\ Len(s) = Len(c.blocks)
    BY <1>0, <1>3, <2>1
  <2> QED BY <2>2 DEF IsSeq
<1> HIDE DEF s
<1>5. Reader(cl, d)
  BY <1>2, <1>3, <1>4 DEF Reader
<1>6. \A m \in DOMAIN c.blocks : d.blocks[m].i = c.blocks[m].i /\ d.blocks[m].kind = c.blocks[m].kind
  BY <1>2, <1>3
<1> QED BY <1>2, <1>3, <1>4, <1>5, <1>6, <1>9 DEF n, HasTold

\* An open block closed.
HasClosed(c, i, d) == d.started = c.started /\ d.open = c.open \ {i} /\ d.blocks = c.blocks

\* An open block is closed.
LEMMA ClosesOne ==
    ASSUME NEW cl, NEW c, Reader(cl, c), NEW i \in c.open, NEW d, Closes(c, i, d)
    PROVE  Reader(cl, d) /\ HasClosed(c, i, d)
BY DEF HasClosed, Closes, Closed, Reader, ClientFields

\* The first event of a stream opens the client's.
LEMMA HearStart ==
    ASSUME NEW cl \in Formats, NEW next, NEW open, NEW e, NEW from,
           Hearing(cl, next, open, e, from), ~e.started, NEW e2, e2 = EncodeEvent(cl, e, [t |-> "start"])
    PROVE  Hearing(cl, next, open, e2, from) /\ e2.started
<1> DEFINE c == ReadAll(from, e.out)
           p == [t |-> CASE cl = "anthropic" -> "message_start" [] cl = "openai" -> "role"
                         [] cl = "responses" -> "created"]
<1>1. e2 = [Put(e, p) EXCEPT !.started = TRUE]
  BY DEF EncodeEvent, AnthropicEvent, OpenAIEvent, ResponsesEvent, Formats, Hearing, Hears, Writer
<1>2. Hears(cl, next, open, e, c)
  BY DEF Hearing
<1>3. /\ DOMAIN e2 = EncoderFields /\ e2.out = Append(e.out, p) /\ e2.started
      /\ e2.kinds = e.kinds /\ e2.tools = e.tools /\ e2.open = e.open /\ e2.nextOutput = e.nextOutput
  <2> HIDE DEF p
  <2> QED BY <1>1, <1>2 DEF Put, Hears, Writer, EncoderFields
<1>4. p.t \in Starts /\ p.t \in Tags
  BY DEF Formats, Starts, Tags
<1> HIDE DEF p
<1>5. Writer(e2) /\ ReadAll(from, e2.out) = Receive(c, p)
  <2>1. Writes(e, p, e2)
    BY <1>2, <1>3, <1>4 DEF Writes, Hears
  <2> HIDE DEF c
  <2> QED BY <2>1, OneMore DEF c
<1> HIDE DEF c
<1>6. BeginsOn(c, Receive(c, p))
  BY <1>4, Receives
<1> DEFINE c2 == Receive(c, p)
<1>7. Reader(cl, c2) /\ c2.started /\ c2.open = c.open /\ c2.blocks = c.blocks
  BY <1>2, <1>6 DEF Hears, Reader, ClientFields, BeginsOn
<1> HIDE DEF c2
<1>8. Hears(cl, next, open, e2, c2)
  <2>1. cl = "anthropic" => HearsAnthropic(next, open, e2, c2)
    BY <1>2, <1>3, <1>7 DEF Hears, HearsAnthropic
  <2>2. cl = "openai" => HearsOpenAI(next, e2, c2)
    BY <1>2, <1>3, <1>7 DEF Hears, HearsOpenAI
  <2>3. cl = "responses" => HearsResponses(open, e2, c2)
    BY SMTT(20), <1>2, <1>3, <1>7 DEF Hears, HearsResponses
  <2> QED BY <1>2, <1>3, <1>5, <1>7, <2>1, <2>2, <2>3 DEF Hears
<1> QED BY <1>3, <1>5, <1>8 DEF Hearing, c2

\* Where a numbered block is.
LEMMA BlockAt ==
    ASSUME NEW s, IsSeq(s), \A n \in 1 .. Len(s) : s[n].i = n - 1, NEW i \in 0 .. Len(s) - 1
    PROVE  SelectInSeq(s, LAMBDA b : b.i = i) = i + 1
<1>1. Len(s) \in Nat
  BY DEF IsSeq
<1>2. { m \in 1 .. Len(s) : s[m].i = i } = {i + 1}
  BY <1>1
<1>3. Min({i + 1}) = i + 1
  BY <1>1, MinOfOne
<1> QED BY <1>2, <1>3 DEF SelectInSeq

-----------------------------------------------------------------------------
(* Anthropic clients.                                                         *)

\* What the encoder and the client know of a block that is open.
SameBlock(e, c, i) ==
    /\ i + 1 \in DOMAIN c.blocks /\ i + 1 # 0 /\ c.blocks[i + 1].i = i
    /\ SelectInSeq(c.blocks, LAMBDA b : b.i = i) = i + 1
    /\ KindOf(e, i) = c.blocks[i + 1].kind

\* Encoder and client agree about every open block.
LEMMA AnthropicBlock ==
    ASSUME NEW next, NEW open, NEW e, NEW c, Hears("anthropic", next, open, e, c), NEW i \in open
    PROVE  SameBlock(e, c, i)
<1>1. /\ i \in 0 .. next - 1 /\ next \in Nat /\ HearsAnthropic(next, open, e, c) /\ IsSeq(c.blocks)
  BY DEF Hears, Reader
<1>2. /\ DOMAIN c.blocks = 1 .. next /\ i + 1 \in 1 .. next /\ DOMAIN e.kinds = 1 .. next
      /\ \E n \in DOMAIN e.kinds : e.kinds[n].i = i
  <2>1. DOMAIN c.blocks = 1 .. next /\ i + 1 \in 1 .. next /\ DOMAIN e.kinds = 1 .. next
    BY <1>1 DEF HearsAnthropic, IsSeq
  <2>2. e.kinds[i + 1].i = i
    BY <1>1, <2>1 DEF HearsAnthropic
  <2> QED BY <2>1, <2>2
<1>3. SelectInSeq(c.blocks, LAMBDA b : b.i = i) = i + 1
  BY <1>1, BlockAt DEF HearsAnthropic
<1>4. SelectInSeq(e.kinds, LAMBDA b : b.i = i) = i + 1
  BY <1>1, BlockAt DEF HearsAnthropic
<1>5. KindOf(e, i) = e.kinds[i + 1].kind
  BY <1>2, <1>4 DEF KindOf
<1>6. c.blocks[i + 1].kind = e.kinds[i + 1].kind /\ c.blocks[i + 1].i = i /\ i + 1 # 0
  BY <1>1, <1>2 DEF HearsAnthropic
<1> QED BY <1>2, <1>3, <1>5, <1>6 DEF SameBlock

\* A block more.
LEMMA AnthropicOpens ==
    ASSUME NEW next, NEW open, NEW e, NEW c, Hears("anthropic", next, open, e, c), NEW kind,
           NEW e2, e2.kinds = Append(e.kinds, [i |-> next, kind |-> kind]), Writer(e2),
           e.started, e2.started,
           NEW d, Opens(c, next, kind, d)
    PROVE  Hears("anthropic", next + 1, open \cup {next}, e2, d)
<1> DEFINE k == [i |-> next, kind |-> kind]
           b == [i |-> next, kind |-> kind, x |-> <<>>]
<1>1. /\ HearsAnthropic(next, open, e, c) /\ Reader("anthropic", c) /\ c.started /\ next \in Nat
      /\ open \subseteq 0 .. next - 1 /\ Len(c.blocks) = next /\ IsSeq(e.kinds) /\ Len(e.kinds) = next
  BY DEF Hears, HearsAnthropic
<1>2. \A n \in DOMAIN c.blocks : c.blocks[n].i # next
  <2>1. DOMAIN c.blocks = 1 .. next
    BY <1>1 DEF Reader, IsSeq
  <2>2. \A n \in 1 .. next : c.blocks[n].i = n - 1 
    BY <1>1 DEF HearsAnthropic
  <2> QED BY <2>1, <2>2, <1>1
<1>3. /\ Reader("anthropic", d) /\ d.started /\ d.open = c.open \cup {next}
      /\ Len(d.blocks) = Len(c.blocks) + 1 /\ DOMAIN c.blocks = 1 .. Len(c.blocks)
      /\ \A n \in DOMAIN c.blocks : d.blocks[n] = c.blocks[n]
      /\ d.blocks[Len(c.blocks) + 1] = b
  <2>1. Fresh(c, next)
    BY <1>2 DEF Fresh
  <2>2. Reader("anthropic", d) /\ HasOpened(c, next, kind, d)
    BY <1>1, <2>1, OpensOne
  <2> QED BY <2>2 DEF HasOpened
<1>4. /\ Len(d.blocks) = next + 1 /\ \A n \in 1 .. next : d.blocks[n] = c.blocks[n]
      /\ d.blocks[next + 1] = b
  BY <1>1, <1>3
<1>5. /\ IsSeq(e2.kinds) /\ Len(e2.kinds) = next + 1
      /\ \A n \in 1 .. next : e2.kinds[n] = e.kinds[n]
      /\ e2.kinds[next + 1] = k
  <2> HIDE DEF k
  <2>1. e2.kinds = Append(e.kinds, k)
    BY DEF k
  <2> QED BY <2>1, <1>1, Appended
<1>6. HearsAnthropic(next + 1, open \cup {next}, e2, d)
  <2>1. ASSUME NEW n \in 1 .. next + 1
        PROVE  /\ e2.kinds[n].i = n - 1 /\ d.blocks[n].i = n - 1
               /\ d.blocks[n].kind = e2.kinds[n].kind
    <3>1. CASE n = next + 1
      BY <3>1, <1>1, <1>4, <1>5
    <3>2. CASE n \in 1 .. next
      BY <3>2, <1>1, <1>4, <1>5 DEF HearsAnthropic
    <3> QED BY <3>1, <3>2, <1>1
  <2>2. d.open = open \cup {next}
    BY <1>1, <1>3 DEF HearsAnthropic
  <2> QED BY <2>1, <2>2, <1>4, <1>5 DEF HearsAnthropic
<1>7. next + 1 \in Nat /\ open \cup {next} \subseteq 0 .. (next + 1) - 1
  BY <1>1
<1> QED BY <1>3, <1>6, <1>7 DEF Hears

\* Opening a block, to an Anthropic client.
LEMMA AnthropicHearsOpen ==
    ASSUME NEW next, NEW open, NEW e, NEW from, Hearing("anthropic", next, open, e, from), e.started,
           NEW kind, NEW e2, e2 = AnthropicEvent(e, [t |-> "open", i |-> next, kind |-> kind])
    PROVE  Hearing("anthropic", next + 1, open \cup {next}, e2, from) /\ e2.started
<1> DEFINE c == ReadAll(from, e.out)
           p == [t |-> "block_start", i |-> next, kind |-> kind]
           k == [i |-> next, kind |-> kind]
<1>1. Hears("anthropic", next, open, e, c) /\ Writer(e)
  BY DEF Hearing, Hears
<1>2. e2 = [Put(e, p) EXCEPT !.kinds = Append(@, k)]
  BY <1>1 DEF AnthropicEvent, Writer
<1>3. Receive(c, p) = Opened(c, next, kind) /\ p.t \in Tags
  <2>1. p.t \in Tags
    BY DEF Tags
  <2> HIDE DEF c
  <2>2. Receive(c, p) = Opened(c, next, kind)
    BY Receives
  <2> QED BY <2>1, <2>2
<1> HIDE DEF p, k, c
<1>4. /\ DOMAIN e2 = EncoderFields /\ e2.out = Append(e.out, p) /\ e2.kinds = Append(e.kinds, k)
      /\ e2.started
  BY <1>1, <1>2 DEF Put, Writer, EncoderFields
<1>5. Writer(e2) /\ ReadAll(from, e2.out) = Receive(c, p)
  <2>1. Writes(e, p, e2)
    BY <1>1, <1>3, <1>4 DEF Writes
  <2> QED BY <2>1, OneMore DEF c
<1>6. Hears("anthropic", next + 1, open \cup {next}, e2, Receive(c, p))
  BY SMTT(20), <1>1, <1>3, <1>4, <1>5, AnthropicOpens DEF k, Opens
<1> QED BY <1>4, <1>5, <1>6 DEF Hearing

\* Text for an open block, to an Anthropic client, which checks its kind.
LEMMA AnthropicHearsDelta ==
    ASSUME NEW next, NEW open, NEW e, NEW from, Hearing("anthropic", next, open, e, from),
           NEW i \in open, NEW x, NEW e2, e2 = AnthropicEvent(e, [t |-> "delta", i |-> i, x |-> x])
    PROVE  e.started => Hearing("anthropic", next, open, e2, from) /\ e2.started
<1> SUFFICES ASSUME e.started
             PROVE  Hearing("anthropic", next, open, e2, from) /\ e2.started
  OBVIOUS
<1> DEFINE c == ReadAll(from, e.out)
           p == [t |-> "block_delta", i |-> i, kind |-> KindOf(e, i), x |-> x]
           told == Told(c, i, x)
           d == Receive(c, p)
<1>1. Hears("anthropic", next, open, e, c) /\ Writer(e)
  BY DEF Hearing, Hears
<1>2. e2 = Put(e, p)
  BY <1>1 DEF AnthropicEvent, Writer
<1>3. /\ i + 1 \in DOMAIN c.blocks /\ c.blocks[i + 1].i = i
      /\ SelectInSeq(c.blocks, LAMBDA b : b.i = i) = i + 1 /\ i + 1 # 0
      /\ KindOf(e, i) = c.blocks[i + 1].kind
  <2> HIDE DEF c
  <2>1. SameBlock(e, c, i)
    BY <1>1, AnthropicBlock
  <2> QED BY <2>1 DEF SameBlock
<1>4. d = [told EXCEPT !.ok = @ /\ TRUE]
  <2> HIDE DEF c, told
  <2>1. d = [told EXCEPT !.ok = @ /\ c.blocks[i + 1].kind = p.kind]
    BY <1>3 DEF Receive, Starts, Lasts, After, told
  <2> QED BY <2>1, <1>3
<1>5. p.t \in Tags /\ Writes(e, p, e2)
  BY <1>1, <1>2 DEF Tags, Writes, Put, Writer, EncoderFields
<1>6. /\ e2.kinds = e.kinds /\ e2.started = e.started
  <2> HIDE DEF p
  <2> QED BY <1>1, <1>2 DEF Put, Writer, EncoderFields
<1> HIDE DEF p, c, told, d
<1>7. Writer(e2) /\ ReadAll(from, e2.out) = d
  BY <1>5, OneMore DEF c, d
<1>8. Reader("anthropic", c) /\ i \in c.open /\ ~Fresh(c, i) /\ HearsAnthropic(next, open, e, c)
  BY <1>1, <1>3 DEF Hears, HearsAnthropic, Fresh
<1>9. Reader("anthropic", told) /\ HasTold(c, i, x, told)
  <2>1. Tells(c, i, x, told)
    BY DEF Tells, told
  <2> QED BY <2>1, <1>8, TellsOne
<1>10. Reader("anthropic", d) /\ HasTold(c, i, x, d)
  <2>1. /\ DOMAIN d = DOMAIN told /\ d.format = told.format /\ d.ok /\ d.started = told.started
        /\ d.ended = told.ended /\ d.open = told.open /\ d.blocks = told.blocks
    BY <1>4, <1>9 DEF Reader, ClientFields
  <2>2. Reader("anthropic", d)
    BY <2>1, <1>9 DEF Reader
  <2>3. HasTold(c, i, x, d) = HasTold(c, i, x, told)
    BY <2>1 DEF HasTold
  <2> QED BY <2>2, <2>3, <1>9
<1>11. HearsAnthropic(next, open, e2, d)
  <2>3. d.open = c.open /\ Len(d.blocks) = Len(c.blocks)
    BY <1>10 DEF HasTold
  <2>4. /\ IsSeq(e.kinds) /\ Len(e.kinds) = next /\ c.open = open /\ Len(c.blocks) = next
    BY <1>8 DEF HearsAnthropic
  <2>5. DOMAIN c.blocks = 1 .. next
    BY <2>4, <1>8 DEF Reader, IsSeq
  <2>1. /\ d.open = open /\ Len(d.blocks) = next /\ IsSeq(e2.kinds) /\ Len(e2.kinds) = next
        /\ DOMAIN c.blocks = 1 .. next
    BY <1>6, <2>3, <2>4, <2>5
  <2>2. \A n \in 1 .. next : d.blocks[n].i = c.blocks[n].i /\ d.blocks[n].kind = c.blocks[n].kind
    BY <2>1, <1>10 DEF HasTold
  <2> QED BY <2>1, <2>2, <1>6, <1>8 DEF HearsAnthropic
<1> QED BY <1>1, <1>6, <1>7, <1>10, <1>11 DEF Hearing, Hears, HasTold

\* A block closed, to an Anthropic client.
LEMMA AnthropicHearsStop ==
    ASSUME NEW next, NEW open, NEW e, NEW from, Hearing("anthropic", next, open, e, from),
           NEW i \in open, NEW e2, e2 = AnthropicEvent(e, [t |-> "stop", i |-> i])
    PROVE  e.started => Hearing("anthropic", next, open \ {i}, e2, from) /\ e2.started
<1> SUFFICES ASSUME e.started
             PROVE  Hearing("anthropic", next, open \ {i}, e2, from) /\ e2.started
  OBVIOUS
<1> DEFINE c == ReadAll(from, e.out)
           p == [t |-> "block_stop", i |-> i]
           d == Receive(c, p)
<1>1. Hears("anthropic", next, open, e, c) /\ Writer(e)
  BY DEF Hearing, Hears
<1>2. e2 = Put(e, p)
  BY <1>1 DEF AnthropicEvent, Writer
<1>3. Closes(c, i, d)
  <2> HIDE DEF c
  <2> QED BY Receives DEF Closes
<1>4. p.t \in Tags /\ Writes(e, p, e2)
  BY <1>1, <1>2 DEF Tags, Writes, Put, Writer, EncoderFields
<1>5. /\ e2.kinds = e.kinds /\ e2.started = e.started
  <2> HIDE DEF p
  <2> QED BY <1>1, <1>2 DEF Put, Writer, EncoderFields
<1> HIDE DEF p, c, d
<1>6. Writer(e2) /\ ReadAll(from, e2.out) = d
  BY <1>4, OneMore DEF c, d
<1>7. Reader("anthropic", c) /\ i \in c.open /\ HearsAnthropic(next, open, e, c)
  BY <1>1 DEF Hears, HearsAnthropic
<1>8. Reader("anthropic", d) /\ HasClosed(c, i, d)
  BY <1>3, <1>7, ClosesOne
<1>9. HearsAnthropic(next, open \ {i}, e2, d)
  BY <1>5, <1>7, <1>8 DEF HasClosed, HearsAnthropic
<1> QED BY <1>1, <1>5, <1>6, <1>8, <1>9 DEF Hearing, Hears, HasClosed

-----------------------------------------------------------------------------
(* Chat Completions clients.                                                  *)

\* The first element with an i.
FirstOf(s, i) == SelectInSeq(s, LAMBDA b : b.i = i)

\* It is there when there is one.
LEMMA FirstFound ==
    ASSUME NEW s, IsSeq(s), NEW i, \E n \in DOMAIN s : s[n].i = i
    PROVE  FirstOf(s, i) \in DOMAIN s /\ s[FirstOf(s, i)].i = i
<1> DEFINE I == { m \in 1 .. Len(s) : s[m].i = i }
<1>1. DOMAIN s = 1 .. Len(s) /\ Len(s) \in Nat
  BY DEF IsSeq
<1>2. I # {} /\ I \in SUBSET Nat
  BY <1>1
<1>3. FirstOf(s, i) = Min(I)
  BY <1>2 DEF FirstOf, SelectInSeq
<1>4. Min(I) \in I
  BY <1>2, MinIn
<1> QED BY <1>1, <1>3, <1>4

\* A call's number is its place among the tools.
LEMMA OrdinalOf ==
    ASSUME NEW e, IsSeq(e.tools), NEW i \in ToSet(e.tools)
    PROVE  \E m \in DOMAIN e.tools : e.tools[m] = i /\ Ordinal(e, i) = m - 1
<1> DEFINE I == { m \in 1 .. Len(e.tools) : e.tools[m] = i }
<1>1. DOMAIN e.tools = 1 .. Len(e.tools) /\ Len(e.tools) \in Nat
  BY DEF IsSeq
<1>2. I # {} /\ I \in SUBSET Nat
  BY <1>1 DEF ToSet
<1>3. Ordinal(e, i) = Min(I) - 1
  BY <1>2 DEF Ordinal, SelectInSeq
<1>4. Min(I) \in I
  BY <1>2, MinIn
<1> QED BY <1>1, <1>3, <1>4

\* The kind of a block; a call has a place.
LEMMA KindKnown ==
    ASSUME NEW next, NEW e, NEW c, HearsOpenAI(next, e, c), NEW i
    PROVE  KindOf(e, i) \in Kinds /\ (KindOf(e, i) = "tool" => i \in ToSet(e.tools))
<1> DEFINE n == FirstOf(e.kinds, i)
<1>1. CASE \E m \in DOMAIN e.kinds : e.kinds[m].i = i
  <2>1. n \in DOMAIN e.kinds /\ e.kinds[n].i = i
    BY <1>1, FirstFound DEF HearsOpenAI
  <2>2. KindOf(e, i) = e.kinds[n].kind
    BY <1>1 DEF KindOf, FirstOf
  <2> HIDE DEF n
  <2> QED BY <2>1, <2>2 DEF HearsOpenAI
<1>2. CASE ~ \E m \in DOMAIN e.kinds : e.kinds[m].i = i
  BY <1>2 DEF KindOf, Kinds, Prose
<1> QED BY <1>1, <1>2


\* Text changes no names.
LEMMA OpenAITold ==
    ASSUME NEW next, NEW e, NEW c, HearsOpenAI(next, e, c), NEW i, NEW x, NEW d, HasTold(c, i, x, d),
           NEW e2, e2.kinds = e.kinds, e2.tools = e.tools
    PROVE  HearsOpenAI(next, e2, d)
<1>1. /\ d.open = c.open /\ DOMAIN d.blocks = DOMAIN c.blocks
      /\ \A m \in DOMAIN c.blocks : d.blocks[m].i = c.blocks[m].i /\ d.blocks[m].kind = c.blocks[m].kind
  BY DEF HasTold
<1> QED BY <1>1 DEF HearsOpenAI

\* The first piece of a kind of prose opens it.
LEMMA OpenAIOpensProse ==
    ASSUME NEW next, NEW e, NEW c, HearsOpenAI(next, e, c), NEW kind \in Prose, NEW d,
           HasOpened(c, << kind, 0 >>, kind, d)
    PROVE  HearsOpenAI(next, e, d) /\ ~Fresh(d, << kind, 0 >>) /\ << kind, 0 >> \in d.open
<1> DEFINE i == << kind, 0 >>
           b == [i |-> i, kind |-> kind, x |-> <<>>]
<1>1. /\ d.open = c.open \cup {i} /\ Len(c.blocks) \in Nat
      /\ DOMAIN c.blocks = 1 .. Len(c.blocks) /\ DOMAIN d.blocks = 1 .. Len(c.blocks) + 1
      /\ \A n \in DOMAIN c.blocks : d.blocks[n] = c.blocks[n]
      /\ d.blocks[Len(c.blocks) + 1] = b
  BY DEF HasOpened
<1>2. b.i = i /\ b.kind = kind
  OBVIOUS
<1> HIDE DEF b
<1>3. ASSUME NEW n \in DOMAIN d.blocks
      PROVE  /\ d.blocks[n].i \in d.open
             /\ \/ d.blocks[n].kind \in Prose /\ d.blocks[n].i = << d.blocks[n].kind, 0 >>
                \/ /\ d.blocks[n].kind = "tool"
                   /\ \E k \in DOMAIN e.tools : d.blocks[n].i = << "tool", k - 1 >>
  <2>1. CASE n \in DOMAIN c.blocks
    <3>1. d.blocks[n] = c.blocks[n]
      BY <2>1, <1>1
    <3>2. d.blocks[n].i \in d.open
      BY <2>1, <3>1, <1>1 DEF HearsOpenAI
    <3>3. \/ c.blocks[n].kind \in Prose /\ c.blocks[n].i = << c.blocks[n].kind, 0 >>
          \/ /\ c.blocks[n].kind = "tool"
             /\ \E k \in DOMAIN e.tools : c.blocks[n].i = << "tool", k - 1 >>
      BY <2>1 DEF HearsOpenAI
    <3> QED BY <3>1, <3>2, <3>3
  <2>2. CASE n = Len(c.blocks) + 1
    <3>1. d.blocks[n].i = i /\ d.blocks[n].kind = kind
      BY <2>2, <1>1, <1>2
    <3> QED BY <3>1, <1>1
  <2> QED BY <2>1, <2>2, <1>1
<1>4. \A k \in DOMAIN e.tools : \E n \in DOMAIN d.blocks : d.blocks[n].i = << "tool", k - 1 >>
  <2> SUFFICES ASSUME NEW k \in DOMAIN e.tools
               PROVE  \E n \in DOMAIN d.blocks : d.blocks[n].i = << "tool", k - 1 >>
    OBVIOUS
  <2>1. PICK n \in DOMAIN c.blocks : c.blocks[n].i = << "tool", k - 1 >>
    BY DEF HearsOpenAI
  <2>2. n \in DOMAIN d.blocks /\ d.blocks[n] = c.blocks[n]
    BY <1>1
  <2> QED BY <2>1, <2>2
<1>5. HearsOpenAI(next, e, d)
  BY <1>3, <1>4 DEF HearsOpenAI
<1>6. ~Fresh(d, i) /\ i \in d.open
  <2>1. Len(c.blocks) + 1 \in DOMAIN d.blocks /\ d.blocks[Len(c.blocks) + 1].i = i
    BY <1>1, <1>2
  <2> QED BY <2>1, <1>1 DEF Fresh
<1> QED BY <1>5, <1>6

\* Prose, to a Chat Completions client.
LEMMA OpenAISpoken ==
    ASSUME NEW next, NEW e, NEW c, HearsOpenAI(next, e, c), Reader("openai", c), NEW kind \in Prose, NEW x,
           NEW d, d = Spoken(c, kind, x), NEW e2, e2.kinds = e.kinds, e2.tools = e.tools
    PROVE  c.started => Reader("openai", d) /\ d.started /\ HearsOpenAI(next, e2, d)
<1> SUFFICES ASSUME c.started
             PROVE  Reader("openai", d) /\ d.started /\ HearsOpenAI(next, e2, d)
  OBVIOUS
<1> DEFINE i == << kind, 0 >>
<1>1. CASE \E n \in DOMAIN c.blocks : c.blocks[n].kind = kind
  <2>1. Tells(c, i, x, d)
    BY <1>1 DEF Spoken, Tells
  <2>2. PICK n \in DOMAIN c.blocks : c.blocks[n].kind = kind
    BY <1>1
  <2>3. c.blocks[n].i = i /\ i \in c.open
    BY <2>2 DEF HearsOpenAI, Prose
  <2> HIDE DEF i
  <2>4. ~Fresh(c, i)
    BY <2>3 DEF Fresh
  <2>5. Reader("openai", d) /\ HasTold(c, i, x, d)
    BY <2>1, <2>3, <2>4, TellsOne
  <2>6. HearsOpenAI(next, e2, d)
    BY <2>5, OpenAITold
  <2> QED BY <2>5, <2>6 DEF HasTold
<1>2. CASE ~ \E n \in DOMAIN c.blocks : c.blocks[n].kind = kind
  <2> DEFINE o == Opened(c, i, kind)
  <2>1. d = Told(o, i, x)
    BY <1>2 DEF Spoken
  <2>2. Fresh(c, i)
    <3> SUFFICES ASSUME NEW n \in DOMAIN c.blocks, c.blocks[n].i = i PROVE FALSE
      BY DEF Fresh
    <3>1. c.blocks[n].kind # kind
      BY <1>2
    <3>2. \/ c.blocks[n].kind \in Prose /\ c.blocks[n].i = << c.blocks[n].kind, 0 >>
          \/ \E k \in DOMAIN e.tools : c.blocks[n].i = << "tool", k - 1 >>
      BY DEF HearsOpenAI
    <3>3. CASE c.blocks[n].i = << c.blocks[n].kind, 0 >>
      BY <3>1, <3>3
    <3>4. ASSUME NEW k \in DOMAIN e.tools, c.blocks[n].i = << "tool", k - 1 >> PROVE FALSE
      BY <3>4 DEF Prose
    <3> QED BY <3>2, <3>3, <3>4
  <2>3. Opens(c, i, kind, o) /\ Tells(o, i, x, d)
    BY <2>1 DEF Opens, Tells
  <2> HIDE DEF o
  <2>4. Reader("openai", o) /\ HasOpened(c, i, kind, o)
    <3> HIDE DEF i
    <3> QED BY <2>2, <2>3, OpensOne
  <2>5. HearsOpenAI(next, e, o) /\ ~Fresh(o, i) /\ i \in o.open
    BY <2>4, OpenAIOpensProse
  <2> HIDE DEF i
  <2>6. Reader("openai", d) /\ HasTold(o, i, x, d)
    BY <2>3, <2>4, <2>5, TellsOne
  <2>7. HearsOpenAI(next, e2, d)
    BY SMTT(20), <2>5, <2>6, OpenAITold
  <2>8. d.started
    BY <2>4, <2>6 DEF HasTold, HasOpened
  <2> QED BY <2>6, <2>7, <2>8
<1> QED BY <1>1, <1>2

\* A piece of a call, to a Chat Completions client.
LEMMA OpenAICalled ==
    ASSUME NEW next, NEW e, NEW c, HearsOpenAI(next, e, c), Reader("openai", c),
           NEW i \in ToSet(e.tools), NEW x,
           NEW d, Tells(c, << "tool", Ordinal(e, i) >>, x, d), NEW e2, e2.kinds = e.kinds, e2.tools = e.tools
    PROVE  c.started => Reader("openai", d) /\ d.started /\ HearsOpenAI(next, e2, d)
<1> SUFFICES ASSUME c.started
             PROVE  Reader("openai", d) /\ d.started /\ HearsOpenAI(next, e2, d)
  OBVIOUS
<1> DEFINE j == << "tool", Ordinal(e, i) >>
<1>1. Tells(c, j, x, d)
  OBVIOUS
<1>2. IsSeq(e.tools)
  BY DEF HearsOpenAI
<1>3. PICK m \in DOMAIN e.tools : e.tools[m] = i /\ Ordinal(e, i) = m - 1
  BY <1>2, OrdinalOf
<1>4. PICK n \in DOMAIN c.blocks : c.blocks[n].i = << "tool", m - 1 >>
  BY DEF HearsOpenAI
<1>5. c.blocks[n].i = j /\ j \in c.open
  BY <1>3, <1>4 DEF HearsOpenAI
<1> HIDE DEF j
<1>6. ~Fresh(c, j)
  BY <1>5 DEF Fresh
<1>7. Reader("openai", d) /\ HasTold(c, j, x, d)
  BY <1>1, <1>5, <1>6, TellsOne
<1>8. HearsOpenAI(next, e2, d)
  BY <1>7, OpenAITold
<1> QED BY <1>7, <1>8 DEF HasTold

\* Text for an open block, to a Chat Completions client.
LEMMA OpenAIHearsDelta ==
    ASSUME NEW next, NEW open, NEW e, NEW from, Hearing("openai", next, open, e, from),
           NEW i, NEW x, NEW e2, e2 = OpenAIEvent(e, [t |-> "delta", i |-> i, x |-> x])
    PROVE  e.started => Hearing("openai", next, open, e2, from) /\ e2.started
<1> SUFFICES ASSUME e.started
             PROVE  Hearing("openai", next, open, e2, from) /\ e2.started
  OBVIOUS
<1> DEFINE c == ReadAll(from, e.out)
           call == [t |-> "call", n |-> Ordinal(e, i), new |-> FALSE, x |-> x]
           say == [t |-> "say", kind |-> KindOf(e, i), x |-> x]
           p == IF KindOf(e, i) = "tool" THEN call ELSE say
           d == Receive(c, p)
<1>1. Hears("openai", next, open, e, c) /\ Writer(e)
  BY DEF Hearing, Hears
<1>2. e2 = Put(e, p)
  BY <1>1 DEF OpenAIEvent, Writer
<1>3. p.t \in Tags /\ Writes(e, p, e2)
  <2>1. p.t \in Tags
    BY DEF Tags
  <2> HIDE DEF p
  <2> QED BY <2>1, <1>1, <1>2 DEF Writes, Put, Writer, EncoderFields
<1>4. e2.kinds = e.kinds /\ e2.tools = e.tools /\ e2.started = e.started
  <2> HIDE DEF p
  <2> QED BY <1>1, <1>2 DEF Put, Writer, EncoderFields
<1>5. Writer(e2) /\ ReadAll(from, e2.out) = d
  <2> HIDE DEF p, c
  <2> QED BY <1>3, OneMore DEF c
<1>6. /\ Reader("openai", c) /\ HearsOpenAI(next, e, c) /\ c.started
  BY <1>1 DEF Hears
<1>7. Reader("openai", d) /\ d.started /\ HearsOpenAI(next, e2, d)
  <2> HIDE DEF c
  <2>1. CASE KindOf(e, i) = "tool"
    <3>1. i \in ToSet(e.tools)
      BY <1>6, <2>1, KindKnown
    <3>2. Tells(c, << "tool", Ordinal(e, i) >>, x, d)
      <4>1. Receive(c, call) = Told(c, << "tool", Ordinal(e, i) >>, x)
        BY Receives
      <4> QED BY <2>1, <4>1 DEF Tells
    <3> HIDE DEF d
    <3> QED BY <3>1, <3>2, <1>4, <1>6, OpenAICalled
  <2>2. CASE KindOf(e, i) # "tool"
    <3> DEFINE kind == KindOf(e, i)
    <3>1. kind \in Prose
      BY <1>6, <2>2, KindKnown DEF Kinds
    <3>2. d = Spoken(c, kind, x)
      <4>1. Receive(c, say) = Spoken(c, kind, x)
        BY Receives
      <4> QED BY <2>2, <4>1
    <3> HIDE DEF d, kind
    <3> QED BY <3>1, <3>2, <1>4, <1>6, OpenAISpoken
  <2> QED BY <2>1, <2>2
<1> HIDE DEF c, d
<1> QED BY <1>1, <1>4, <1>5, <1>7 DEF Hearing, Hears

\* A call more: it takes the next place.
CallName(e, i) == << "tool", Ordinal(e, i) >>
AddsCall(e, next, e2) ==
    /\ e2.kinds = Append(e.kinds, [i |-> next, kind |-> "tool"])
    /\ e2.tools = Append(e.tools, next)

\* The client that opens it follows.
LEMMA OpenAIOpensCall ==
    ASSUME NEW next \in Nat, NEW e, NEW c, HearsOpenAI(next, e, c), Reader("openai", c),
           NEW e2, AddsCall(e, next, e2), NEW d, Opens(c, CallName(e2, next), "tool", d)
    PROVE  c.started => Reader("openai", d) /\ d.started /\ HearsOpenAI(next + 1, e2, d)
<1> SUFFICES ASSUME c.started
             PROVE  Reader("openai", d) /\ d.started /\ HearsOpenAI(next + 1, e2, d)
  OBVIOUS
<1> DEFINE k == [i |-> next, kind |-> "tool"]
           T == Len(e.tools)
           j == << "tool", T >>
           b == [i |-> j, kind |-> "tool", x |-> <<>>]
<1>1. /\ IsSeq(e2.tools) /\ T \in Nat /\ DOMAIN e.tools = 1 .. T /\ DOMAIN e2.tools = 1 .. T + 1
      /\ \A n \in DOMAIN e.tools : e2.tools[n] = e.tools[n]
      /\ e2.tools[T + 1] = next
  BY Appended DEF HearsOpenAI, AddsCall
<1>2. /\ IsSeq(e2.kinds) /\ Len(e.kinds) \in Nat
      /\ DOMAIN e.kinds = 1 .. Len(e.kinds) /\ DOMAIN e2.kinds = 1 .. Len(e.kinds) + 1
      /\ \A n \in DOMAIN e.kinds : e2.kinds[n] = e.kinds[n]
      /\ e2.kinds[Len(e.kinds) + 1] = k
  <2>1. e2.kinds = Append(e.kinds, k)
    BY DEF AddsCall
  <2> HIDE DEF k
  <2> QED BY <2>1, Appended DEF HearsOpenAI
<1>3. Ordinal(e2, next) = T
  <2>1. next \in ToSet(e2.tools)
    BY <1>1 DEF ToSet
  <2>2. PICK m \in DOMAIN e2.tools : e2.tools[m] = next /\ Ordinal(e2, next) = m - 1
    BY <1>1, <2>1, OrdinalOf
  <2>3. m \notin DOMAIN e.tools
    <3>1. \A n \in DOMAIN e.tools : e.tools[n] # next
      BY DEF HearsOpenAI
    <3> QED BY <3>1, <1>1, <2>2
  <2>4. m = T + 1
    BY <1>1, <2>3
  <2> QED BY <2>2, <2>4, <1>1
<1>4. Fresh(c, j)
  <2> SUFFICES ASSUME NEW n \in DOMAIN c.blocks, c.blocks[n].i = j PROVE FALSE
    BY DEF Fresh
  <2>1. \/ c.blocks[n].kind \in Prose /\ c.blocks[n].i = << c.blocks[n].kind, 0 >>
        \/ \E m \in DOMAIN e.tools : c.blocks[n].i = << "tool", m - 1 >>
    BY DEF HearsOpenAI
  <2>2. CASE c.blocks[n].kind \in Prose /\ c.blocks[n].i = << c.blocks[n].kind, 0 >>
    BY <2>2 DEF Prose
  <2>3. ASSUME NEW m \in DOMAIN e.tools, c.blocks[n].i = << "tool", m - 1 >> PROVE FALSE
    BY <2>3, <1>1
  <2> QED BY <2>1, <2>2, <2>3
<1>5. Reader("openai", d) /\ HasOpened(c, j, "tool", d)
  <2>1. Opens(c, j, "tool", d)
    BY <1>3 DEF CallName
  <2> HIDE DEF j
  <2> QED BY <2>1, <1>4, OpensOne
<1>6. /\ d.open = c.open \cup {j} /\ d.started /\ Len(c.blocks) \in Nat
      /\ DOMAIN c.blocks = 1 .. Len(c.blocks) /\ DOMAIN d.blocks = 1 .. Len(c.blocks) + 1
      /\ \A n \in DOMAIN c.blocks : d.blocks[n] = c.blocks[n]
      /\ d.blocks[Len(c.blocks) + 1].i = j /\ d.blocks[Len(c.blocks) + 1].kind = "tool"
  BY <1>5 DEF HasOpened
<1>7. ASSUME NEW n \in DOMAIN e2.kinds
      PROVE  /\ e2.kinds[n].kind \in Kinds
             /\ e2.kinds[n].kind = "tool" => e2.kinds[n].i \in ToSet(e2.tools)
  <2>1. CASE n \in DOMAIN e.kinds
    <3>1. /\ e.kinds[n].kind \in Kinds
          /\ e.kinds[n].kind = "tool" => e.kinds[n].i \in ToSet(e.tools)
      BY <2>1 DEF HearsOpenAI
    <3>2. ToSet(e.tools) \subseteq ToSet(e2.tools)
      BY <1>1 DEF ToSet
    <3>3. e2.kinds[n] = e.kinds[n]
      BY <2>1, <1>2
    <3> QED BY <3>1, <3>2, <3>3
  <2>2. CASE n = Len(e.kinds) + 1
    <3>1. e2.kinds[n].kind = "tool" /\ e2.kinds[n].i = next
      BY <2>2, <1>2
    <3>2. next \in ToSet(e2.tools)
      BY <1>1 DEF ToSet
    <3> QED BY <3>1, <3>2 DEF Kinds
  <2> QED BY <2>1, <2>2, <1>2
<1>8. \A n \in DOMAIN e2.tools : e2.tools[n] \in 0 .. (next + 1) - 1
  <2> SUFFICES ASSUME NEW n \in DOMAIN e2.tools PROVE e2.tools[n] \in 0 .. (next + 1) - 1
    OBVIOUS
  <2>1. CASE n \in DOMAIN e.tools
    <3>1. e.tools[n] \in 0 .. next - 1
      BY <2>1 DEF HearsOpenAI
    <3> QED BY <3>1, <2>1, <1>1
  <2>2. CASE n = T + 1
    BY <2>2, <1>1
  <2> QED BY <2>1, <2>2, <1>1
<1>9. ASSUME NEW n \in DOMAIN d.blocks
      PROVE  /\ d.blocks[n].i \in d.open
             /\ \/ d.blocks[n].kind \in Prose /\ d.blocks[n].i = << d.blocks[n].kind, 0 >>
                \/ /\ d.blocks[n].kind = "tool"
                   /\ \E m \in DOMAIN e2.tools : d.blocks[n].i = << "tool", m - 1 >>
  <2>1. CASE n \in DOMAIN c.blocks
    <3>1. d.blocks[n] = c.blocks[n]
      BY <2>1, <1>6
    <3>2. d.blocks[n].i \in d.open
      BY <2>1, <3>1, <1>6 DEF HearsOpenAI
    <3>3. \/ c.blocks[n].kind \in Prose /\ c.blocks[n].i = << c.blocks[n].kind, 0 >>
          \/ /\ c.blocks[n].kind = "tool"
             /\ \E m \in DOMAIN e.tools : c.blocks[n].i = << "tool", m - 1 >>
      BY <2>1 DEF HearsOpenAI
    <3>4. DOMAIN e.tools \subseteq DOMAIN e2.tools
      BY <1>1
    <3> QED BY <3>1, <3>2, <3>3, <3>4
  <2>2. CASE n = Len(c.blocks) + 1
    <3>1. d.blocks[n].i = << "tool", (T + 1) - 1 >> /\ d.blocks[n].kind = "tool"
      BY <2>2, <1>6, <1>1
    <3>2. d.blocks[n].i \in d.open
      BY <2>2, <1>6
    <3>3. T + 1 \in DOMAIN e2.tools
      BY <1>1
    <3>4. \E m \in DOMAIN e2.tools : d.blocks[n].i = << "tool", m - 1 >>
      BY <3>1, <3>3
    <3> QED BY <3>1, <3>2, <3>4
  <2> QED BY <2>1, <2>2, <1>6
<1>10. ASSUME NEW m \in DOMAIN e2.tools
       PROVE  \E n \in DOMAIN d.blocks : d.blocks[n].i = << "tool", m - 1 >>
  <2>1. CASE m \in DOMAIN e.tools
    <3>1. PICK n \in DOMAIN c.blocks : c.blocks[n].i = << "tool", m - 1 >>
      BY <2>1 DEF HearsOpenAI
    <3>2. n \in DOMAIN d.blocks /\ d.blocks[n] = c.blocks[n]
      BY <1>6
    <3> QED BY <3>1, <3>2
  <2>2. CASE m = T + 1
    <3>1. Len(c.blocks) + 1 \in DOMAIN d.blocks /\ m - 1 = T
      BY <2>2, <1>1, <1>6
    <3> QED BY <3>1, <1>6
  <2> QED BY <2>1, <2>2, <1>1
<1>11. HearsOpenAI(next + 1, e2, d)
  BY <1>1, <1>2, <1>7, <1>8, <1>9, <1>10 DEF HearsOpenAI
<1> QED BY <1>5, <1>6, <1>11

\* Opening a block, to a Chat Completions client: only a call is announced.
LEMMA OpenAIHearsOpen ==
    ASSUME NEW next, NEW open, NEW e, NEW from, Hearing("openai", next, open, e, from),
           NEW kind \in Kinds, NEW e2, e2 = OpenAIEvent(e, [t |-> "open", i |-> next, kind |-> kind])
    PROVE  e.started => Hearing("openai", next + 1, open \cup {next}, e2, from) /\ e2.started
<1> SUFFICES ASSUME e.started
             PROVE  Hearing("openai", next + 1, open \cup {next}, e2, from) /\ e2.started
  OBVIOUS
<1> DEFINE c == ReadAll(from, e.out)
           v == [t |-> "open", i |-> next, kind |-> kind]
           k == [i |-> next, kind |-> kind]
           ek == [e EXCEPT !.kinds = Append(@, k)]
           et == [ek EXCEPT !.tools = Append(@, next)]
           p == [t |-> "call", n |-> Ordinal(et, next), new |-> TRUE, x |-> <<>>]
<1>1. Hears("openai", next, open, e, c) /\ Writer(e)
  BY DEF Hearing, Hears
<1>2. /\ Reader("openai", c) /\ HearsOpenAI(next, e, c) /\ c.started /\ next \in Nat
      /\ next + 1 \in Nat /\ open \cup {next} \subseteq 0 .. (next + 1) - 1
  <2>1. /\ Reader("openai", c) /\ HearsOpenAI(next, e, c) /\ c.started /\ next \in Nat
        /\ open \subseteq 0 .. next - 1
    BY <1>1 DEF Hears
  <2> HIDE DEF c
  <2> QED BY <2>1
<1> HIDE DEF c
<1>3. e2 = IF kind # "tool" THEN ek ELSE Put(et, p)
  <2>1. e2 = OpenAIEvent(e, v) /\ v.t = "open" /\ v.i = next /\ v.kind = kind
    OBVIOUS
  <2> HIDE DEF v
  <2> QED BY <2>1 DEF OpenAIEvent
<1>4. CASE kind # "tool"
  <2>1. e2 = ek
    BY <1>3, <1>4
  <2>2. /\ e2.kinds = Append(e.kinds, k) /\ e2.tools = e.tools /\ e2.started /\ Writer(e2)
        /\ e2.out = e.out
    <3> HIDE DEF k
    <3> QED BY <2>1, <1>1 DEF Writer, EncoderFields
  <2>3. /\ IsSeq(e2.kinds) /\ Len(e.kinds) \in Nat
        /\ DOMAIN e.kinds = 1 .. Len(e.kinds) /\ DOMAIN e2.kinds = 1 .. Len(e.kinds) + 1
        /\ \A n \in DOMAIN e.kinds : e2.kinds[n] = e.kinds[n]
        /\ e2.kinds[Len(e.kinds) + 1] = k
    <3> HIDE DEF k
    <3>1. IsSeq(e.kinds)
      BY <1>2 DEF HearsOpenAI
    <3>2. Grown(e.kinds, k, e2.kinds)
      BY <3>1, <2>2, Grows
    <3> QED BY <3>2 DEF Grown
  <2>4. ASSUME NEW n \in DOMAIN e2.kinds
        PROVE  /\ e2.kinds[n].kind \in Kinds
               /\ e2.kinds[n].kind = "tool" => e2.kinds[n].i \in ToSet(e2.tools)
    <3>1. CASE n \in DOMAIN e.kinds
      BY <3>1, <2>2, <2>3, <1>2 DEF HearsOpenAI
    <3>2. CASE n = Len(e.kinds) + 1
      BY <3>2, <2>3, <1>4
    <3> QED BY <3>1, <3>2, <2>3
  <2>5. \A n \in DOMAIN e2.tools : e2.tools[n] \in 0 .. (next + 1) - 1
    BY <1>2, <2>2 DEF HearsOpenAI
  <2>6. HearsOpenAI(next + 1, e2, c)
    BY <2>2, <2>3, <2>4, <2>5, <1>2 DEF HearsOpenAI
  <2>7. Hears("openai", next + 1, open \cup {next}, e2, c)
    BY <1>2, <2>2, <2>6 DEF Hears
  <2> QED BY <2>2, <2>7 DEF Hearing, c
<1>5. CASE kind = "tool"
  <2> DEFINE d == Receive(c, p)
  <2>1. e2 = Put(et, p)
    BY <1>3, <1>5
  <2>2. /\ et.kinds = Append(e.kinds, k) /\ et.tools = Append(e.tools, next) /\ et.started
        /\ DOMAIN et = EncoderFields /\ et.out = e.out /\ Writer(et)
    <3> HIDE DEF k
    <3> QED BY <1>1 DEF Writer, EncoderFields
  <2>3. d = Opened(c, << "tool", Ordinal(et, next) >>, "tool")
    BY Receives
  <2> HIDE DEF k, et
  <2>4. p.t \in Tags
    BY DEF Tags
  <2> HIDE DEF p
  <2>5. Writes(et, p, e2) /\ e2.kinds = et.kinds /\ e2.tools = et.tools /\ e2.started
    BY <2>1, <2>2, <2>4 DEF Writes, Put, Writer, EncoderFields
  <2>6. Ordinal(e2, next) = Ordinal(et, next)
    BY <2>5 DEF Ordinal
  <2>7. Writer(e2) /\ ReadAll(from, e2.out) = d
    <3>1. ReadAll(from, e2.out) = Receive(ReadAll(from, et.out), p)
      BY <2>5, OneMore
    <3>2. Writer(e2)
      BY <2>5, OneMore
    <3> QED BY <3>1, <3>2, <2>2 DEF c
  <2> HIDE DEF d
  <2>8. Opens(c, CallName(e2, next), "tool", d)
    BY <2>3, <2>6 DEF Opens, CallName
  <2>9. Reader("openai", d) /\ d.started /\ HearsOpenAI(next + 1, e2, d)
    <3>1. AddsCall(e, next, e2)
      BY <1>5, <2>2, <2>5 DEF k, AddsCall
    <3> QED BY <3>1, <1>2, <2>8, OpenAIOpensCall
  <2>10. Hears("openai", next + 1, open \cup {next}, e2, d)
    BY <1>2, <2>5, <2>7, <2>9 DEF Hears
  <2> QED BY <2>5, <2>7, <2>10 DEF Hearing
<1> QED BY <1>4, <1>5

\* A block's end is not told to a Chat Completions client.
LEMMA OpenAIHearsStop ==
    ASSUME NEW next, NEW open, NEW e, NEW from, Hearing("openai", next, open, e, from),
           NEW i, NEW e2, e2 = OpenAIEvent(e, [t |-> "stop", i |-> i])
    PROVE  e.started => Hearing("openai", next, open \ {i}, e2, from) /\ e2.started
<1> SUFFICES ASSUME e.started
             PROVE  Hearing("openai", next, open \ {i}, e2, from) /\ e2.started
  OBVIOUS
<1>1. e2 = e
  BY DEF OpenAIEvent
<1> QED BY <1>1 DEF Hearing, Hears

-----------------------------------------------------------------------------
(* Responses clients.                                                         *)

ItemFields == {"i", "kind", "n", "acc"}

\* One more open block, that takes an output index unless it is reasoning.
AddsItem(e, next, kind, e2) ==
    e2.open = Append(e.open, [i |-> next, kind |-> kind, n |-> e.nextOutput, acc |-> <<>>])

\* The client that opens it, unless it is reasoning, follows.
LEMMA ResponsesAddsItem ==
    ASSUME NEW next \in Nat, NEW open, open \subseteq 0 .. next - 1, NEW e, NEW c, HearsResponses(open, e, c),
           NEW kind, NEW e2, AddsItem(e, next, kind, e2), NEW d
    PROVE  (IF kind = "reasoning" THEN d = c /\ e2.nextOutput = e.nextOutput
            ELSE HasOpened(c, e.nextOutput, kind, d) /\ e2.nextOutput = e.nextOutput + 1)
           => HearsResponses(open \cup {next}, e2, d)
<1> SUFFICES ASSUME IF kind = "reasoning" THEN d = c /\ e2.nextOutput = e.nextOutput
                    ELSE HasOpened(c, e.nextOutput, kind, d) /\ e2.nextOutput = e.nextOutput + 1
             PROVE  HearsResponses(open \cup {next}, e2, d)
  OBVIOUS
<1> DEFINE it == [i |-> next, kind |-> kind, n |-> e.nextOutput, acc |-> <<>>]
           L == Len(e.open)
<1>1. /\ IsSeq(e2.open) /\ L \in Nat /\ DOMAIN e.open = 1 .. L /\ DOMAIN e2.open = 1 .. L + 1
      /\ \A n \in DOMAIN e.open : e2.open[n] = e.open[n]
      /\ e2.open[L + 1] = it
  <2>1. e2.open = Append(e.open, it)
    BY DEF AddsItem
  <2> HIDE DEF it
  <2>2. Grown(e.open, it, e2.open)
    BY <2>1, Grows DEF HearsResponses
  <2> QED BY <2>2 DEF Grown
<1>2. DOMAIN it = ItemFields /\ it.i = next /\ it.kind = kind /\ it.n = e.nextOutput /\ it.acc = <<>>
  BY DEF ItemFields
<1> HIDE DEF it, L
<1>3. /\ e.nextOutput \in Nat /\ Len(c.blocks) = e.nextOutput
      /\ \A n \in DOMAIN c.blocks : c.blocks[n].i = n - 1
  BY DEF HearsResponses
<1>4. /\ e2.nextOutput \in Nat /\ Len(d.blocks) = e2.nextOutput
      /\ e.nextOutput <= e2.nextOutput
      /\ kind = "reasoning" => e2.nextOutput = e.nextOutput
      /\ kind # "reasoning" => e2.nextOutput = e.nextOutput + 1
      /\ d.open = IF kind = "reasoning" THEN c.open ELSE c.open \cup {e.nextOutput}
      /\ \A n \in DOMAIN c.blocks : d.blocks[n] = c.blocks[n]
  <2>1. CASE kind = "reasoning"
    BY <2>1, <1>3
  <2>2. CASE kind # "reasoning"
    <3>1. HasOpened(c, e.nextOutput, kind, d) /\ e2.nextOutput = e.nextOutput + 1
      BY <2>2
    <3> QED BY <2>2, <3>1, <1>3 DEF HasOpened
  <2> QED BY <2>1, <2>2
<1>5. kind # "reasoning" =>
      /\ DOMAIN c.blocks = 1 .. e.nextOutput /\ DOMAIN d.blocks = 1 .. e.nextOutput + 1
      /\ d.blocks[e.nextOutput + 1].i = e.nextOutput /\ d.blocks[e.nextOutput + 1].x = <<>>
  BY <1>3 DEF HasOpened
<1>6. ASSUME NEW n \in DOMAIN d.blocks PROVE d.blocks[n].i = n - 1
  <2>1. CASE kind = "reasoning"
    BY <2>1, <1>3
  <2>2. CASE kind # "reasoning"
    <3>1. n \in DOMAIN c.blocks \/ n = e.nextOutput + 1
      BY <2>2, <1>3, <1>5
    <3>2. CASE n \in DOMAIN c.blocks
      BY <3>2, <1>3, <1>4
    <3>3. CASE n = e.nextOutput + 1
      BY <3>3, <2>2, <1>3, <1>5
    <3> QED BY <3>1, <3>2, <3>3
  <2> QED BY <2>1, <2>2
<1>7. /\ \A n \in DOMAIN e.open : /\ DOMAIN e.open[n] = ItemFields /\ e.open[n].i \in open
                                  /\ e.open[n].i # next
      /\ \A n \in DOMAIN e.open : e.open[n].kind # "reasoning" =>
            /\ e.open[n].n \in 0 .. e.nextOutput - 1 /\ e.open[n].n \in c.open
            /\ c.blocks[e.open[n].n + 1].x = e.open[n].acc
  BY DEF HearsResponses, ItemFields
<1>8. ASSUME NEW n \in DOMAIN e2.open
      PROVE  DOMAIN e2.open[n] = ItemFields /\ e2.open[n].i \in open \cup {next}
  <2>1. CASE n \in DOMAIN e.open
    BY <2>1, <1>1, <1>7
  <2>2. CASE n = L + 1
    BY <2>2, <1>1, <1>2
  <2> QED BY <2>1, <2>2, <1>1
<1>9. ASSUME NEW i \in open \cup {next} PROVE \E n \in DOMAIN e2.open : e2.open[n].i = i
  <2>1. CASE i \in open
    <3>1. PICK n \in DOMAIN e.open : e.open[n].i = i
      BY <2>1 DEF HearsResponses
    <3> QED BY <3>1, <1>1
  <2>2. CASE i = next
    <3>1. L + 1 \in DOMAIN e2.open
      BY <1>1
    <3> QED BY <3>1, <2>2, <1>1, <1>2
  <2> QED BY <2>1, <2>2
<1>10. ASSUME NEW m \in DOMAIN e2.open, NEW n \in DOMAIN e2.open,
              e2.open[m].i = e2.open[n].i \/ (e2.open[m].kind # "reasoning" /\ e2.open[n].kind # "reasoning"
                                              /\ e2.open[m].n = e2.open[n].n)
       PROVE  m = n
  <2>1. CASE m \in DOMAIN e.open /\ n \in DOMAIN e.open
    <3>1. e2.open[m] = e.open[m] /\ e2.open[n] = e.open[n]
      BY <2>1, <1>1
    <3> QED BY <2>1, <3>1, <1>10 DEF HearsResponses
  <2>2. ASSUME NEW j \in DOMAIN e.open
        PROVE  /\ e.open[j].i # it.i
               /\ e.open[j].kind # "reasoning" => e.open[j].n # it.n
    BY <1>2, <1>3, <1>7
  <2>3. (m \in DOMAIN e.open \/ m = L + 1) /\ (n \in DOMAIN e.open \/ n = L + 1)
    BY <1>1
  <2>4. CASE m \in DOMAIN e.open /\ n = L + 1
    <3>1. e2.open[m] = e.open[m] /\ e2.open[n] = it
      BY <2>4, <1>1
    <3> QED BY <3>1, <2>2, <2>4, <1>10
  <2>5. CASE n \in DOMAIN e.open /\ m = L + 1
    <3>1. e2.open[n] = e.open[n] /\ e2.open[m] = it
      BY <2>5, <1>1
    <3> QED BY <3>1, <2>2, <2>5, <1>10
  <2> QED BY <2>1, <2>3, <2>4, <2>5
<1>11. ASSUME NEW n \in DOMAIN e2.open, e2.open[n].kind # "reasoning"
       PROVE  /\ e2.open[n].n \in 0 .. e2.nextOutput - 1 /\ e2.open[n].n \in d.open
              /\ d.blocks[e2.open[n].n + 1].x = e2.open[n].acc
  <2>1. CASE n \in DOMAIN e.open
    <3>1. e2.open[n] = e.open[n]
      BY <2>1, <1>1
    <3>2. /\ e.open[n].n \in 0 .. e.nextOutput - 1 /\ e.open[n].n \in c.open
          /\ c.blocks[e.open[n].n + 1].x = e.open[n].acc
      BY <2>1, <3>1, <1>7, <1>11
    <3>3. d.blocks[e.open[n].n + 1] = c.blocks[e.open[n].n + 1]
      <4>1. CASE kind = "reasoning"
        BY <4>1
      <4>2. CASE kind # "reasoning"
        <5>1. e.open[n].n + 1 \in DOMAIN c.blocks
          BY <4>2, <3>2, <1>3, <1>5
        <5> QED BY <5>1, <1>4
      <4> QED BY <4>1, <4>2
    <3>4. e.open[n].n \in 0 .. e2.nextOutput - 1 /\ e.open[n].n \in d.open
      BY <3>2, <1>3, <1>4
    <3> QED BY <3>1, <3>2, <3>3, <3>4
  <2>2. CASE n = L + 1
    <3>1. e2.open[n] = it
      BY <2>2, <1>1
    <3>2. kind # "reasoning"
      BY <3>1, <1>2, <1>11
    <3> QED BY <3>1, <3>2, <1>2, <1>3, <1>4, <1>5
  <2> QED BY <2>1, <2>2, <1>1
<1>12. ASSUME NEW j \in d.open
       PROVE  \E n \in DOMAIN e2.open : e2.open[n].kind # "reasoning" /\ e2.open[n].n = j
  <2>1. CASE j \in c.open
    <3>1. PICK n \in DOMAIN e.open : e.open[n].kind # "reasoning" /\ e.open[n].n = j
      BY <2>1 DEF HearsResponses
    <3> QED BY <3>1, <1>1
  <2>2. CASE kind # "reasoning" /\ j = e.nextOutput
    <3>1. L + 1 \in DOMAIN e2.open
      BY <1>1
    <3> QED BY <3>1, <2>2, <1>1, <1>2
  <2> QED BY <2>1, <2>2, <1>4
<1>13. HearsResponses(open \cup {next}, e2, d)
  BY <1>1, <1>4, <1>6, <1>8, <1>9, <1>10, <1>11, <1>12 DEF HearsResponses, ItemFields
<1> QED BY <1>13

\* Opening a block, to a Responses client: reasoning is not shown.
LEMMA ResponsesHearsOpen ==
    ASSUME NEW next, NEW open, NEW e, NEW from, Hearing("responses", next, open, e, from),
           NEW kind, NEW e2, e2 = ResponsesEvent(e, [t |-> "open", i |-> next, kind |-> kind])
    PROVE  e.started => Hearing("responses", next + 1, open \cup {next}, e2, from) /\ e2.started
<1> SUFFICES ASSUME e.started
             PROVE  Hearing("responses", next + 1, open \cup {next}, e2, from) /\ e2.started
  OBVIOUS
<1> DEFINE c == ReadAll(from, e.out)
           v == [t |-> "open", i |-> next, kind |-> kind]
           it == [i |-> next, kind |-> kind, n |-> e.nextOutput, acc |-> <<>>]
           o == [e EXCEPT !.open = Append(@, it)]
           p == [t |-> "item_added", n |-> e.nextOutput, kind |-> kind]
           q == Put(o, p)
<1>1. Hears("responses", next, open, e, c) /\ Writer(e)
  BY DEF Hearing, Hears
<1>2. /\ Reader("responses", c) /\ HearsResponses(open, e, c) /\ c.started /\ next \in Nat
      /\ open \subseteq 0 .. next - 1
  BY <1>1 DEF Hears
<1>3. e2 = IF kind = "reasoning" THEN o ELSE [q EXCEPT !.nextOutput = @ + 1]
  <2>1. e2 = ResponsesEvent(e, v) /\ v.t = "open" /\ v.i = next /\ v.kind = kind
    OBVIOUS
  <2> HIDE DEF v
  <2> QED BY <2>1 DEF ResponsesEvent, ResponsesOpen
<1>4. /\ DOMAIN o = EncoderFields /\ o.open = Append(e.open, it) /\ o.out = e.out /\ o.started
      /\ o.nextOutput = e.nextOutput /\ Writer(o)
  <2> HIDE DEF it
  <2> QED BY <1>1 DEF Writer, EncoderFields
<1> HIDE DEF c
<1>5. next + 1 \in Nat /\ open \cup {next} \subseteq 0 .. (next + 1) - 1
  BY <1>2
<1>6. CASE kind = "reasoning"
  <2>1. e2 = o
    BY <1>3, <1>6
  <2>2. AddsItem(e, next, kind, e2) /\ e2.nextOutput = e.nextOutput
    BY <2>1, <1>4 DEF AddsItem
  <2>3. HearsResponses(open \cup {next}, e2, c)
    <3> HIDE DEF o, it
    <3> QED BY <2>2, <1>2, <1>6, ResponsesAddsItem
  <2> HIDE DEF o, it
  <2>4. Writer(e2) /\ e2.started /\ e2.out = e.out
    BY <2>1, <1>4
  <2>5. Hears("responses", next + 1, open \cup {next}, e2, c)
    BY <1>1, <1>2, <1>5, <2>3, <2>4 DEF Hears, Writer, Reader
  <2> QED BY <2>4, <2>5 DEF Hearing, c
<1>7. CASE kind # "reasoning"
  <2> DEFINE d == Receive(c, p)
  <2>1. d = Opened(c, e.nextOutput, kind)
    <3>1. Receive(c, p) = Opened(c, e.nextOutput, kind)
      <4> HIDE DEF o, q
      <4> QED BY Receives
    <3> QED BY <3>1
  <2>2. p.t \in Tags
    BY DEF Tags
  <2>3. e2 = [q EXCEPT !.nextOutput = @ + 1] /\ q = Put(o, p)
    BY <1>3, <1>7
  <2> HIDE DEF p, q, o, it
  <2>4. Writes(o, p, e2) /\ e2.open = o.open /\ e2.nextOutput = e.nextOutput + 1 /\ e2.started
    BY <2>2, <2>3, <1>4 DEF Writes, Put, Writer, EncoderFields
  <2>5. Writer(e2)
    BY <2>4, OneMore
  <2>6. ReadAll(from, e2.out) = d
    <3>1. ReadAll(from, e2.out) = Receive(ReadAll(from, o.out), p)
      BY <2>4, OneMore
    <3> QED BY <3>1, <1>4 DEF c
  <2> HIDE DEF d
  <2>7. Opens(c, e.nextOutput, kind, d)
    BY <2>1 DEF Opens
  <2>8. Fresh(c, e.nextOutput)
    <3>1. /\ e.nextOutput \in Nat /\ Len(c.blocks) = e.nextOutput
          /\ \A n \in DOMAIN c.blocks : c.blocks[n].i = n - 1
      BY <1>2 DEF HearsResponses
    <3>2. DOMAIN c.blocks = 1 .. e.nextOutput
      BY <3>1, <1>2 DEF Reader, IsSeq
    <3> QED BY <3>1, <3>2 DEF Fresh
  <2>9. Reader("responses", d) /\ HasOpened(c, e.nextOutput, kind, d)
    BY <2>7, <2>8, <1>2, OpensOne
  <2>10. AddsItem(e, next, kind, e2)
    BY <2>4, <1>4 DEF AddsItem, it
  <2>11. HearsResponses(open \cup {next}, e2, d)
    BY <2>4, <2>9, <2>10, <1>2, <1>7, ResponsesAddsItem
  <2>12. Hears("responses", next + 1, open \cup {next}, e2, d)
    BY <1>5, <2>4, <2>5, <2>9, <2>11 DEF Hears, HasOpened, Writer, Reader
  <2> QED BY <2>4, <2>6, <2>12 DEF Hearing
<1> QED BY <1>6, <1>7

\* The item of an open block.
ItemAt(e, i) == FirstOf(e.open, i)

\* An open block has one.
LEMMA ResponsesItem ==
    ASSUME NEW open, NEW e, NEW c, HearsResponses(open, e, c), NEW i \in open
    PROVE  ItemAt(e, i) \in DOMAIN e.open /\ e.open[ItemAt(e, i)].i = i
<1>1. IsSeq(e.open) /\ \E n \in DOMAIN e.open : e.open[n].i = i
  BY DEF HearsResponses
<1> QED BY <1>1, FirstFound DEF ItemAt

\* Where the client has a numbered block.
LEMMA ResponsesBlock ==
    ASSUME NEW open, NEW e, NEW c, HearsResponses(open, e, c), Reader("responses", c),
           NEW n \in 0 .. e.nextOutput - 1
    PROVE  /\ n + 1 \in DOMAIN c.blocks /\ n + 1 # 0 /\ c.blocks[n + 1].i = n
           /\ FirstOf(c.blocks, n) = n + 1 /\ ~Fresh(c, n)
<1>1. /\ e.nextOutput \in Nat /\ Len(c.blocks) = e.nextOutput /\ IsSeq(c.blocks)
      /\ \A m \in DOMAIN c.blocks : c.blocks[m].i = m - 1
  BY DEF HearsResponses, Reader
<1>2. DOMAIN c.blocks = 1 .. e.nextOutput /\ n + 1 \in 1 .. e.nextOutput /\ n + 1 # 0
  BY <1>1 DEF IsSeq
<1>3. c.blocks[n + 1].i = n
  BY <1>1, <1>2
<1>4. SelectInSeq(c.blocks, LAMBDA b : b.i = n) = n + 1
  <2>1. \A m \in 1 .. Len(c.blocks) : c.blocks[m].i = m - 1
    BY <1>1, <1>2
  <2>2. n \in 0 .. Len(c.blocks) - 1
    BY <1>1
  <2> QED BY <2>1, <2>2, <1>1, BlockAt
<1> QED BY <1>2, <1>3, <1>4 DEF FirstOf, Fresh

\* Text for an open block, in the encoder and, unless it is reasoning, at the client.
AddsText(e, i, x, e2) == e2.open = [e.open EXCEPT ![ItemAt(e, i)].acc = @ \o x]

\* The client that is told follows.
LEMMA ResponsesTold ==
    ASSUME NEW open, NEW e, NEW c, HearsResponses(open, e, c), Reader("responses", c), NEW i \in open,
           NEW x, NEW e2, AddsText(e, i, x, e2), e2.nextOutput = e.nextOutput, NEW d
    PROVE  (IF e.open[ItemAt(e, i)].kind = "reasoning" THEN d = c ELSE HasTold(c, e.open[ItemAt(e, i)].n, x, d))
           => HearsResponses(open, e2, d)
<1> SUFFICES ASSUME IF e.open[ItemAt(e, i)].kind = "reasoning" THEN d = c
                    ELSE HasTold(c, e.open[ItemAt(e, i)].n, x, d)
             PROVE  HearsResponses(open, e2, d)
  OBVIOUS
<1> DEFINE pos == ItemAt(e, i)
           N == e.open[pos].n
<1>1. pos \in DOMAIN e.open /\ e.open[pos].i = i
  BY ResponsesItem
<1> HIDE DEF pos
<1>2. /\ IsSeq(e.open)
      /\ \A n \in DOMAIN e.open : DOMAIN e.open[n] = ItemFields /\ e.open[n].i \in open
  BY DEF HearsResponses, ItemFields
<1>3. /\ DOMAIN e2.open = DOMAIN e.open
      /\ \A n \in DOMAIN e.open : n # pos => e2.open[n] = e.open[n]
      /\ DOMAIN e2.open[pos] = ItemFields /\ e2.open[pos].i = i
      /\ e2.open[pos].kind = e.open[pos].kind /\ e2.open[pos].n = N
      /\ e2.open[pos].acc = e.open[pos].acc \o x
  BY <1>1, <1>2 DEF AddsText, ItemFields, pos
<1>4. IsSeq(e2.open)
  <2>1. DOMAIN e2.open = 1 .. Len(e.open) /\ Len(e.open) \in Nat
    BY <1>2, <1>3 DEF IsSeq
  <2>2. e2.open = [n \in 1 .. Len(e.open) |-> e2.open[n]]
    BY <2>1 DEF AddsText
  <2>3. e2.open \in Seq({ e2.open[n] : n \in DOMAIN e2.open })
    BY <2>1, <2>2
  <2> QED BY <2>3 DEF IsSeq
<1>5. \A n \in DOMAIN e.open : /\ e2.open[n].i = e.open[n].i /\ e2.open[n].kind = e.open[n].kind
                               /\ e2.open[n].n = e.open[n].n /\ DOMAIN e2.open[n] = ItemFields
  BY <1>1, <1>2, <1>3
<1>6. /\ Len(d.blocks) = Len(c.blocks) /\ DOMAIN d.blocks = DOMAIN c.blocks /\ d.open = c.open
      /\ \A n \in DOMAIN c.blocks : d.blocks[n].i = c.blocks[n].i
  <2>1. CASE d = c
    BY SMTT(20), <2>1
  <2>2. CASE HasTold(c, N, x, d)
    BY Zenon, <2>2 DEF HasTold
  <2> QED BY <2>1, <2>2 DEF pos
<1>7. ASSUME NEW n \in DOMAIN e2.open, e2.open[n].kind # "reasoning"
      PROVE  d.blocks[e2.open[n].n + 1].x = e2.open[n].acc
  <2>1. /\ e.open[n].n \in 0 .. e.nextOutput - 1 /\ e2.open[n].n = e.open[n].n
        /\ c.blocks[e.open[n].n + 1].x = e.open[n].acc /\ n \in DOMAIN e.open
    BY <1>3, <1>5, <1>7 DEF HearsResponses
  <2>2. CASE e.open[pos].kind = "reasoning"
    <3>1. d = c /\ n # pos
      BY <2>2, <1>3, <1>7 DEF pos
    <3> QED BY <3>1, <2>1, <1>3
  <2>3. CASE e.open[pos].kind # "reasoning"
    <3>1. HasTold(c, N, x, d) /\ N \in 0 .. e.nextOutput - 1 /\ c.blocks[N + 1].x = e.open[pos].acc
      BY <2>3, <1>1 DEF HearsResponses, pos
    <3>2. FirstOf(c.blocks, N) = N + 1 /\ N + 1 \in DOMAIN c.blocks
      BY SMTT(20), <3>1, ResponsesBlock
    <3>3. PICK k \in DOMAIN c.blocks :
              /\ k = FirstOf(c.blocks, N) /\ d.blocks[k].x = c.blocks[k].x \o x
              /\ \A m \in DOMAIN c.blocks : m # k => d.blocks[m] = c.blocks[m]
      BY ZenonT(40), <3>1 DEF HasTold, FirstOf
    <3>4. k = N + 1
      BY ZenonT(40), <3>2, <3>3
    <3>5. CASE n = pos
      <4>1. d.blocks[N + 1].x = e.open[pos].acc \o x
        BY ZenonT(40), <3>1, <3>3, <3>4
      <4> QED BY ZenonT(40), <4>1, <3>5, <1>3
    <3>6. CASE n # pos
      <4>1. e.open[n].n # N
        BY <3>6, <2>1, <2>3, <1>1, <1>5, <1>7 DEF HearsResponses
      <4>2. e.open[n].n + 1 # N + 1 /\ e.open[n].n + 1 \in DOMAIN c.blocks
        <5>1. e.open[n].n + 1 \in DOMAIN c.blocks
          BY <2>1, ResponsesBlock
        <5>2. e.nextOutput \in Nat
          BY SMTT(20) DEF HearsResponses
        <5> QED BY <4>1, <5>1, <5>2, <3>1, <2>1
      <4>3. d.blocks[e.open[n].n + 1] = c.blocks[e.open[n].n + 1]
        BY Zenon, <4>2, <3>3, <3>4
      <4> QED BY <4>3, <3>6, <2>1, <1>3
    <3> QED BY <3>5, <3>6
  <2> QED BY <2>2, <2>3
<1>8. /\ e2.nextOutput \in Nat /\ Len(d.blocks) = e2.nextOutput
      /\ \A n \in DOMAIN d.blocks : d.blocks[n].i = n - 1
  BY <1>6 DEF HearsResponses
<1>9. /\ \A n \in DOMAIN e2.open : DOMAIN e2.open[n] = ItemFields /\ e2.open[n].i \in open
      /\ \A j \in open : \E n \in DOMAIN e2.open : e2.open[n].i = j
  BY <1>3, <1>5 DEF HearsResponses
<1>10. \A m, n \in DOMAIN e2.open :
          e2.open[m].i = e2.open[n].i \/ (e2.open[m].kind # "reasoning" /\ e2.open[n].kind # "reasoning"
                                          /\ e2.open[m].n = e2.open[n].n) => m = n
  <2>1. \A m, n \in DOMAIN e.open :
          e.open[m].i = e.open[n].i \/ (e.open[m].kind # "reasoning" /\ e.open[n].kind # "reasoning"
                                        /\ e.open[m].n = e.open[n].n) => m = n
    BY DEF HearsResponses
  <2> QED BY <2>1, <1>3, <1>5
<1>11. \A n \in DOMAIN e2.open : e2.open[n].kind # "reasoning" =>
          e2.open[n].n \in 0 .. e2.nextOutput - 1 /\ e2.open[n].n \in d.open
  BY <1>3, <1>5, <1>6 DEF HearsResponses
<1>12. \A j \in d.open : \E n \in DOMAIN e2.open : e2.open[n].kind # "reasoning" /\ e2.open[n].n = j
  BY <1>3, <1>5, <1>6 DEF HearsResponses
<1>13. HearsResponses(open, e2, d)
  BY <1>4, <1>7, <1>8, <1>9, <1>10, <1>11, <1>12 DEF HearsResponses, ItemFields
<1> QED BY <1>13

\* Text for an open block, to a Responses client.
LEMMA ResponsesHearsDelta ==
    ASSUME NEW next, NEW open, NEW e, NEW from, Hearing("responses", next, open, e, from),
           NEW i \in open, NEW x, NEW e2, e2 = ResponsesEvent(e, [t |-> "delta", i |-> i, x |-> x])
    PROVE  e.started => Hearing("responses", next, open, e2, from) /\ e2.started
<1> SUFFICES ASSUME e.started
             PROVE  Hearing("responses", next, open, e2, from) /\ e2.started
  OBVIOUS
<1> DEFINE c == ReadAll(from, e.out)
           v == [t |-> "delta", i |-> i, x |-> x]
           pos == ItemAt(e, i)
           a == [e EXCEPT !.open[pos].acc = @ \o x]
           p == [t |-> "item_delta", n |-> e.open[pos].n, x |-> x]
           d == Receive(c, p)
<1>1. Hears("responses", next, open, e, c) /\ Writer(e)
  BY DEF Hearing, Hears
<1>2. /\ Reader("responses", c) /\ HearsResponses(open, e, c) /\ c.started /\ next \in Nat
      /\ open \subseteq 0 .. next - 1
  BY <1>1 DEF Hears
<1>3. pos \in DOMAIN e.open /\ e.open[pos].i = i /\ pos > 0
  <2> HIDE DEF pos, c
  <2>1. pos \in DOMAIN e.open /\ e.open[pos].i = i
    BY <1>2, ResponsesItem DEF pos
  <2> QED BY <2>1, <1>2 DEF HearsResponses, IsSeq
<1>4. e2 = IF e.open[pos].kind = "reasoning" THEN a ELSE Put(a, p)
  <2>1. e2 = ResponsesEvent(e, v) /\ v.t = "delta" /\ v.i = i /\ v.x = x
    OBVIOUS
  <2>2. SelectInSeq(e.open, LAMBDA it : it.i = v.i) = pos
    BY DEF ItemAt, FirstOf
  <2> HIDE DEF v, pos
  <2> QED BY <2>1, <2>2, <1>3 DEF ResponsesEvent
<1>5. /\ DOMAIN a = EncoderFields /\ a.open = [e.open EXCEPT ![pos].acc = @ \o x] /\ a.out = e.out /\ a.started
      /\ a.nextOutput = e.nextOutput /\ Writer(a)
  <2> HIDE DEF pos
  <2> QED BY <1>1 DEF Writer, EncoderFields
<1> HIDE DEF c
<1>6. CASE e.open[pos].kind = "reasoning"
  <2>1. e2 = a
    BY <1>4, <1>6
  <2>2. AddsText(e, i, x, e2) /\ e2.nextOutput = e.nextOutput
    BY <2>1, <1>5 DEF AddsText
  <2> HIDE DEF a
  <2>3. HearsResponses(open, e2, c)
    BY <2>2, <1>2, <1>6, ResponsesTold
  <2>4. Writer(e2) /\ e2.started /\ e2.out = e.out
    BY <2>1, <1>5
  <2>5. Hears("responses", next, open, e2, c)
    BY <1>1, <1>2, <2>3, <2>4 DEF Hears, Writer, Reader
  <2> QED BY <2>4, <2>5 DEF Hearing, c
<1>7. CASE e.open[pos].kind # "reasoning"
  <2>1. d = Told(c, e.open[pos].n, x)
    <3>1. Receive(c, p) = Told(c, e.open[pos].n, x)
      <4> HIDE DEF pos
      <4> QED BY Receives
    <3> QED BY <3>1
  <2>2. p.t \in Tags
    BY DEF Tags
  <2>3. e2 = Put(a, p)
    BY <1>4, <1>7
  <2>9. AddsText(e, i, x, a)
    BY <1>5 DEF AddsText
  <2> HIDE DEF p, a, pos
  <2>4. Writes(a, p, e2) /\ e2.open = a.open /\ e2.nextOutput = e.nextOutput /\ e2.started
    BY <2>2, <2>3, <1>5 DEF Writes, Put, Writer, EncoderFields
  <2>5. Writer(e2)
    BY <2>4, OneMore
  <2>6. ReadAll(from, e2.out) = d
    <3>1. ReadAll(from, e2.out) = Receive(ReadAll(from, a.out), p)
      BY <2>4, OneMore
    <3> QED BY <3>1, <1>5 DEF c
  <2> DEFINE n == e.open[pos].n
  <2>7. n \in 0 .. e.nextOutput - 1 /\ n \in c.open
    BY <1>2, <1>3, <1>7 DEF HearsResponses
  <2>8. Tells(c, n, x, d)
    BY <2>1 DEF Tells
  <2> HIDE DEF d, n
  <2>10. ~Fresh(c, n)
    BY <2>7, <1>2, ResponsesBlock
  <2>11. Reader("responses", d) /\ HasTold(c, n, x, d)
    BY <2>7, <2>8, <2>10, <1>2, TellsOne
  <2>12. HasTold(c, e.open[ItemAt(e, i)].n, x, d) /\ e.open[ItemAt(e, i)].kind # "reasoning"
    BY <2>11, <1>7 DEF n, pos
  <2>13. AddsText(e, i, x, e2)
    BY <2>4, <2>9 DEF AddsText
  <2>14. HearsResponses(open, e2, d)
    BY <2>4, <2>12, <2>13, <1>2, ResponsesTold
  <2>15. Hears("responses", next, open, e2, d)
    BY <1>2, <2>4, <2>5, <2>11, <2>14 DEF Hears, HasTold, Writer, Reader
  <2> QED BY <2>4, <2>6, <2>15 DEF Hearing
<1> QED BY <1>6, <1>7

\* An item closed, in the encoder and, unless it is reasoning, at the client.
DropsItem(e, i, e2) == e2.open = RemoveAt(e.open, ItemAt(e, i))

\* The client that closes it follows.
LEMMA ResponsesClosed ==
    ASSUME NEW open, NEW e, NEW c, HearsResponses(open, e, c), NEW i \in open,
           NEW e2, DropsItem(e, i, e2), e2.nextOutput = e.nextOutput, NEW d
    PROVE  (IF e.open[ItemAt(e, i)].kind = "reasoning" THEN d = c ELSE HasClosed(c, e.open[ItemAt(e, i)].n, d))
           => HearsResponses(open \ {i}, e2, d)
<1> SUFFICES ASSUME IF e.open[ItemAt(e, i)].kind = "reasoning" THEN d = c
                    ELSE HasClosed(c, e.open[ItemAt(e, i)].n, d)
             PROVE  HearsResponses(open \ {i}, e2, d)
  OBVIOUS
<1> DEFINE pos == ItemAt(e, i)
           N == e.open[pos].n
           S == { e.open[n] : n \in DOMAIN e.open }
           t == e2.open
           From(n) == IF n < pos THEN n ELSE n + 1
<1>1. pos \in DOMAIN e.open /\ e.open[pos].i = i
  BY ResponsesItem
<1>2. e.open \in Seq(S) /\ Len(e.open) \in Nat /\ DOMAIN e.open = 1 .. Len(e.open)
  BY DEF HearsResponses, IsSeq
<1>3. t = RemoveAt(e.open, pos)
  BY DEF DropsItem
<1> HIDE DEF pos, S, t
<1>4. /\ t \in Seq(S) /\ Len(t) = Len(e.open) - 1 /\ DOMAIN t = 1 .. Len(e.open) - 1
      /\ \A n \in 1 .. Len(e.open) - 1 : t[n] = IF n < pos THEN e.open[n] ELSE e.open[n + 1]
  BY <1>1, <1>2, <1>3, RemovedAt
<1>5. \A n \in DOMAIN t : From(n) \in DOMAIN e.open /\ From(n) # pos /\ t[n] = e.open[From(n)]
  BY SMTT(20), <1>1, <1>2, <1>4
<1>6. \A m, n \in DOMAIN t : From(m) = From(n) => m = n
  BY <1>1, <1>2, <1>4
<1>7. ASSUME NEW k \in DOMAIN e.open, k # pos PROVE \E n \in DOMAIN t : t[n] = e.open[k]
  <2>1. CASE k < pos
    <3>1. k \in DOMAIN t
      BY <2>1, <1>1, <1>2, <1>4
    <3> QED BY <3>1, <2>1, <1>4
  <2>2. CASE k > pos
    <3>1. k - 1 \in DOMAIN t /\ ~ (k - 1 < pos) /\ (k - 1) + 1 = k
      BY <2>2, <1>1, <1>2, <1>4
    <3> QED BY <3>1, <1>4
  <2> QED BY <2>1, <2>2, <1>1, <1>2, <1>7
<1>8. IsSeq(t)
  <2>1. \A n \in 1 .. Len(t) : t[n] \in { t[j] : j \in DOMAIN t }
    BY <1>4
  <2> QED BY <2>1, <1>4 DEF IsSeq
<1> HIDE DEF From
<1>9. d.blocks = c.blocks /\ d.open = IF e.open[pos].kind = "reasoning" THEN c.open ELSE c.open \ {N}
  BY DEF HasClosed, pos
<1>10. /\ e2.nextOutput \in Nat /\ Len(d.blocks) = e2.nextOutput
       /\ \A n \in DOMAIN d.blocks : d.blocks[n].i = n - 1
  BY <1>9 DEF HearsResponses
<1>11. \A n \in DOMAIN t : DOMAIN t[n] = ItemFields /\ t[n].i \in open \ {i}
  <2> SUFFICES ASSUME NEW n \in DOMAIN t PROVE DOMAIN t[n] = ItemFields /\ t[n].i \in open \ {i}
    OBVIOUS
  <2>1. From(n) \in DOMAIN e.open /\ From(n) # pos /\ t[n] = e.open[From(n)]
    BY <1>5
  <2>2. DOMAIN e.open[From(n)] = ItemFields /\ e.open[From(n)].i \in open
    BY <2>1 DEF HearsResponses, ItemFields
  <2>3. e.open[From(n)].i # e.open[pos].i
    BY <2>1, <1>1 DEF HearsResponses
  <2> QED BY <2>1, <2>2, <2>3, <1>1
<1>12. \A j \in open \ {i} : \E n \in DOMAIN t : t[n].i = j
  <2> SUFFICES ASSUME NEW j \in open \ {i} PROVE \E n \in DOMAIN t : t[n].i = j
    OBVIOUS
  <2>1. PICK k \in DOMAIN e.open : e.open[k].i = j
    BY DEF HearsResponses
  <2>2. k # pos
    BY <2>1, <1>1
  <2>3. PICK n \in DOMAIN t : t[n] = e.open[k]
    BY <2>2, <1>7
  <2> QED BY <2>1, <2>3
<1>13. ASSUME NEW m \in DOMAIN t, NEW n \in DOMAIN t,
              t[m].i = t[n].i \/ (t[m].kind # "reasoning" /\ t[n].kind # "reasoning" /\ t[m].n = t[n].n)
       PROVE  m = n
  <2>1. From(m) = From(n)
    <3>1. /\ From(m) \in DOMAIN e.open /\ t[m] = e.open[From(m)]
          /\ From(n) \in DOMAIN e.open /\ t[n] = e.open[From(n)]
      BY <1>5
    <3> QED BY <3>1, <1>13 DEF HearsResponses
  <2> QED BY <2>1, <1>6
<1>14. ASSUME NEW n \in DOMAIN t, t[n].kind # "reasoning"
       PROVE  /\ t[n].n \in 0 .. e2.nextOutput - 1 /\ t[n].n \in d.open
              /\ d.blocks[t[n].n + 1].x = t[n].acc
  <2>1. From(n) \in DOMAIN e.open /\ From(n) # pos /\ t[n] = e.open[From(n)]
    BY <1>5
  <2>2. /\ t[n].n \in 0 .. e.nextOutput - 1 /\ t[n].n \in c.open
        /\ c.blocks[t[n].n + 1].x = t[n].acc
    BY <2>1, <1>14 DEF HearsResponses
  <2>3. e.open[pos].kind # "reasoning" => t[n].n # N
    BY <2>1, <1>1, <1>14 DEF HearsResponses
  <2> QED BY <2>2, <2>3, <1>9
<1>15. ASSUME NEW j \in d.open PROVE \E n \in DOMAIN t : t[n].kind # "reasoning" /\ t[n].n = j
  <2>1. j \in c.open
    BY <1>9, <1>15
  <2>2. PICK k \in DOMAIN e.open : e.open[k].kind # "reasoning" /\ e.open[k].n = j
    BY <2>1 DEF HearsResponses
  <2>3. k # pos
    BY <2>2, <1>9, <1>15
  <2>4. PICK n \in DOMAIN t : t[n] = e.open[k]
    BY <2>3, <1>7
  <2> QED BY <2>2, <2>4
<1> HIDE DEF N
<1>16. HearsResponses(open \ {i}, e2, d)
  BY <1>8, <1>10, <1>11, <1>12, <1>13, <1>14, <1>15 DEF HearsResponses, ItemFields, t
<1> QED BY <1>16

\* A block closed, to a Responses client, which is told the whole text.
LEMMA ResponsesHearsStop ==
    ASSUME NEW next, NEW open, NEW e, NEW from, Hearing("responses", next, open, e, from),
           NEW i \in open, NEW e2, e2 = ResponsesEvent(e, [t |-> "stop", i |-> i])
    PROVE  e.started => Hearing("responses", next, open \ {i}, e2, from) /\ e2.started
<1> SUFFICES ASSUME e.started
             PROVE  Hearing("responses", next, open \ {i}, e2, from) /\ e2.started
  OBVIOUS
<1> DEFINE c == ReadAll(from, e.out)
           v == [t |-> "stop", i |-> i]
           pos == ItemAt(e, i)
           it == e.open[pos]
           a == [e EXCEPT !.open = RemoveAt(@, pos)]
           item == [n |-> it.n, kind |-> it.kind, x |-> it.acc]
           p == [t |-> "item_done", item |-> item]
           q == Put(a, p)
           d == Receive(c, p)
           closed == Closed(c, it.n)
<1>1. Hears("responses", next, open, e, c) /\ Writer(e)
  BY DEF Hearing, Hears
<1>2. /\ Reader("responses", c) /\ HearsResponses(open, e, c) /\ c.started /\ next \in Nat
      /\ open \subseteq 0 .. next - 1
  BY <1>1 DEF Hears
<1>3. pos \in DOMAIN e.open /\ e.open[pos].i = i /\ pos > 0
  <2> HIDE DEF pos, c
  <2>1. pos \in DOMAIN e.open /\ e.open[pos].i = i
    BY SMTT(20), <1>2, ResponsesItem DEF pos
  <2> QED BY <2>1, <1>2 DEF HearsResponses, IsSeq
<1>4. e2 = IF it.kind = "reasoning" THEN a ELSE [q EXCEPT !.items = Append(@, item)]
  <2>1. e2 = ResponsesEvent(e, v) /\ v.t = "stop" /\ v.i = i
    OBVIOUS
  <2>2. SelectInSeq(e.open, LAMBDA b : b.i = v.i) = pos
    BY DEF ItemAt, FirstOf
  <2> HIDE DEF v, pos
  <2> QED BY Zenon, <2>1, <2>2, <1>3 DEF ResponsesEvent
<1>5. /\ DOMAIN a = EncoderFields /\ a.open = RemoveAt(e.open, pos) /\ a.out = e.out /\ a.started
      /\ a.nextOutput = e.nextOutput /\ Writer(a)
  <2> HIDE DEF pos
  <2> QED BY <1>1 DEF Writer, EncoderFields
<1>9. DropsItem(e, i, a)
  BY <1>5 DEF DropsItem
<1> HIDE DEF c
<1>6. CASE it.kind = "reasoning"
  <2>1. e2 = a
    BY <1>4, <1>6
  <2> HIDE DEF a
  <2>3. HearsResponses(open \ {i}, e2, c)
    BY <2>1, <1>2, <1>5, <1>6, <1>9, ResponsesClosed
  <2>4. Writer(e2) /\ e2.started /\ e2.out = e.out
    BY <2>1, <1>5
  <2>5. Hears("responses", next, open \ {i}, e2, c)
    BY <1>1, <1>2, <2>3, <2>4 DEF Hears, Writer, Reader
  <2> QED BY <2>4, <2>5 DEF Hearing, c
<1>7. CASE it.kind # "reasoning"
  <2> DEFINE n == it.n
  <2>7. n \in 0 .. e.nextOutput - 1 /\ n \in c.open /\ c.blocks[n + 1].x = it.acc
    BY <1>2, <1>3, <1>7 DEF HearsResponses
  <2>8. FirstOf(c.blocks, n) = n + 1 /\ n + 1 # 0
    <3> HIDE DEF n
    <3> QED BY <2>7, <1>2, ResponsesBlock
  <2>1. d = [closed EXCEPT !.ok = @ /\ TRUE]
    <3> HIDE DEF closed, it
    <3>0. p.item.n = n
      OBVIOUS
    <3>1. SelectInSeq(c.blocks, LAMBDA b : b.i = p.item.n) = n + 1
      <4> HIDE DEF p, n
      <4> QED BY <3>0, <2>8 DEF FirstOf
    <3>2. d = [closed EXCEPT !.ok = @ /\ c.blocks[n + 1].x = p.item.x]
      BY <3>1, <2>8 DEF Receive, Starts, Lasts, After, closed
    <3> QED BY <3>2, <2>7
  <2>2. p.t \in Tags
    BY DEF Tags
  <2>3. e2 = [q EXCEPT !.items = Append(@, item)] /\ q = Put(a, p)
    BY <1>4, <1>7
  <2> HIDE DEF item, p, q, a, pos, it
  <2>4. Writes(a, p, e2) /\ e2.open = a.open /\ e2.nextOutput = e.nextOutput /\ e2.started
    BY <2>2, <2>3, <1>5 DEF Writes, Put, Writer, EncoderFields
  <2>5. Writer(e2)
    BY <2>4, OneMore
  <2>6. ReadAll(from, e2.out) = d
    <3>1. ReadAll(from, e2.out) = Receive(ReadAll(from, a.out), p)
      BY <2>4, OneMore
    <3> QED BY <3>1, <1>5 DEF c
  <2>9. Closes(c, n, closed)
    BY DEF Closes
  <2> HIDE DEF d, n, closed
  <2>10. Reader("responses", closed) /\ HasClosed(c, n, closed)
    BY <2>7, <2>9, <1>2, ClosesOne
  <2>11. Reader("responses", d) /\ HasClosed(c, n, d)
    BY <2>1, <2>10 DEF Reader, ClientFields, HasClosed
  <2>12. HasClosed(c, e.open[ItemAt(e, i)].n, d) /\ e.open[ItemAt(e, i)].kind # "reasoning"
    BY <2>11, <1>7 DEF n, pos, it
  <2>13. DropsItem(e, i, e2)
    BY <2>4, <1>9 DEF DropsItem
  <2>14. HearsResponses(open \ {i}, e2, d)
    BY <2>4, <2>12, <2>13, <1>2, ResponsesClosed
  <2>15. Hears("responses", next, open \ {i}, e2, d)
    BY <1>2, <2>4, <2>5, <2>11, <2>14 DEF Hears, HasClosed, Writer, Reader
  <2> QED BY <2>4, <2>6, <2>15 DEF Hearing
<1> QED BY <1>6, <1>7

-----------------------------------------------------------------------------
(* Any client.                                                                *)

StartEvent == [t |-> "start"]
OpenEvent(i, kind) == [t |-> "open", i |-> i, kind |-> kind]
DeltaEvent(i, x) == [t |-> "delta", i |-> i, x |-> x]
StopEvent(i) == [t |-> "stop", i |-> i]

\* A client that goes on hearing a stream that has started.
On(cl, next, open, e, from) == Hearing(cl, next, open, e, from) /\ e.started

\* A block opened,
LEMMA HearsOpen ==
    ASSUME NEW cl \in Formats, NEW next, NEW open, NEW e, NEW from, On(cl, next, open, e, from),
           NEW kind \in Kinds
    PROVE  On(cl, next + 1, open \cup {next}, EncodeEvent(cl, e, OpenEvent(next, kind)), from)
<1> DEFINE v == [t |-> "open", i |-> next, kind |-> kind]
<1>1. OpenEvent(next, kind) = v
  BY DEF OpenEvent
<1> HIDE DEF v
<1>2. CASE cl = "anthropic"
  <2>1. EncodeEvent(cl, e, v) = AnthropicEvent(e, v)
    BY <1>2 DEF EncodeEvent
  <2>2. Hearing("anthropic", next, open, e, from) /\ e.started
    BY <1>2 DEF On
  <2>3. /\ Hearing("anthropic", next + 1, open \cup {next}, AnthropicEvent(e, v), from)
        /\ AnthropicEvent(e, v).started
    BY <2>2, AnthropicHearsOpen DEF v
  <2> QED BY <1>1, <1>2, <2>1, <2>3 DEF On
<1>3. CASE cl = "openai"
  <2>1. EncodeEvent(cl, e, v) = OpenAIEvent(e, v)
    BY <1>3 DEF EncodeEvent
  <2>2. Hearing("openai", next, open, e, from) /\ e.started
    BY <1>3 DEF On
  <2>3. /\ Hearing("openai", next + 1, open \cup {next}, OpenAIEvent(e, v), from)
        /\ OpenAIEvent(e, v).started
    BY <2>2, OpenAIHearsOpen DEF v
  <2> QED BY <1>1, <1>3, <2>1, <2>3 DEF On
<1>4. CASE cl = "responses"
  <2>1. EncodeEvent(cl, e, v) = ResponsesEvent(e, v)
    BY <1>4 DEF EncodeEvent
  <2>2. Hearing("responses", next, open, e, from) /\ e.started
    BY <1>4 DEF On
  <2>3. /\ Hearing("responses", next + 1, open \cup {next}, ResponsesEvent(e, v), from)
        /\ ResponsesEvent(e, v).started
    BY <2>2, ResponsesHearsOpen DEF v
  <2> QED BY <1>1, <1>4, <2>1, <2>3 DEF On
<1> QED BY <1>2, <1>3, <1>4 DEF Formats

\* text for an open block,
LEMMA HearsDelta ==
    ASSUME NEW cl \in Formats, NEW next, NEW open, NEW e, NEW from, On(cl, next, open, e, from),
           NEW i \in open, NEW x
    PROVE  On(cl, next, open, EncodeEvent(cl, e, DeltaEvent(i, x)), from)
<1> DEFINE v == [t |-> "delta", i |-> i, x |-> x]
<1>1. DeltaEvent(i, x) = v
  BY DEF DeltaEvent
<1> HIDE DEF v
<1>2. CASE cl = "anthropic"
  <2>1. EncodeEvent(cl, e, v) = AnthropicEvent(e, v)
    BY <1>2 DEF EncodeEvent
  <2>2. Hearing("anthropic", next, open, e, from) /\ e.started
    BY <1>2 DEF On
  <2>3. Hearing("anthropic", next, open, AnthropicEvent(e, v), from) /\ AnthropicEvent(e, v).started
    BY <2>2, AnthropicHearsDelta DEF v
  <2> QED BY <1>1, <1>2, <2>1, <2>3 DEF On
<1>3. CASE cl = "openai"
  <2>1. EncodeEvent(cl, e, v) = OpenAIEvent(e, v)
    BY <1>3 DEF EncodeEvent
  <2>2. Hearing("openai", next, open, e, from) /\ e.started
    BY <1>3 DEF On
  <2>3. Hearing("openai", next, open, OpenAIEvent(e, v), from) /\ OpenAIEvent(e, v).started
    BY <2>2, OpenAIHearsDelta DEF v
  <2> QED BY <1>1, <1>3, <2>1, <2>3 DEF On
<1>4. CASE cl = "responses"
  <2>1. EncodeEvent(cl, e, v) = ResponsesEvent(e, v)
    BY <1>4 DEF EncodeEvent
  <2>2. Hearing("responses", next, open, e, from) /\ e.started
    BY <1>4 DEF On
  <2>3. Hearing("responses", next, open, ResponsesEvent(e, v), from) /\ ResponsesEvent(e, v).started
    BY <2>2, ResponsesHearsDelta DEF v
  <2> QED BY <1>1, <1>4, <2>1, <2>3 DEF On
<1> QED BY <1>2, <1>3, <1>4 DEF Formats

\* a block closed.
LEMMA HearsStop ==
    ASSUME NEW cl \in Formats, NEW next, NEW open, NEW e, NEW from, On(cl, next, open, e, from),
           NEW i \in open
    PROVE  On(cl, next, open \ {i}, EncodeEvent(cl, e, StopEvent(i)), from)
<1> DEFINE v == [t |-> "stop", i |-> i]
<1>1. StopEvent(i) = v
  BY DEF StopEvent
<1> HIDE DEF v
<1>2. CASE cl = "anthropic"
  <2>1. EncodeEvent(cl, e, v) = AnthropicEvent(e, v)
    BY <1>2 DEF EncodeEvent
  <2>2. Hearing("anthropic", next, open, e, from) /\ e.started
    BY <1>2 DEF On
  <2>3. Hearing("anthropic", next, open \ {i}, AnthropicEvent(e, v), from) /\ AnthropicEvent(e, v).started
    BY <2>2, AnthropicHearsStop DEF v
  <2> QED BY <1>1, <1>2, <2>1, <2>3 DEF On
<1>3. CASE cl = "openai"
  <2>1. EncodeEvent(cl, e, v) = OpenAIEvent(e, v)
    BY <1>3 DEF EncodeEvent
  <2>2. Hearing("openai", next, open, e, from) /\ e.started
    BY <1>3 DEF On
  <2>3. Hearing("openai", next, open \ {i}, OpenAIEvent(e, v), from) /\ OpenAIEvent(e, v).started
    BY <2>2, OpenAIHearsStop DEF v
  <2> QED BY <1>1, <1>3, <2>1, <2>3 DEF On
<1>4. CASE cl = "responses"
  <2>1. EncodeEvent(cl, e, v) = ResponsesEvent(e, v)
    BY <1>4 DEF EncodeEvent
  <2>2. Hearing("responses", next, open, e, from) /\ e.started
    BY <1>4 DEF On
  <2>3. Hearing("responses", next, open \ {i}, ResponsesEvent(e, v), from) /\ ResponsesEvent(e, v).started
    BY <2>2, ResponsesHearsStop DEF v
  <2> QED BY <1>1, <1>4, <2>1, <2>3 DEF On
<1> QED BY <1>2, <1>3, <1>4 DEF Formats

\* The end: every block is closed, the usage is noted, and what the client reads is
\* without a fault.
LEMMA HearsEnd ==
    ASSUME NEW cl \in Formats, NEW next, NEW e, NEW from, On(cl, next, {}, e, from), NEW u, NEW stop,
           NEW e1, e1 = EncodeEvent(cl, e, [t |-> "usage", u |-> u]),
           NEW e2, e2 = EncodeEvent(cl, e1, [t |-> "finish", stop |-> stop])
    PROVE  Payloads(e2.out) /\ ReadAll(from, e2.out).ok
<1> DEFINE c == ReadAll(from, e.out)
           v == [t |-> "finish", stop |-> stop]
<1>1. Hears(cl, next, {}, e, c) /\ Writer(e) /\ e.started
  BY DEF On, Hearing, Hears
<1>2. /\ Reader(cl, c) /\ c.started
      /\ cl # "openai" => c.open = {}
  <2>1. Reader(cl, c) /\ c.started
    BY <1>1 DEF Hears
  <2>2. CASE cl = "anthropic"
    BY <2>1, <2>2, <1>1 DEF Hears, HearsAnthropic
  <2>3. CASE cl = "responses"
    <3>1. HearsResponses({}, e, c)
      BY SMTT(20), <2>3, <1>1 DEF Hears
    <3> QED BY <2>1, <3>1 DEF HearsResponses
  <2> QED BY <2>1, <2>2, <2>3 DEF Formats
<1> HIDE DEF c
<1>3. e1 = [e EXCEPT !.usage = u]
  BY Zenon, <1>1 DEF EncodeEvent, AnthropicEvent, OpenAIEvent, ResponsesEvent, Formats
<1>4. Writer(e1) /\ e1.started /\ e1.out = e.out
  BY <1>1, <1>3 DEF Writer, EncoderFields
<1>5. e2 = EncodeEvent(cl, e1, v) /\ v.t = "finish"
  OBVIOUS
<1> HIDE DEF v
<1>6. \E p, q : /\ p.t \in Lasts /\ (cl # "responses" => q.t \in After)
                /\ e2 = IF cl = "responses" THEN Put(e1, p) ELSE Put(Put(e1, p), q)
  <2>1. CASE cl = "anthropic"
    <3> DEFINE p == [t |-> "message_delta", stop |-> v.stop, usage |-> EncodeUsage("anthropic", e1.usage)]
               q == [t |-> "message_stop"]
    <3>1. e2 = Put(Put(e1, p), q)
      <4>1. e2 = AnthropicEvent(e1, v)
        BY <1>5, <2>1 DEF EncodeEvent
      <4> QED BY <4>1, <1>4, <1>5 DEF AnthropicEvent
    <3>2. p.t \in Lasts /\ q.t \in After
      BY DEF Lasts, After
    <3> HIDE DEF p, q
    <3> QED BY <3>1, <3>2, <2>1
  <2>2. CASE cl = "openai"
    <3> DEFINE p == [t |-> "last", stop |-> FinishStr(v.stop),
                     usage |-> IF e1.usage.input > 0 \/ e1.usage.output > 0
                               THEN EncodeUsage("openai", e1.usage) ELSE NoUsage]
               q == [t |-> "done"]
    <3>1. e2 = Put(Put(e1, p), q)
      <4>1. e2 = OpenAIEvent(e1, v)
        BY <1>5, <2>2 DEF EncodeEvent
      <4> QED BY <4>1, <1>4, <1>5 DEF OpenAIEvent
    <3>2. p.t \in Lasts /\ q.t \in After
      BY DEF Lasts, After
    <3> HIDE DEF p, q
    <3> QED BY <3>1, <3>2, <2>2
  <2>3. CASE cl = "responses"
    <3> DEFINE p == [t |-> "completed", items |-> e1.items, stop |-> "completed",
                     usage |-> EncodeUsage("responses", e1.usage)]
    <3>1. e2 = Put(e1, p)
      <4>1. e2 = ResponsesEvent(e1, v)
        BY <1>5, <2>3 DEF EncodeEvent
      <4> QED BY <4>1, <1>4, <1>5 DEF ResponsesEvent
    <3>2. p.t \in Lasts
      BY DEF Lasts
    <3> HIDE DEF p
    <3> QED BY <3>1, <3>2, <2>3
  <2> QED BY <2>1, <2>2, <2>3 DEF Formats
<1>7. PICK p, q : /\ p.t \in Lasts /\ (cl # "responses" => q.t \in After)
                  /\ e2 = IF cl = "responses" THEN Put(e1, p) ELSE Put(Put(e1, p), q)
  BY <1>6
<1> DEFINE e3 == Put(e1, p)
           c3 == Receive(c, p)
<1>8. Writes(e1, p, e3)
  BY <1>4, <1>7 DEF Writes, Put, Writer, EncoderFields, Tags
<1>9. Writer(e3) /\ ReadAll(from, e3.out) = c3
  <2>1. ReadAll(from, e3.out) = Receive(ReadAll(from, e1.out), p)
    BY <1>8, OneMore
  <2>2. Writer(e3)
    BY <1>8, OneMore
  <2> QED BY <2>1, <2>2, <1>4 DEF c
<1>10. c3 = [c EXCEPT !.ok = @ /\ c.started /\ ~c.ended /\ (c.format # "openai" => c.open = {}),
                      !.ended = TRUE]
  <2>1. p.t = "message_delta" \/ p.t = "last" \/ p.t = "completed"
    BY <1>7 DEF Lasts
  <2>2. CASE p.t = "message_delta"
    BY <2>2 DEF Receive, Starts, Lasts, After
  <2>3. CASE p.t = "last"
    BY <2>3 DEF Receive, Starts, Lasts, After
  <2>4. CASE p.t = "completed"
    BY <2>4 DEF Receive, Starts, Lasts, After
  <2> QED BY <2>1, <2>2, <2>3, <2>4
<1>11. DOMAIN c3 = ClientFields /\ c3.ok /\ c3.ended
  BY <1>2, <1>10 DEF Reader, ClientFields
<1> HIDE DEF c3
<1>12. CASE cl = "responses"
  <2>1. e2 = e3
    BY <1>7, <1>12
  <2> HIDE DEF e3
  <2> QED BY <2>1, <1>9, <1>11 DEF Writer
<1>13. CASE cl # "responses"
  <2>1. e2 = Put(e3, q) /\ q.t \in After
    BY <1>7, <1>13
  <2> HIDE DEF e3
  <2>2. Writes(e3, q, e2)
    BY <2>1, <1>9 DEF Writes, Put, Writer, EncoderFields, Tags
  <2>3. Writer(e2)
    BY <2>2, OneMore
  <2>4. ReadAll(from, e2.out) = Receive(ReadAll(from, e3.out), q)
    BY <2>2, OneMore
  <2>5. Receive(c3, q) = [c3 EXCEPT !.ok = @ /\ c3.ended]
    <3>1. q.t = "message_stop" \/ q.t = "done"
      BY <2>1 DEF After
    <3>2. CASE q.t = "message_stop"
      BY <3>2 DEF Receive, Starts, Lasts, After
    <3>3. CASE q.t = "done"
      BY <3>3 DEF Receive, Starts, Lasts, After
    <3> QED BY <3>1, <3>2, <3>3
  <2>6. Receive(c3, q).ok
    BY <2>5, <1>11 DEF ClientFields
  <2> QED BY <2>3, <2>4, <2>6, <1>9 DEF Writer
<1> QED BY <1>12, <1>13

-----------------------------------------------------------------------------
(* A decoder on its way through a frame, and the client that will read what   *)
(* the encoder makes of it.                                                   *)

DecoderFields == {"started", "next", "open", "usage", "sawTool", "finished", "text", "reasoning",
                  "keys", "stop", "out"}

\* The decoder's bookkeeping: the open blocks are some of those opened so far, a prose field
\* names an open one, and so does every key that the upstream may still speak of (those in live).
Tracks(d, live) ==
    /\ DOMAIN d = DecoderFields /\ IsSeq(d.out) /\ IsSeq(d.open) /\ IsSeq(d.keys)
    /\ d.started \in BOOLEAN /\ ~d.finished
    /\ d.next \in Nat /\ (d.next > 0 => d.started)
    /\ ToSet(d.open) \subseteq 0 .. d.next - 1
    /\ \A m, n \in DOMAIN d.open : d.open[m] = d.open[n] => m = n
    /\ d.text \in ToSet(d.open) \cup {None} /\ d.reasoning \in ToSet(d.open) \cup {None}
    /\ d.text = d.reasoning => d.text = None
    /\ \A n \in DOMAIN d.keys :
          /\ d.keys[n].i \in 0 .. d.next - 1 /\ d.keys[n].i # d.text /\ d.keys[n].i # d.reasoning
          /\ d.keys[n].key \in live => d.keys[n].i \in ToSet(d.open)
    /\ \A m, n \in DOMAIN d.keys : d.keys[m].i = d.keys[n].i => m = n

\* A client that was at `from`, and reads what encoder e makes of the frame at hand, so far.
Follows(cl, e, from, d) ==
    LET x == EncodeEvents(cl, e, d.out)
    IN  Hearing(cl, d.next, ToSet(d.open), x, from) /\ x.started = d.started

Good(cl, e, from, d, live) == cl \in Formats /\ Tracks(d, live) /\ Follows(cl, e, from, d)

\* Decoder d2 is d after a field that none of this is about was set,
Same(d, d2) ==
    /\ DOMAIN d2 = DOMAIN d /\ d2.out = d.out /\ d2.started = d.started /\ d2.next = d.next
    /\ d2.open = d.open /\ d2.keys = d.keys /\ d2.finished = d.finished
    /\ d2.text = d.text /\ d2.reasoning = d.reasoning
\* after its first event,
Starting(d, d2) ==
    /\ DOMAIN d2 = DOMAIN d /\ d2.out = Append(d.out, StartEvent) /\ d2.started /\ d2.next = d.next
    /\ d2.open = d.open /\ d2.keys = d.keys /\ d2.finished = d.finished
    /\ d2.text = d.text /\ d2.reasoning = d.reasoning
\* after a block opened,
Opening(d, kind, d2) ==
    /\ DOMAIN d2 = DOMAIN d /\ d2.out = Append(d.out, OpenEvent(d.next, kind)) /\ d2.started
    /\ d2.next = d.next + 1 /\ d2.open = Append(d.open, d.next)
    /\ d2.keys = d.keys /\ d2.finished = d.finished
    /\ d2.text = d.text /\ d2.reasoning = d.reasoning
\* got text,
Telling(d, i, x, d2) ==
    /\ DOMAIN d2 = DOMAIN d /\ d2.out = Append(d.out, DeltaEvent(i, x)) /\ d2.started = d.started
    /\ d2.next = d.next /\ d2.open = d.open /\ d2.keys = d.keys /\ d2.finished = d.finished
    /\ d2.text = d.text /\ d2.reasoning = d.reasoning
\* was closed (and the prose field that named it is reset).
Closing(d, i, d2) ==
    /\ DOMAIN d2 = DOMAIN d /\ d2.out = Append(d.out, StopEvent(i)) /\ d2.started = d.started
    /\ d2.next = d.next /\ d2.open = RemoveFirst(d.open, i) /\ d2.keys = d.keys
    /\ d2.finished = d.finished
    /\ d2.text \in {d.text, None} \ {i} /\ d2.reasoning \in {d.reasoning, None} \ {i}

\* A decoder that said nothing is followed as before.
LEMMA GoodSame ==
    ASSUME NEW cl, NEW e, NEW from, NEW d, NEW live, Good(cl, e, from, d, live), NEW d2, Same(d, d2)
    PROVE  Good(cl, e, from, d2, live)
<1>1. Tracks(d2, live)
  BY DEF Good, Tracks, Same
<1>2. Follows(cl, e, from, d2)
  BY DEF Good, Follows, Same
<1> QED BY <1>1, <1>2 DEF Good

\* What fewer keys are alive.
LEMMA GoodLess ==
    ASSUME NEW cl, NEW e, NEW from, NEW d, NEW live, Good(cl, e, from, d, live), NEW less \in SUBSET live
    PROVE  Good(cl, e, from, d, less)
BY DEF Good, Tracks

\* The start is followed.
LEMMA GoodStarting ==
    ASSUME NEW cl, NEW e, NEW from, NEW d, NEW live, Good(cl, e, from, d, live), ~d.started,
           NEW d2, Starting(d, d2)
    PROVE  Good(cl, e, from, d2, live)
<1> DEFINE x == EncodeEvents(cl, e, d.out)
           y == EncodeEvents(cl, e, d2.out)
<1> USE DEF Good
<1>1. Tracks(d2, live)
  <2>1. IsSeq(d2.out)
    BY Appended DEF Tracks, Starting
  <2> QED BY <2>1 DEF Tracks, Starting
<1>2. y = EncodeEvent(cl, x, [t |-> "start"])
  <2>1. IsSeq(d.out) /\ d2.out = Append(d.out, StartEvent)
    BY DEF Tracks, Starting
  <2>2. \A s, w : IsSeq(s) => EncodeEvents(cl, e, Append(s, w))
                                  = EncodeEvent(cl, EncodeEvents(cl, e, s), w)
    BY EncodesOneByOne
  <2> QED BY <2>1, <2>2 DEF StartEvent
<1>3. Hearing(cl, d.next, ToSet(d.open), x, from) /\ ~x.started
  BY DEF Follows
<1> HIDE DEF x, y
<1>4. Hearing(cl, d.next, ToSet(d.open), y, from) /\ y.started
  BY <1>2, <1>3, HearStart
<1>5. Follows(cl, e, from, d2)
  <2>1. y.started \in BOOLEAN /\ d2.started \in BOOLEAN
    BY <1>1, <1>4 DEF Tracks, Hearing, Hears, Writer
  <2>2. y.started = d2.started
    BY <1>4, <2>1 DEF Starting
  <2> QED BY <1>4, <2>2 DEF Follows, y, Starting
<1> QED BY <1>1, <1>5

\* A block opened is followed.
LEMMA GoodOpening ==
    ASSUME NEW cl, NEW e, NEW from, NEW d, NEW live, Good(cl, e, from, d, live), d.started,
           NEW kind \in Kinds, NEW d2, Opening(d, kind, d2)
    PROVE  Good(cl, e, from, d2, live) /\ ToSet(d2.open) = ToSet(d.open) \cup {d.next}
<1> DEFINE x == EncodeEvents(cl, e, d.out)
           y == EncodeEvents(cl, e, d2.out)
<1> USE DEF Good
<1>0. /\ IsSeq(Append(d.open, d.next)) /\ Len(d.open) \in Nat
      /\ DOMAIN d.open = 1 .. Len(d.open) /\ DOMAIN Append(d.open, d.next) = 1 .. Len(d.open) + 1
      /\ \A n \in DOMAIN d.open : Append(d.open, d.next)[n] = d.open[n]
      /\ Append(d.open, d.next)[Len(d.open) + 1] = d.next
  BY Appended DEF Tracks
<1>1. ToSet(d2.open) = ToSet(d.open) \cup {d.next}
  BY <1>0 DEF ToSet, Opening
<1>2. Tracks(d2, live)
  <2>1. IsSeq(d2.out)
    BY Appended DEF Tracks, Opening
  <2>2. \A m, n \in DOMAIN d2.open : d2.open[m] = d2.open[n] => m = n
    <3>1. \A n \in DOMAIN d.open : d.open[n] # d.next
      <4> SUFFICES ASSUME NEW n \in DOMAIN d.open PROVE d.open[n] # d.next
        OBVIOUS
      <4>1. d.open[n] \in ToSet(d.open)
        BY DEF ToSet
      <4> QED BY <4>1 DEF Tracks
    <3> SUFFICES ASSUME NEW m \in DOMAIN d2.open, NEW n \in DOMAIN d2.open, d2.open[m] = d2.open[n]
                 PROVE  m = n
      OBVIOUS
    <3>2. m \in DOMAIN d.open \/ m = Len(d.open) + 1
      BY <1>0 DEF Opening
    <3>3. n \in DOMAIN d.open \/ n = Len(d.open) + 1
      BY <1>0 DEF Opening
    <3> QED BY <3>1, <3>2, <3>3, <1>0 DEF Tracks, Opening
  <2>3. ToSet(d2.open) \subseteq 0 .. d2.next - 1 /\ d2.next \in Nat
    BY <1>1 DEF Tracks, Opening
  <2>4. d2.text \in ToSet(d2.open) \cup {None} /\ d2.reasoning \in ToSet(d2.open) \cup {None}
    BY <1>1 DEF Tracks, Opening
  <2>5. \A n \in DOMAIN d2.keys :
          /\ d2.keys[n].i \in 0 .. d2.next - 1 /\ d2.keys[n].i # d2.text /\ d2.keys[n].i # d2.reasoning
          /\ d2.keys[n].key \in live => d2.keys[n].i \in ToSet(d2.open)
    BY <1>1 DEF Tracks, Opening
  <2>6. /\ DOMAIN d2 = DecoderFields /\ IsSeq(d2.open) /\ IsSeq(d2.keys) /\ d2.started \in BOOLEAN
        /\ ~d2.finished /\ (d2.next > 0 => d2.started)
        /\ d2.text = d2.reasoning => d2.text = None
        /\ \A m, n \in DOMAIN d2.keys : d2.keys[m].i = d2.keys[n].i => m = n
    BY <1>0 DEF Tracks, Opening
  <2> QED BY <2>1, <2>2, <2>3, <2>4, <2>5, <2>6 DEF Tracks
<1>3. y = EncodeEvent(cl, x, OpenEvent(d.next, kind))
  <2>1. IsSeq(d.out) /\ d2.out = Append(d.out, OpenEvent(d.next, kind))
    BY DEF Tracks, Opening
  <2> DEFINE v == OpenEvent(d.next, kind)
  <2> HIDE DEF v
  <2>2. \A s, w : IsSeq(s) => EncodeEvents(cl, e, Append(s, w))
                                  = EncodeEvent(cl, EncodeEvents(cl, e, s), w)
    BY EncodesOneByOne
  <2> QED BY <2>1, <2>2 DEF v
<1>4. On(cl, d.next, ToSet(d.open), x, from)
  BY DEF Follows, On
<1> HIDE DEF x, y
<1>5. On(cl, d.next + 1, ToSet(d.open) \cup {d.next}, y, from)
  BY <1>3, <1>4, HearsOpen
<1>6. Follows(cl, e, from, d2)
  <2>1. y.started \in BOOLEAN /\ d2.started \in BOOLEAN
    BY <1>2, <1>5 DEF Tracks, On, Hearing, Hears, Writer
  <2>2. y.started = d2.started
    BY <1>5, <2>1 DEF On, Opening
  <2> QED BY <1>1, <1>5, <2>2 DEF Follows, On, y, Opening
<1> QED BY <1>1, <1>2, <1>6

\* Text for an open block is followed.
LEMMA GoodTelling ==
    ASSUME NEW cl, NEW e, NEW from, NEW d, NEW live, Good(cl, e, from, d, live),
           NEW i \in ToSet(d.open), NEW x, NEW d2, Telling(d, i, x, d2)
    PROVE  Good(cl, e, from, d2, live)
<1> DEFINE a == EncodeEvents(cl, e, d.out)
           b == EncodeEvents(cl, e, d2.out)
<1> USE DEF Good
<1>1. Tracks(d2, live)
  <2>1. IsSeq(d2.out)
    BY Appended DEF Tracks, Telling
  <2> QED BY <2>1 DEF Tracks, Telling
<1>2. b = EncodeEvent(cl, a, DeltaEvent(i, x))
  <2>1. IsSeq(d.out) /\ d2.out = Append(d.out, DeltaEvent(i, x))
    BY DEF Tracks, Telling
  <2> DEFINE v == DeltaEvent(i, x)
  <2> HIDE DEF v
  <2>2. \A s, w : IsSeq(s) => EncodeEvents(cl, e, Append(s, w))
                                  = EncodeEvent(cl, EncodeEvents(cl, e, s), w)
    BY EncodesOneByOne
  <2> QED BY <2>1, <2>2 DEF v
<1>3. On(cl, d.next, ToSet(d.open), a, from)
  <2>1. d.started
    BY DEF Tracks
  <2> QED BY <2>1 DEF Follows, On
<1> HIDE DEF a, b
<1>4. On(cl, d.next, ToSet(d.open), b, from)
  BY <1>2, <1>3, HearsDelta
<1>5. Follows(cl, e, from, d2)
  <2>1. b.started \in BOOLEAN /\ d2.started \in BOOLEAN /\ d2.started
    BY <1>1, <1>4 DEF Tracks, On, Hearing, Hears, Writer, Telling
  <2>2. b.started = d2.started
    BY <1>4, <2>1 DEF On
  <2> QED BY <1>4, <2>2 DEF Follows, On, b, Telling
<1> QED BY <1>1, <1>5

\* No key that is still alive is of block i.
Unkeyed(d, i, live) == \A n \in DOMAIN d.keys : d.keys[n].key \in live => d.keys[n].i # i

\* A block closed is followed, if no living key is its.
LEMMA GoodClosing ==
    ASSUME NEW cl, NEW e, NEW from, NEW d, NEW live, Good(cl, e, from, d, live),
           NEW i \in ToSet(d.open), NEW less \in SUBSET live, Unkeyed(d, i, less),
           NEW d2, Closing(d, i, d2)
    PROVE  Good(cl, e, from, d2, less)
<1> DEFINE a == EncodeEvents(cl, e, d.out)
           b == EncodeEvents(cl, e, d2.out)
<1> USE DEF Good
<1>0. /\ IsSeq(d2.open) /\ ToSet(d2.open) = ToSet(d.open) \ {i}
      /\ \A m, n \in DOMAIN d2.open : d2.open[m] = d2.open[n] => m = n
  <2>1. LET t == RemoveFirst(d.open, i)
        IN  IsSeq(t) /\ ToSet(t) = ToSet(d.open) \ {i} /\ \A m, n \in DOMAIN t : t[m] = t[n] => m = n
    BY FirstRemoved DEF Tracks
  <2> QED BY <2>1 DEF Closing
<1>1. Tracks(d2, less)
  <2>1. IsSeq(d2.out)
    BY Appended DEF Tracks, Closing
  <2>2. d2.text \in ToSet(d2.open) \cup {None} /\ d2.reasoning \in ToSet(d2.open) \cup {None}
    BY <1>0 DEF Tracks, Closing
  <2>3. d2.text = d2.reasoning => d2.text = None
    BY DEF Tracks, Closing
  <2>4. ASSUME NEW n \in DOMAIN d2.keys
        PROVE  /\ d2.keys[n].i \in 0 .. d2.next - 1 /\ d2.keys[n].i # d2.text /\ d2.keys[n].i # d2.reasoning
               /\ d2.keys[n].key \in less => d2.keys[n].i \in ToSet(d2.open)
    <3>1. d2.keys = d.keys /\ d2.next = d.next
      BY DEF Closing
    <3>2. /\ d.keys[n].i \in 0 .. d.next - 1 /\ d.keys[n].i # d.text /\ d.keys[n].i # d.reasoning
          /\ d.keys[n].key \in live => d.keys[n].i \in ToSet(d.open)
      BY <3>1 DEF Tracks
    <3>3. d.keys[n].key \in less => d.keys[n].i # i
      BY <3>1 DEF Unkeyed
    <3>4. d.keys[n].i # None
      BY <3>2 DEF None, Tracks
    <3>5. d2.text \in {d.text, None} /\ d2.reasoning \in {d.reasoning, None}
      BY DEF Closing
    <3> QED BY <3>1, <3>2, <3>3, <3>4, <3>5, <1>0
  <2> QED BY <1>0, <2>1, <2>2, <2>3, <2>4 DEF Tracks, Closing
<1>2. b = EncodeEvent(cl, a, StopEvent(i))
  <2>1. IsSeq(d.out) /\ d2.out = Append(d.out, StopEvent(i))
    BY DEF Tracks, Closing
  <2> DEFINE v == StopEvent(i)
  <2> HIDE DEF v
  <2>2. \A s, w : IsSeq(s) => EncodeEvents(cl, e, Append(s, w))
                                  = EncodeEvent(cl, EncodeEvents(cl, e, s), w)
    BY EncodesOneByOne
  <2> QED BY <2>1, <2>2 DEF v
<1>3. On(cl, d.next, ToSet(d.open), a, from)
  <2>1. d.started
    BY DEF Tracks
  <2> QED BY <2>1 DEF Follows, On
<1> HIDE DEF a, b
<1>4. On(cl, d.next, ToSet(d.open) \ {i}, b, from)
  BY <1>2, <1>3, HearsStop
<1>5. Follows(cl, e, from, d2)
  <2>1. b.started \in BOOLEAN /\ d2.started \in BOOLEAN /\ d2.started
    <3>1. d.started
      BY DEF Tracks
    <3> QED BY <3>1, <1>1, <1>4 DEF Tracks, On, Hearing, Hears, Writer, Closing
  <2>2. b.started = d2.started
    BY <1>4, <2>1 DEF On
  <2> QED BY <1>0, <1>4, <2>2 DEF Follows, On, b, Closing
<1> QED BY <1>1, <1>5

-----------------------------------------------------------------------------
(* What the decoders do, one operation at a time.                             *)

\* The stream starts before anything is said.
LEMMA GoodStart ==
    ASSUME NEW cl, NEW e, NEW from, NEW d, NEW live, Good(cl, e, from, d, live), NEW s, s = Start(d)
    PROVE  /\ Good(cl, e, from, s, live) /\ s.started /\ DOMAIN s = DOMAIN d
           /\ s.next = d.next /\ s.open = d.open /\ s.keys = d.keys
           /\ s.text = d.text /\ s.reasoning = d.reasoning
<1>1. CASE d.started
  BY <1>1 DEF Start
<1>2. CASE ~d.started
  <2>1. s = [d EXCEPT !.out = Append(@, StartEvent), !.started = TRUE]
    BY <1>2 DEF Start, Emit, StartEvent, Good, Tracks, DecoderFields
  <2> HIDE DEF StartEvent
  <2>2. Starting(d, s)
    BY <2>1 DEF Starting, Good, Tracks, DecoderFields
  <2>3. Good(cl, e, from, s, live)
    BY <1>2, <2>2, GoodStarting
  <2> QED BY <2>2, <2>3 DEF Starting
<1> QED BY <1>1, <1>2

\* A block that is open and has no name yet.
Spare(d, i) ==
    /\ i \in ToSet(d.open) /\ i # d.text /\ i # d.reasoning
    /\ \A n \in DOMAIN d.keys : d.keys[n].i # i

\* Open: the block is open and has no name.
LEMMA GoodOpen ==
    ASSUME NEW cl, NEW e, NEW from, NEW d, NEW live, Good(cl, e, from, d, live),
           NEW kind \in Kinds, NEW o, o = Open(d, kind)
    PROVE  /\ Good(cl, e, from, o, live) /\ Spare(o, o.next - 1)
           /\ o.text = d.text /\ o.reasoning = d.reasoning /\ o.keys = d.keys /\ DOMAIN o = DOMAIN d
<1> DEFINE s == Start(d)
           v == OpenEvent(s.next, kind)
<1>1. /\ Good(cl, e, from, s, live) /\ s.started /\ DOMAIN s = DOMAIN d
      /\ s.next = d.next /\ s.open = d.open /\ s.keys = d.keys
      /\ s.text = d.text /\ s.reasoning = d.reasoning
  BY GoodStart
<1>2. o = [Emit(s, v) EXCEPT !.next = @ + 1, !.open = Append(@, s.next),
                             !.sawTool = @ \/ kind = "tool"]
  BY DEF Open, OpenEvent
<1> HIDE DEF s, v
<1>3. DOMAIN s = DecoderFields
  BY <1>1 DEF Good, Tracks
<1>4. /\ DOMAIN o = DOMAIN s /\ o.out = Append(s.out, v) /\ o.started = s.started
      /\ o.next = s.next + 1 /\ o.open = Append(s.open, s.next)
      /\ o.keys = s.keys /\ o.finished = s.finished /\ o.text = s.text /\ o.reasoning = s.reasoning
  BY <1>2, <1>3 DEF Emit, DecoderFields
<1>5. Opening(s, kind, o)
  BY <1>1, <1>4 DEF Opening, v
<1>6. Good(cl, e, from, o, live) /\ ToSet(o.open) = ToSet(s.open) \cup {s.next}
  BY <1>1, <1>5, GoodOpening
<1>7. Spare(o, o.next - 1)
  <2>1. /\ s.next \in Nat /\ ToSet(s.open) \subseteq 0 .. s.next - 1
        /\ s.text \in ToSet(s.open) \cup {None} /\ s.reasoning \in ToSet(s.open) \cup {None}
        /\ \A n \in DOMAIN s.keys : s.keys[n].i \in 0 .. s.next - 1
    BY <1>1 DEF Good, Tracks
  <2>2. o.next - 1 = s.next
    BY <2>1, <1>4
  <2>3. s.next # s.text /\ s.next # s.reasoning
    BY <2>1 DEF None
  <2>4. \A n \in DOMAIN s.keys : s.keys[n].i # s.next
    BY <2>1
  <2> QED BY <2>2, <2>3, <2>4, <1>4, <1>6 DEF Spare
<1> QED BY <1>1, <1>4, <1>6, <1>7

\* Block i is the one key stands for, and nothing else is.
Keyed(d, key, i) ==
    /\ i \in ToSet(d.open) /\ i # d.text /\ i # d.reasoning /\ Knows(d, key)
    /\ \A n \in DOMAIN d.keys : d.keys[n].i = i => d.keys[n].key = key

\* OpenAs: the block is open and its name is the key.
LEMMA GoodOpenAs ==
    ASSUME NEW cl, NEW e, NEW from, NEW d, NEW live, Good(cl, e, from, d, live),
           NEW kind \in Kinds, NEW key, NEW o, o = OpenAs(d, kind, key)
    PROVE  Good(cl, e, from, o, live) /\ Keyed(o, key, o.next - 1)
<1> DEFINE b == Open(d, kind)
           i == b.next - 1
           k == [key |-> key, i |-> i]
<1>1. Good(cl, e, from, b, live) /\ Spare(b, i)
  BY GoodOpen
<1>2. o = [b EXCEPT !.keys = Append(@, k)]
  BY DEF OpenAs
<1> HIDE DEF b, k
<1>3. /\ DOMAIN o = DOMAIN b /\ o.out = b.out /\ o.started = b.started /\ o.next = b.next
      /\ o.open = b.open /\ o.keys = Append(b.keys, k) /\ o.finished = b.finished
      /\ o.text = b.text /\ o.reasoning = b.reasoning
  BY <1>1, <1>2 DEF Good, Tracks, DecoderFields
<1>4. Grown(b.keys, k, o.keys)
  BY <1>1, <1>3, Grows DEF Good, Tracks
<1>5. k.key = key /\ k.i = i
  BY DEF k
<1>6. Tracks(b, live) /\ i \in 0 .. b.next - 1
  BY <1>1 DEF Good, Tracks, Spare
<1>7. Tracks(o, live)
  <2>1. \A n \in DOMAIN o.keys : n \in DOMAIN b.keys \/ n = Len(b.keys) + 1
    BY <1>4 DEF Grown
  <2>2. ASSUME NEW n \in DOMAIN o.keys
        PROVE  /\ o.keys[n].i \in 0 .. o.next - 1 /\ o.keys[n].i # o.text /\ o.keys[n].i # o.reasoning
               /\ o.keys[n].key \in live => o.keys[n].i \in ToSet(o.open)
    <3>1. CASE n \in DOMAIN b.keys
      BY <3>1, <1>3, <1>4, <1>6 DEF Grown, Tracks
    <3>2. CASE n = Len(b.keys) + 1
      <4>1. o.keys[n] = k
        BY <3>2, <1>4 DEF Grown
      <4> QED BY <4>1, <1>1, <1>3, <1>5, <1>6 DEF Spare
    <3> QED BY <3>1, <3>2, <2>1
  <2>3. ASSUME NEW m \in DOMAIN o.keys, NEW n \in DOMAIN o.keys, o.keys[m].i = o.keys[n].i PROVE m = n
    <3>1. \A j \in DOMAIN b.keys : o.keys[j] = b.keys[j] /\ b.keys[j].i # i
      BY <1>1, <1>4 DEF Grown, Spare
    <3>2. o.keys[Len(b.keys) + 1].i = i
      BY <1>4, <1>5 DEF Grown
    <3>3. CASE m \in DOMAIN b.keys /\ n \in DOMAIN b.keys
      BY <3>1, <3>3, <2>3, <1>6 DEF Tracks
    <3> HIDE DEF i
    <3> QED BY <3>1, <3>2, <3>3, <2>1, <2>3
  <2>4. IsSeq(o.keys)
    BY <1>4 DEF Grown
  <2> QED BY <2>2, <2>3, <2>4, <1>3, <1>6 DEF Tracks
<1>8. Good(cl, e, from, o, live)
  <2>1. Follows(cl, e, from, o)
    BY <1>1, <1>3 DEF Good, Follows
  <2> QED BY <2>1, <1>1, <1>7 DEF Good
<1>9. Keyed(o, key, i)
  <2>1. Knows(o, key)
    <3>1. Len(b.keys) + 1 \in DOMAIN o.keys /\ o.keys[Len(b.keys) + 1].key = key
      BY <1>4, <1>5 DEF Grown
    <3> QED BY <3>1 DEF Knows
  <2>2. ASSUME NEW n \in DOMAIN o.keys, o.keys[n].i = i PROVE o.keys[n].key = key
    <3>1. n \in DOMAIN b.keys \/ n = Len(b.keys) + 1
      BY <1>4 DEF Grown
    <3>2. n \notin DOMAIN b.keys
      BY <2>2, <1>1, <1>4 DEF Grown, Spare
    <3> QED BY <3>1, <3>2, <1>4, <1>5 DEF Grown
  <2> QED BY <2>1, <2>2, <1>1, <1>3 DEF Keyed, Spare
<1> QED BY <1>3, <1>8, <1>9

\* Text for an open block.
LEMMA GoodDelta ==
    ASSUME NEW cl, NEW e, NEW from, NEW d, NEW live, Good(cl, e, from, d, live),
           NEW i \in ToSet(d.open), NEW x, NEW d2, d2 = Delta(d, i, x)
    PROVE  /\ Good(cl, e, from, d2, live)
           /\ d2.open = d.open /\ d2.keys = d.keys /\ d2.text = d.text /\ d2.reasoning = d.reasoning
<1>1. CASE x = <<>>
  BY <1>1 DEF Delta
<1>2. CASE x # <<>>
  <2> DEFINE v == DeltaEvent(i, x)
  <2>1. d2 = [d EXCEPT !.out = Append(@, v)]
    BY <1>2 DEF Delta, Emit, DeltaEvent
  <2> HIDE DEF v
  <2>2. /\ DOMAIN d2 = DOMAIN d /\ d2.out = Append(d.out, v) /\ d2.started = d.started
        /\ d2.next = d.next /\ d2.open = d.open /\ d2.keys = d.keys /\ d2.finished = d.finished
        /\ d2.text = d.text /\ d2.reasoning = d.reasoning
    BY <2>1 DEF Good, Tracks, DecoderFields
  <2>3. Telling(d, i, x, d2)
    BY <2>2 DEF Telling, v
  <2>4. Good(cl, e, from, d2, live)
    BY <2>3, GoodTelling
  <2> QED BY <2>2, <2>4
<1> QED BY <1>1, <1>2

\* A block closed, after which the keys in `less` are the ones alive.
LEMMA GoodClose ==
    ASSUME NEW cl, NEW e, NEW from, NEW d, NEW live, Good(cl, e, from, d, live),
           NEW i, i # d.text, i # d.reasoning, NEW less \in SUBSET live, Unkeyed(d, i, less),
           NEW d2, d2 = Close(d, i)
    PROVE  Good(cl, e, from, d2, less)
<1>1. CASE i \notin ToSet(d.open)
  BY <1>1, GoodLess DEF Close
<1>2. CASE i \in ToSet(d.open)
  <2> DEFINE v == StopEvent(i)
  <2>1. d2 = [Emit(d, v) EXCEPT !.open = RemoveFirst(@, i)]
    BY <1>2 DEF Close, StopEvent
  <2> HIDE DEF v
  <2>2. /\ DOMAIN d2 = DOMAIN d /\ d2.out = Append(d.out, v) /\ d2.started = d.started
        /\ d2.next = d.next /\ d2.open = RemoveFirst(d.open, i) /\ d2.keys = d.keys
        /\ d2.finished = d.finished /\ d2.text = d.text /\ d2.reasoning = d.reasoning
    BY <2>1 DEF Good, Tracks, DecoderFields, Emit
  <2>3. Closing(d, i, d2)
    BY <2>2 DEF Closing, v
  <2> QED BY <1>2, <2>3, GoodClosing
<1> QED BY <1>1, <1>2

\* The block of a prose field closed, if it names one.
LEMMA GoodCloseField ==
    ASSUME NEW cl, NEW e, NEW from, NEW d, NEW live, Good(cl, e, from, d, live),
           NEW f \in Prose, NEW d2, d2 = CloseField(d, f)
    PROVE  /\ Good(cl, e, from, d2, live)
           /\ f = "text" => d2.text = None /\ d2.reasoning = d.reasoning
           /\ f = "reasoning" => d2.reasoning = None /\ d2.text = d.text
<1> DEFINE i == d[f]
<1>1. CASE i = None
  BY <1>1 DEF CloseField, Prose
<1>2. CASE i # None
  <2>1. d2 = [Close(d, i) EXCEPT ![f] = None]
    BY <1>2 DEF CloseField
  <2>2. i \in ToSet(d.open)
    BY <1>2 DEF Good, Tracks, Prose
  <2>3. Unkeyed(d, i, live)
    BY DEF Good, Tracks, Prose, Unkeyed
  <2>4. (f = "text" => i = d.text) /\ (f = "reasoning" => i = d.reasoning)
    OBVIOUS
  <2> DEFINE v == StopEvent(i)
             c == Close(d, i)
  <2>5. c = [Emit(d, v) EXCEPT !.open = RemoveFirst(@, i)]
    BY <2>2 DEF Close, StopEvent
  <2> HIDE DEF v, i
  <2>6. /\ DOMAIN c = DOMAIN d /\ c.out = Append(d.out, v) /\ c.started = d.started
        /\ c.next = d.next /\ c.open = RemoveFirst(d.open, i) /\ c.keys = d.keys
        /\ c.finished = d.finished /\ c.text = d.text /\ c.reasoning = d.reasoning
    BY <2>5 DEF Good, Tracks, DecoderFields, Emit
  <2> HIDE DEF c
  <2>7. /\ DOMAIN d2 = DOMAIN d /\ d2.out = c.out /\ d2.started = c.started
        /\ d2.next = c.next /\ d2.open = c.open /\ d2.keys = c.keys /\ d2.finished = c.finished
        /\ f = "text" => d2.text = None /\ d2.reasoning = c.reasoning
        /\ f = "reasoning" => d2.reasoning = None /\ d2.text = c.text
    <3>1. CASE f = "text"
      BY <2>1, <2>6, <3>1 DEF Good, Tracks, DecoderFields, c
    <3>2. CASE f = "reasoning"
      BY <2>1, <2>6, <3>2 DEF Good, Tracks, DecoderFields, c
    <3> QED BY <3>1, <3>2 DEF Prose
  <2>8. i # None /\ (d.text = d.reasoning => d.text = None)
    BY <1>2 DEF Good, Tracks, i
  <2>9. Closing(d, i, d2)
    <3>1. d2.text \in {d.text, None} \ {i} /\ d2.reasoning \in {d.reasoning, None} \ {i}
      BY <2>4, <2>6, <2>7, <2>8 DEF Prose
    <3> QED BY <2>6, <2>7, <3>1 DEF Closing, v
  <2>10. Good(cl, e, from, d2, live)
    BY <2>2, <2>3, <2>9, GoodClosing
  <2> QED BY <2>6, <2>7, <2>10
<1> QED BY <1>1, <1>2

\* Both.
LEMMA GoodCloseProse ==
    ASSUME NEW cl, NEW e, NEW from, NEW d, NEW live, Good(cl, e, from, d, live),
           NEW d2, d2 = CloseProse(d)
    PROVE  Good(cl, e, from, d2, live)
<1> DEFINE c == CloseField(d, "text")
<1>1. Good(cl, e, from, c, live)
  BY GoodCloseField DEF Prose
<1>2. d2 = CloseField(c, "reasoning")
  BY DEF CloseProse
<1> HIDE DEF c
<1> QED BY <1>1, <1>2, GoodCloseField DEF Prose

\* A piece of prose.
LEMMA GoodSayProse ==
    ASSUME NEW cl, NEW e, NEW from, NEW d, NEW live, Good(cl, e, from, d, live),
           NEW kind \in Prose, NEW x, NEW d2, d2 = SayProse(d, kind, x)
    PROVE  Good(cl, e, from, d2, live)
<1> DEFINE p == InProse(d, kind)
<1>1. Good(cl, e, from, p, live) /\ p[kind] \in ToSet(p.open)
  <2>1. CASE d[kind] # None
    <3>1. p = d
      BY <2>1 DEF InProse
    <3> HIDE DEF p
    <3>2. p[kind] \in ToSet(p.open)
      BY <2>1, <3>1 DEF Good, Tracks, Prose
    <3> QED BY <3>1, <3>2
  <2>2. CASE d[kind] = None
    <3> DEFINE other == IF kind = "text" THEN "reasoning" ELSE "text"
               c == CloseField(d, other)
               o == Open(c, kind)
    <3>1. p = [o EXCEPT ![kind] = o.next - 1]
      BY <2>2 DEF InProse
    <3>2. other \in Prose
      BY DEF Prose
    <3>3. /\ Good(cl, e, from, c, live)
          /\ other = "text" => c.text = None /\ c.reasoning = d.reasoning
          /\ other = "reasoning" => c.reasoning = None /\ c.text = d.text
      <4> HIDE DEF other
      <4> QED BY <3>2, GoodCloseField
    <3>4. c.text = None /\ c.reasoning = None
      BY <2>2, <3>3 DEF Prose
    <3>5. kind \in Kinds
      BY DEF Kinds
    <3> HIDE DEF c, other, p
    <3>6. /\ Good(cl, e, from, o, live) /\ Spare(o, o.next - 1)
          /\ o.text = c.text /\ o.reasoning = c.reasoning
      BY <3>3, <3>5, GoodOpen
    <3> HIDE DEF o
    <3> DEFINE i == o.next - 1
    <3>7. /\ DOMAIN p = DOMAIN o /\ p.out = o.out /\ p.started = o.started /\ p.next = o.next
          /\ p.open = o.open /\ p.keys = o.keys /\ p.finished = o.finished /\ p[kind] = i
          /\ kind = "text" => p.text = i /\ p.reasoning = None
          /\ kind = "reasoning" => p.reasoning = i /\ p.text = None
      <4> HIDE DEF i
      <4>1. CASE kind = "text"
        BY <3>1, <3>4, <3>6, <4>1 DEF Good, Tracks, DecoderFields, i
      <4>2. CASE kind = "reasoning"
        BY <3>1, <3>4, <3>6, <4>2 DEF Good, Tracks, DecoderFields, i
      <4> QED BY <4>1, <4>2 DEF Prose
    <3> HIDE DEF i
    <3>8. Spare(o, i) /\ Tracks(o, live)
      BY <3>6 DEF i, Good
    <3>9. Tracks(p, live)
      <4>1. i \in ToSet(p.open) /\ i # None
        BY <3>7, <3>8 DEF Spare, Tracks, None
      <4>2. \A n \in DOMAIN p.keys : p.keys[n].i # i /\ p.keys[n].i # None
        BY <3>7, <3>8 DEF Spare, Tracks, None
      <4>3. (p.text = i /\ p.reasoning = None) \/ (p.reasoning = i /\ p.text = None)
        BY <3>7 DEF Prose
      <4> QED BY <3>7, <3>8, <4>1, <4>2, <4>3 DEF Tracks
    <3>10. Follows(cl, e, from, p)
      BY <3>6, <3>7 DEF Good, Follows
    <3> QED BY <3>6, <3>7, <3>8, <3>9, <3>10 DEF Good, Spare
  <2> QED BY <2>1, <2>2
<1>2. d2 = Delta(p, p[kind], x)
  BY DEF SayProse
<1> HIDE DEF p
<1> QED BY <1>1, <1>2, GoodDelta

-----------------------------------------------------------------------------
(* What the decoders make of a frame.                                         *)

\* The part of the upstream's answer a frame is about, and the frames that end one.
About(f, n) ==
    \/ f.t \in {"content_block_start", "content_block_delta", "content_block_stop"} /\ f.index = n
    \/ f.t \in {"item_added", "arguments_delta", "item_done"} /\ f.key = n
    \/ f.t = "chunk" /\ \E k \in DOMAIN f.calls : f.calls[k].index = n
IsClose(f, n) == f.t \in {"content_block_stop", "item_done"} /\ About(f, n)

\* The form of a frame, as far as the decoders look at it.
Calls1(calls) == calls = <<>> \/ (calls = << calls[1] >> /\ calls[1].index \in Nat)
Frame(f) ==
    /\ "t" \in DOMAIN f
    /\ f.t \in {"content_block_start", "content_block_delta", "content_block_stop"} =>
          "index" \in DOMAIN f /\ f.index \in Nat
    /\ f.t \in {"item_added", "arguments_delta", "item_done"} => "key" \in DOMAIN f /\ f.key \in Nat
    /\ f.t = "prose_delta" => "kind" \in DOMAIN f /\ f.kind \in Prose
    /\ f.t = "chunk" => "calls" \in DOMAIN f /\ Calls1(f.calls)

\* Frame f is about living parts; those in `less` live on after it.
Speaks(f, live, less) ==
    /\ Frame(f) /\ less \subseteq live
    /\ \A n : About(f, n) => n \in live
    /\ \A n \in less : ~IsClose(f, n)

\* Fields that only the usage and the stop reason are in.
LEMMA GoodUsage ==
    ASSUME NEW cl, NEW e, NEW from, NEW d, NEW live, Good(cl, e, from, d, live),
           NEW u, NEW d2, d2 = Usage(d, u)
    PROVE  Good(cl, e, from, d2, live)
<1> DEFINE w == [f \in DOMAIN u |-> IF f = "read" THEN Higher(d.usage[f], u[f]) ELSE Later(d.usage[f], u[f])]
<1>1. d2 = [d EXCEPT !.usage = w]
  BY DEF Usage
<1> HIDE DEF w
<1>2. Same(d, d2)
  BY <1>1 DEF Same, Good, Tracks, DecoderFields
<1> QED BY <1>2, GoodSame

\* A stop reason says nothing.
LEMMA GoodStop ==
    ASSUME NEW cl, NEW e, NEW from, NEW d, NEW live, Good(cl, e, from, d, live),
           NEW stop, NEW d2, d2 = [d EXCEPT !.stop = stop]
    PROVE  Good(cl, e, from, d2, live)
<1>1. Same(d, d2)
  BY DEF Same, Good, Tracks, DecoderFields
<1> QED BY <1>1, GoodSame

\* The first block opened under a key that is alive is open.
LEMMA KnownOpen ==
    ASSUME NEW cl, NEW e, NEW from, NEW d, NEW live, Good(cl, e, from, d, live),
           NEW key, Knows(d, key), NEW i, i = BlockOf(d, key)
    PROVE  /\ i # d.text /\ i # d.reasoning
           /\ key \in live => i \in ToSet(d.open)
           /\ \A n \in DOMAIN d.keys : d.keys[n].i = i => d.keys[n].key = key
<1> DEFINE n == SelectInSeq(d.keys, LAMBDA k : k.key = key)
           I == { m \in 1 .. Len(d.keys) : d.keys[m].key = key }
<1>1. DOMAIN d.keys = 1 .. Len(d.keys)
  BY DEF Good, Tracks, IsSeq
<1>2. I # {} /\ I \in SUBSET Nat
  BY <1>1 DEF Knows
<1>3. n = Min(I)
  BY <1>2 DEF SelectInSeq
<1>4. i = d.keys[n].i
  BY DEF BlockOf
<1> HIDE DEF n
<1>5. n \in I
  BY <1>2, <1>3, MinIn
<1>6. n \in DOMAIN d.keys /\ d.keys[n].key = key
  BY <1>1, <1>5
<1> HIDE DEF I
<1> QED BY <1>4, <1>6 DEF Good, Tracks

\* Text for the block of a key, opened if there was none.
LEMMA GoodSaid ==
    ASSUME NEW cl, NEW e, NEW from, NEW d, NEW live, Good(cl, e, from, d, live),
           NEW key \in live, Knows(d, key), NEW x, NEW d2, d2 = Delta(d, BlockOf(d, key), x)
    PROVE  Good(cl, e, from, d2, live)
<1> DEFINE i == BlockOf(d, key)
<1>1. i \in ToSet(d.open)
  BY KnownOpen
<1> HIDE DEF i
<1> QED BY <1>1, GoodDelta DEF i

\* A close for a key that dies with it is followed.
LEMMA GoodClosed ==
    ASSUME NEW cl, NEW e, NEW from, NEW d, NEW live, Good(cl, e, from, d, live),
           NEW key, Knows(d, key), NEW less \in SUBSET live, key \notin less,
           NEW d2, d2 = Close(d, BlockOf(d, key))
    PROVE  Good(cl, e, from, d2, less)
<1> DEFINE i == BlockOf(d, key)
<1>1. i # d.text /\ i # d.reasoning /\ \A n \in DOMAIN d.keys : d.keys[n].i = i => d.keys[n].key = key
  BY KnownOpen
<1> HIDE DEF i
<1>2. Unkeyed(d, i, less)
  BY <1>1 DEF Unkeyed
<1> QED BY <1>1, <1>2, GoodClose DEF i

\* The Anthropic decoder is followed.
LEMMA GoodAnthropic ==
    ASSUME NEW cl, NEW e, NEW from, NEW d, NEW live, Good(cl, e, from, d, live),
           NEW f, NEW less, Speaks(f, live, less), NEW d2, d2 = AnthropicFrame(d, f)
    PROVE  Good(cl, e, from, d2, less)
<1> USE DEF AnthropicFrame
<1>0. less \in SUBSET live
  BY DEF Speaks
<1>1. CASE f.t = "message_start"
  <2> DEFINE s == Start(d)
             u == ParseUsage("anthropic", f.usage)
  <2>1. d2 = Usage(s, u)
    BY <1>1
  <2>2. Good(cl, e, from, s, live)
    BY GoodStart
  <2> HIDE DEF s, u
  <2> QED BY <2>1, <2>2, <1>0, GoodUsage, GoodLess
<1>2. CASE f.t = "content_block_start"
  <2>1. CASE f.kind \in Kinds
    <3>1. d2 = OpenAs(d, f.kind, f.index)
      BY <1>2, <2>1
    <3>2. Good(cl, e, from, d2, live)
      BY <2>1, <3>1, GoodOpenAs
    <3> QED BY <3>2, <1>0, GoodLess
  <2>2. CASE f.kind \notin Kinds
    BY <1>0, <1>2, <2>2, GoodLess
  <2> QED BY <2>1, <2>2
<1>3. CASE f.t = "content_block_delta"
  <2>1. f.index \in live
    BY <1>3 DEF Speaks, About
  <2>2. CASE Knows(d, f.index)
    <3>1. d2 = Delta(d, BlockOf(d, f.index), f.x)
      BY <1>3, <2>2
    <3>2. Good(cl, e, from, d2, live)
      BY <2>1, <2>2, <3>1, GoodSaid
    <3> QED BY <3>2, <1>0, GoodLess
  <2>3. CASE ~Knows(d, f.index) /\ f.kind = "text"
    <3> DEFINE o == OpenAs(d, "text", f.index)
               i == o.next - 1
    <3>1. d2 = Delta(o, i, f.x)
      BY <1>3, <2>3
    <3>2. Good(cl, e, from, o, live) /\ Keyed(o, f.index, i)
      BY GoodOpenAs DEF Kinds, Prose
    <3> HIDE DEF o, i
    <3>3. i \in ToSet(o.open)
      BY <3>2 DEF Keyed
    <3>4. Good(cl, e, from, d2, live)
      BY <3>1, <3>2, <3>3, GoodDelta
    <3> QED BY <3>4, <1>0, GoodLess
  <2>4. CASE ~Knows(d, f.index) /\ f.kind # "text"
    BY <1>0, <1>3, <2>4, GoodLess
  <2> QED BY <2>2, <2>3, <2>4
<1>4. CASE f.t = "content_block_stop"
  <2>1. f.index \notin less
    BY <1>4 DEF Speaks, About, IsClose
  <2>2. CASE Knows(d, f.index)
    <3>1. d2 = Close(d, BlockOf(d, f.index))
      BY <1>4, <2>2
    <3> QED BY <1>0, <2>1, <2>2, <3>1, GoodClosed
  <2>3. CASE ~Knows(d, f.index)
    BY <1>0, <1>4, <2>3, GoodLess
  <2> QED BY <2>2, <2>3
<1>5. CASE f.t = "message_delta"
  <2> DEFINE s == [d EXCEPT !.stop = AnthropicStop(f.stop)]
             u == ParseUsage("anthropic", f.usage)
  <2>1. d2 = Usage(s, u)
    BY <1>5
  <2>2. Good(cl, e, from, s, live)
    BY GoodStop
  <2> HIDE DEF s, u
  <2> QED BY <2>1, <2>2, <1>0, GoodUsage, GoodLess
<1>6. CASE f.t \notin {"message_start", "content_block_start", "content_block_delta",
                       "content_block_stop", "message_delta"}
  <2>1. d2 = d
    BY <1>6
  <2> QED BY <2>1, <1>0, GoodLess
<1> QED BY <1>1, <1>2, <1>3, <1>4, <1>5, <1>6

\* A tool call of a chunk.
LEMMA GoodSayCall ==
    ASSUME NEW cl, NEW e, NEW from, NEW d, NEW live, Good(cl, e, from, d, live),
           NEW c, c.index \in live, NEW d2, d2 = SayCall(d, c)
    PROVE  Good(cl, e, from, d2, live)
<1> DEFINE k == IF Knows(d, c.index) THEN d ELSE OpenAs(CloseProse(d), "tool", c.index)
<1>1. Good(cl, e, from, k, live) /\ Knows(k, c.index)
  <2>1. CASE Knows(d, c.index)
    BY <2>1
  <2>2. CASE ~Knows(d, c.index)
    <3> DEFINE p == CloseProse(d)
               o == OpenAs(p, "tool", c.index)
    <3>1. k = o
      BY <2>2
    <3>2. Good(cl, e, from, p, live)
      BY GoodCloseProse
    <3> HIDE DEF k, p
    <3>3. Good(cl, e, from, o, live) /\ Keyed(o, c.index, o.next - 1)
      BY <3>2, GoodOpenAs DEF Kinds
    <3> HIDE DEF o
    <3> QED BY <3>1, <3>3 DEF Keyed
  <2> QED BY <2>1, <2>2
<1>2. d2 = Delta(k, BlockOf(k, c.index), c.x)
  BY DEF SayCall
<1> HIDE DEF k
<1> QED BY <1>1, <1>2, GoodSaid

\* The calls of a chunk: at most one.
SayCalls(d, calls) == FoldLeft(SayCall, d, calls)

\* None or one is all a chunk carries.
LEMMA SaysCalls ==
    ASSUME NEW d
    PROVE  SayCalls(d, <<>>) = d /\ \A c : SayCalls(d, << c >>) = SayCall(d, c)
<1>1. \A s : Calling!Fold(d, s) = SayCalls(d, s)
  BY DEF Calling!Fold, Calling!FoldLeft, Calling!MapThenFoldSet, Calling!Max,
         SayCalls, FoldLeft, MapThenFoldSet, Max
<1>2. Calling!Fold(d, <<>>) = d
  BY Calling!FoldEmpty
<1>3. ASSUME NEW c PROVE SayCalls(d, << c >>) = SayCall(d, c)
  <2>1. <<>> \in Seq({}) /\ << c >> = Append(<<>>, c)
    OBVIOUS
  <2>2. Calling!Fold(d, Append(<<>>, c)) = SayCall(Calling!Fold(d, <<>>), c)
    BY <2>1, Calling!FoldAppend
  <2> QED BY <1>1, <1>2, <2>1, <2>2
<1> QED BY <1>1, <1>2, <1>3

\* The Chat Completions decoder is followed.
LEMMA GoodOpenAI ==
    ASSUME NEW cl, NEW e, NEW from, NEW d, NEW live, Good(cl, e, from, d, live),
           NEW f, NEW less, Speaks(f, live, less), NEW d2, d2 = OpenAIFrame(d, f)
    PROVE  Good(cl, e, from, d2, less)
<1>0. less \in SUBSET live
  BY DEF Speaks
<1>1. CASE f.t # "chunk"
  BY <1>0, <1>1, GoodLess DEF OpenAIFrame
<1>2. CASE f.t = "chunk"
  <2> DEFINE s == Start(d)
             w == ParseUsage("openai", f.usage)
             u == Usage(s, w)
             r == IF f.reasoning = <<>> THEN u ELSE SayProse(u, "reasoning", f.reasoning)
             x == IF f.content = <<>> THEN r ELSE SayProse(r, "text", f.content)
             c == SayCalls(x, f.calls)
             z == OpenAIStop(f.finish)
             y == [c EXCEPT !.stop = z]
  <2>1. d2 = IF f.finish = "none" THEN c ELSE y
    BY <1>2 DEF OpenAIFrame, SayCalls
  <2> HIDE DEF w, z
  <2>2. Good(cl, e, from, s, live)
    BY GoodStart
  <2> HIDE DEF s
  <2>3. Good(cl, e, from, u, live)
    BY <2>2, GoodUsage
  <2> HIDE DEF u
  <2>4. Good(cl, e, from, r, live)
    BY <2>3, GoodSayProse DEF Prose
  <2> HIDE DEF r
  <2>5. Good(cl, e, from, x, live)
    BY <2>4, GoodSayProse DEF Prose
  <2> HIDE DEF x
  <2>6. Good(cl, e, from, c, live)
    <3>1. CASE f.calls = <<>>
      <4>1. c = x
        BY <3>1, SaysCalls
      <4> HIDE DEF c
      <4> QED BY <2>5, <4>1
    <3>2. CASE f.calls # <<>>
      <4>1. PICK k : f.calls = << k >>
        BY <1>2, <3>2 DEF Speaks, Frame, Calls1
      <4>2. k.index \in live
        <5>1. 1 \in DOMAIN f.calls /\ f.calls[1].index = k.index
          BY <4>1
        <5> QED BY <1>2, <5>1 DEF Speaks, About
      <4>3. c = SayCall(x, k)
        BY <4>1, SaysCalls
      <4> HIDE DEF c
      <4> QED BY <2>5, <4>2, <4>3, GoodSayCall
    <3> QED BY <3>1, <3>2
  <2> HIDE DEF c
  <2>7. Good(cl, e, from, y, live)
    BY <2>6, GoodStop
  <2> HIDE DEF y
  <2>8. Good(cl, e, from, d2, live)
    BY <2>1, <2>6, <2>7
  <2> QED BY <2>8, <1>0, GoodLess
<1> QED BY <1>1, <1>2

\* A finished item: a call told whole or closed, prose told whole or closed.
LEMMA GoodItemDone ==
    ASSUME NEW cl, NEW e, NEW from, NEW d, NEW live, Good(cl, e, from, d, live),
           NEW f, f.t = "item_done", NEW less, Speaks(f, live, less), NEW d2, d2 = ItemDone(d, f)
    PROVE  Good(cl, e, from, d2, less)
<1>0. less \in SUBSET live /\ f.key \notin less
  BY DEF Speaks, About, IsClose
<1>1. CASE f.kind = "tool" /\ Knows(d, f.key)
  <2>1. d2 = Close(d, BlockOf(d, f.key))
    BY <1>1 DEF ItemDone, Prose
  <2> QED BY <1>0, <1>1, <2>1, GoodClosed
<1>2. CASE f.kind = "tool" /\ ~Knows(d, f.key)
  <2> DEFINE p == CloseProse(d)
             o == OpenAs(p, "tool", f.key)
             i == o.next - 1
             w == Delta(o, i, f.x)
  <2>1. d2 = Close(w, i)
    BY <1>2 DEF ItemDone, Prose
  <2>2. Good(cl, e, from, p, live)
    BY GoodCloseProse
  <2> HIDE DEF p
  <2>3. Good(cl, e, from, o, live) /\ Keyed(o, f.key, i)
    BY <2>2, GoodOpenAs DEF Kinds
  <2> HIDE DEF o, i
  <2>4. i \in ToSet(o.open)
    BY <2>3 DEF Keyed
  <2>5. /\ Good(cl, e, from, w, live)
        /\ w.open = o.open /\ w.keys = o.keys /\ w.text = o.text /\ w.reasoning = o.reasoning
    BY <2>3, <2>4, GoodDelta
  <2> HIDE DEF w
  <2>6. i # w.text /\ i # w.reasoning /\ Unkeyed(w, i, less)
    BY <1>0, <2>3, <2>5 DEF Keyed, Unkeyed
  <2> QED BY <1>0, <2>1, <2>5, <2>6, GoodClose
<1>3. CASE f.kind \in Prose
  <2>1. d2 = CloseField(d, f.kind)
    BY <1>3 DEF ItemDone, Prose
  <2>2. Good(cl, e, from, d2, live)
    BY <1>3, <2>1, GoodCloseField
  <2> QED BY <1>0, <2>2, GoodLess
<1>4. CASE f.kind # "tool" /\ f.kind \notin Prose
  <2>1. d2 = d
    BY <1>4 DEF ItemDone
  <2> QED BY <1>0, <2>1, GoodLess
<1> QED BY <1>1, <1>2, <1>3, <1>4

\* The Responses decoder is followed.
LEMMA GoodResponses ==
    ASSUME NEW cl, NEW e, NEW from, NEW d, NEW live, Good(cl, e, from, d, live),
           NEW f, NEW less, Speaks(f, live, less), NEW d2, d2 = ResponsesFrame(d, f)
    PROVE  Good(cl, e, from, d2, less)
<1>0. less \in SUBSET live
  BY DEF Speaks
<1>1. CASE f.t \in {"created", "completed"}
  <2> DEFINE s == Start(d)
             w == ParseUsage("responses", f.usage)
             u == Usage(s, w)
             z == "max_tokens"
             y == [u EXCEPT !.stop = z]
  <2>1. d2 = IF f.status = "incomplete" THEN y ELSE u
    <3>1. CASE f.t = "created"
      BY <3>1 DEF ResponsesFrame
    <3>2. CASE f.t = "completed"
      BY <3>2 DEF ResponsesFrame
    <3> QED BY <1>1, <3>1, <3>2
  <2>2. Good(cl, e, from, s, live)
    BY GoodStart
  <2> HIDE DEF s, w, z
  <2>3. Good(cl, e, from, u, live)
    BY <2>2, GoodUsage
  <2> HIDE DEF u
  <2>4. Good(cl, e, from, y, live)
    BY <2>3, GoodStop
  <2> HIDE DEF y
  <2>5. Good(cl, e, from, d2, live)
    BY <2>1, <2>3, <2>4
  <2> QED BY <2>5, <1>0, GoodLess
<1>2. CASE f.t = "item_added" /\ f.kind = "tool"
  <2> DEFINE p == CloseProse(d)
  <2>1. d2 = OpenAs(p, "tool", f.key)
    BY <1>2 DEF ResponsesFrame
  <2>2. Good(cl, e, from, p, live)
    BY GoodCloseProse
  <2> HIDE DEF p
  <2>3. Good(cl, e, from, d2, live)
    BY <2>1, <2>2, GoodOpenAs DEF Kinds
  <2> QED BY <2>3, <1>0, GoodLess
<1>3. CASE f.t = "prose_delta"
  <2>1. d2 = SayProse(d, f.kind, f.x) /\ f.kind \in Prose
    BY <1>3 DEF ResponsesFrame, Speaks, Frame
  <2>2. Good(cl, e, from, d2, live)
    BY <2>1, GoodSayProse
  <2> QED BY <2>2, <1>0, GoodLess
<1>4. CASE f.t = "arguments_delta" /\ Knows(d, f.key)
  <2>1. d2 = Delta(d, BlockOf(d, f.key), f.x)
    BY <1>4 DEF ResponsesFrame
  <2>2. f.key \in live
    BY <1>4 DEF Speaks, About
  <2>3. Good(cl, e, from, d2, live)
    BY <1>4, <2>1, <2>2, GoodSaid
  <2> QED BY <2>3, <1>0, GoodLess
<1>5. CASE f.t = "item_done"
  <2>1. d2 = ItemDone(d, f)
    BY <1>5 DEF ResponsesFrame
  <2> QED BY <1>5, <2>1, GoodItemDone
<1>6. CASE f.t = "item_added" /\ f.kind # "tool"
  <2>1. d2 = d
    BY <1>6 DEF ResponsesFrame
  <2> QED BY <2>1, <1>0, GoodLess
<1>7. CASE f.t = "arguments_delta" /\ ~Knows(d, f.key)
  <2>1. d2 = d
    BY <1>7 DEF ResponsesFrame
  <2> QED BY <2>1, <1>0, GoodLess
<1>8. CASE f.t \notin {"created", "completed", "item_added", "prose_delta", "arguments_delta", "item_done"}
  <2>1. d2 = d
    BY <1>8 DEF ResponsesFrame
  <2> QED BY <2>1, <1>0, GoodLess
<1> QED BY <1>1, <1>2, <1>3, <1>4, <1>5, <1>6, <1>7, <1>8

\* A frame, whatever the upstream's format.
LEMMA GoodFrame ==
    ASSUME NEW cl, NEW e, NEW from, NEW d, NEW b, b = [d EXCEPT !.out = <<>>],
           NEW live, Good(cl, e, from, b, live),
           NEW up \in Formats, NEW f, NEW less, Speaks(f, live, less),
           NEW d2, d2 = DecodeFrame(up, d, f)
    PROVE  Good(cl, e, from, d2, less)
<1>1. CASE up = "anthropic"
  BY <1>1, GoodAnthropic DEF DecodeFrame
<1>2. CASE up = "openai"
  BY <1>2, GoodOpenAI DEF DecodeFrame
<1>3. CASE up = "responses"
  BY <1>3, GoodResponses DEF DecodeFrame
<1> QED BY <1>1, <1>2, <1>3 DEF Formats

\* The blocks still open are closed, one after the other, and the client's stream ends.
Stops1(open) == [n \in DOMAIN open |-> StopEvent(open[n])]
Rest1(open, n) == { open[k] : k \in n + 1 .. Len(open) }
Upto(out, stops, n) == out \o SubSeq(stops, 1, n)

\* What is listed by number is a sequence.
LEMMA ListedIsSeq ==
    ASSUME NEW n \in Nat, NEW f, f = [k \in 1 .. n |-> f[k]]
    PROVE  IsSeq(f) /\ Len(f) = n
BY DEF IsSeq

\* A sequence of any set is one.
LEMMA SeqIsSeq == ASSUME NEW S, NEW s \in Seq(S) PROVE IsSeq(s)
BY DEF IsSeq

\* Two elements more.
LEMMA TwoMore ==
    ASSUME NEW S, NEW s \in Seq(S), NEW v \in S, NEW w \in S
    PROVE  s \o << v, w >> = Append(Append(s, v), w)
OBVIOUS

\* One block more is closed.
LEMMA OneStopMore ==
    ASSUME NEW out, IsSeq(out), NEW stops, IsSeq(stops), NEW n \in Nat, n + 1 <= Len(stops)
    PROVE  /\ IsSeq(Upto(out, stops, n))
           /\ Upto(out, stops, n + 1) = Append(Upto(out, stops, n), stops[n + 1])
<1> DEFINE S == { out[k] : k \in DOMAIN out } \cup { stops[k] : k \in DOMAIN stops }
<1>1. out \in Seq(S) /\ stops \in Seq(S)
  BY DEF IsSeq
<1> HIDE DEF S
<1>2. SubSeq(stops, 1, n) \in Seq(S) /\ SubSeq(stops, 1, n + 1) = Append(SubSeq(stops, 1, n), stops[n + 1])
  BY <1>1
<1>3. Upto(out, stops, n) \in Seq(S)
  BY <1>1, <1>2 DEF Upto
<1>4. stops[n + 1] \in S
  BY <1>1
<1>5. out \o Append(SubSeq(stops, 1, n), stops[n + 1]) = Append(out \o SubSeq(stops, 1, n), stops[n + 1])
  BY <1>1, <1>2, <1>4
<1>6. IsSeq(Upto(out, stops, n))
  BY <1>3, SeqIsSeq
<1> QED BY <1>2, <1>5, <1>6 DEF Upto

\* Decoder b ends as d2: a client that was at `from` has every block closed when encoder y is told
\* the usage and the end.
Ends(cl, e, from, b, d2, y, stop) ==
    /\ \E next : On(cl, next, {}, y, from)
    /\ EncodeEvents(cl, e, d2.out)
         = EncodeEvent(cl, EncodeEvent(cl, y, [t |-> "usage", u |-> b.usage]), [t |-> "finish", stop |-> stop])
    /\ d2.open = <<>> /\ d2.keys = b.keys /\ d2.next = b.next

\* The end of the stream closes what is open before it.
LEMMA LastEvents ==
    ASSUME NEW cl, NEW e, NEW from, NEW d, NEW b, b = [d EXCEPT !.out = <<>>],
           NEW live, Good(cl, e, from, b, live), NEW d2, d2 = DecodeEnd(d)
    PROVE  \E y, stop : Ends(cl, e, from, b, d2, y, stop)
<1> DEFINE s == Start(b)
           stops == Stops1(s.open)
           stop == IF s.stop # "none" THEN s.stop ELSE IF s.sawTool THEN "tool_use" ELSE "end_turn"
           u == b.usage
           x == EncodeEvents(cl, e, d2.out)
           v == [t |-> "usage", u |-> u]
           w == [t |-> "finish", stop |-> stop]
           N == Len(s.open)
           Y(n) == EncodeEvents(cl, e, Upto(s.out, stops, n))
<1>0. cl \in Formats
  BY DEF Good
<1>n. \A t, q : IsSeq(t) => EncodeEvents(cl, e, Append(t, q)) = EncodeEvent(cl, EncodeEvents(cl, e, t), q)
  BY <1>0, EncodesOneByOne
<1>1. Good(cl, e, from, s, live) /\ s.started
  BY GoodStart
<1>u. s.usage = b.usage /\ s.keys = b.keys /\ s.next = b.next
  BY DEF Good, Tracks, DecoderFields, Start, Emit
<1>2. d2.out = s.out \o stops \o << v, w >> /\ d2.open = <<>> /\ d2.keys = s.keys /\ d2.next = s.next
  <2>1. d2 = FinishEvents(b) /\ ~b.finished
    BY DEF DecodeEnd, Good, Tracks
  <2>2. s.out = s.out /\ DOMAIN s = DecoderFields
    BY <1>1 DEF Good, Tracks
  <2> DEFINE z == [n \in DOMAIN s.open |-> [t |-> "stop", i |-> s.open[n]]]
  <2>3. z = stops
    BY DEF Stops1, StopEvent
  <2>4. d2 = [s EXCEPT !.finished = TRUE, !.open = <<>>, !.out = @ \o z \o << v, w >>]
    BY <1>u, <2>1 DEF FinishEvents
  <2> HIDE DEF v, w, s
  <2> DEFINE o == s.out \o z \o << v, w >>
  <2>5. d2 = [s EXCEPT !.finished = TRUE, !.open = <<>>, !.out = o]
    BY <2>4
  <2>6. o = s.out \o stops \o << v, w >>
    BY <2>3
  <2> HIDE DEF z, o
  <2>7. d2.out = o /\ d2.open = <<>> /\ d2.keys = s.keys /\ d2.next = s.next
    BY <2>2, <2>5 DEF DecoderFields
  <2> QED BY <2>6, <2>7
<1> HIDE DEF u, stop, s
<1>3. /\ IsSeq(s.out) /\ IsSeq(s.open) /\ N \in Nat /\ DOMAIN s.open = 1 .. N
      /\ \A m, n \in DOMAIN s.open : s.open[m] = s.open[n] => m = n
      /\ cl \in Formats
  BY <1>1 DEF Good, Tracks, IsSeq
<1>4. IsSeq(stops) /\ Len(stops) = N /\ \A n \in 1 .. N : stops[n] = StopEvent(s.open[n])
  <2>1. stops = [n \in 1 .. N |-> StopEvent(s.open[n])]
    BY <1>3 DEF Stops1
  <2> HIDE DEF N, stops
  <2>2. stops = [n \in 1 .. N |-> stops[n]] /\ \A n \in 1 .. N : stops[n] = StopEvent(s.open[n])
    BY <2>1
  <2> QED BY <2>2, <1>3, ListedIsSeq
<1> HIDE DEF stops
<1> DEFINE G == { n \in Nat : n <= N => On(cl, s.next, Rest1(s.open, n), Y(n), from) }
<1>5. 0 \in G
  <2>1. Upto(s.out, stops, 0) = s.out
    BY <1>3, <1>4 DEF Upto, IsSeq
  <2>2. Rest1(s.open, 0) = ToSet(s.open)
    BY <1>3 DEF Rest1, ToSet
  <2>3. On(cl, s.next, ToSet(s.open), EncodeEvents(cl, e, s.out), from)
    BY <1>1 DEF Good, Follows, On
  <2> QED BY <2>1, <2>2, <2>3
<1>6. ASSUME NEW n \in Nat, n \in G PROVE n + 1 \in G
  <2> SUFFICES ASSUME n + 1 <= N PROVE On(cl, s.next, Rest1(s.open, n + 1), Y(n + 1), from)
    OBVIOUS
  <2> DEFINE i == s.open[n + 1]
  <2>1. On(cl, s.next, Rest1(s.open, n), Y(n), from)
    BY <1>3, <1>6
  <2>2. i \in Rest1(s.open, n) /\ Rest1(s.open, n + 1) = Rest1(s.open, n) \ {i}
    <3>1. \A k : k \in n + 1 .. N <=> k = n + 1 \/ k \in n + 1 + 1 .. N
      BY <1>3
    <3>2. \A k \in n + 1 + 1 .. N : k \in DOMAIN s.open /\ n + 1 \in DOMAIN s.open /\ k # n + 1
      BY <1>3
    <3>3. \A k \in n + 1 + 1 .. N : s.open[k] # i
      BY <3>2, <1>3
    <3> QED BY <3>1, <3>3 DEF Rest1
  <2>3. /\ IsSeq(Upto(s.out, stops, n))
        /\ Upto(s.out, stops, n + 1) = Append(Upto(s.out, stops, n), stops[n + 1])
    BY ZenonT(40), <1>3, <1>4, OneStopMore
  <2>4. stops[n + 1] = StopEvent(i)
    BY <1>4
  <2> HIDE DEF i, N
  <2>6. Y(n + 1) = EncodeEvent(cl, Y(n), StopEvent(i))
    BY <2>3, <2>4, <1>n
  <2> HIDE DEF Y
  <2>7. On(cl, s.next, Rest1(s.open, n) \ {i}, EncodeEvent(cl, Y(n), StopEvent(i)), from)
    BY <1>3, <2>1, <2>2, HearsStop
  <2> QED BY <2>2, <2>6, <2>7
<1>7. N \in G
  <2> HIDE DEF G
  <2> QED BY <1>3, <1>5, <1>6, InductionOnNat
<1>8. On(cl, s.next, {}, Y(N), from)
  <2>1. Rest1(s.open, N) = {}
    BY <1>3 DEF Rest1
  <2>2. On(cl, s.next, Rest1(s.open, N), Y(N), from)
    <3> HIDE DEF N, Y
    <3> QED BY <1>3, <1>7
  <2> QED BY <2>1, <2>2
<1> DEFINE out == s.out \o stops
<1>9. IsSeq(out) /\ Y(N) = EncodeEvents(cl, e, out) /\ d2.out = Append(Append(out, v), w)
  <2> DEFINE S == { s.out[k] : k \in DOMAIN s.out } \cup { stops[k] : k \in DOMAIN stops } \cup {v, w}
  <2>1. s.out \in Seq(S) /\ stops \in Seq(S) /\ v \in S /\ w \in S
    BY <1>3, <1>4 DEF IsSeq
  <2> HIDE DEF S, v, w
  <2>2. SubSeq(stops, 1, N) = stops
    BY <1>4, <2>1
  <2>3. out \in Seq(S)
    BY <2>1
  <2>4. out \o << v, w >> = Append(Append(out, v), w)
    BY <2>1, <2>3, TwoMore
  <2>5. IsSeq(out)
    BY <2>3, SeqIsSeq
  <2> QED BY <1>2, <2>2, <2>4, <2>5 DEF Upto
<1> HIDE DEF out
<1>10. IsSeq(Append(out, v))
  BY <1>9, Appended
<1> DEFINE y == EncodeEvents(cl, e, out)
           e1 == EncodeEvent(cl, y, v)
<1>11. x = EncodeEvent(cl, e1, w)
  <2> HIDE DEF v, w
  <2> QED BY <1>9, <1>10, <1>n
<1>12. On(cl, s.next, {}, y, from)
  BY <1>8, <1>9
<1> HIDE DEF y, Y
<1> QED BY <1>2, <1>u, <1>11, <1>12 DEF Ends, u

\* The end of the stream is followed to the end marker.
LEMMA GoodEnd ==
    ASSUME NEW cl, NEW e, NEW from, NEW d, NEW b, b = [d EXCEPT !.out = <<>>],
           NEW live, Good(cl, e, from, b, live), NEW d2, d2 = DecodeEnd(d),
           NEW x, x = EncodeEvents(cl, e, d2.out)
    PROVE  Payloads(x.out) /\ ReadAll(from, x.out).ok
<1>1. PICK y, stop : Ends(cl, e, from, b, d2, y, stop)
  BY LastEvents
<1> QED BY <1>1, HearsEnd DEF Ends, Good

-----------------------------------------------------------------------------
(* The stream.                                                                *)

\* What the upstream has said and the proxy has not looked at.
Ahead == buf \o wire
Data(A, k) == k \in DOMAIN A /\ A[k].line = "data"

\* The lines are data and blank in turn; what a frame closes has been closed, and no
\* later frame is about it.
InTurn(A, parts) ==
    /\ IsSeq(A)
    /\ \A k \in DOMAIN A : DOMAIN A[k] = {"f", "line"} /\ A[k].line = IF k % 2 = 1 THEN "data" ELSE "blank"
    /\ \A k \in DOMAIN A : Data(A, k) => Frame(A[k].f)
    /\ \A k \in DOMAIN A, n \in Nat : Data(A, k) /\ IsClose(A[k].f, n) => n \in DOMAIN parts /\ ~parts[n].open
    /\ \A j, k \in DOMAIN A, n \in Nat :
          j < k /\ Data(A, j) /\ Data(A, k) /\ IsClose(A[j].f, n) => ~About(A[k].f, n)

\* The parts the proxy may still hear of.
Living(A, parts) ==
    { n \in Nat : \/ \E k \in DOMAIN A : Data(A, k) /\ About(A[k].f, n)
                  \/ n \notin DOMAIN parts \/ parts[n].open }

\* What the upstream has said is well formed.
APart(p) == DOMAIN p = {"kind", "x", "open"} /\ p.kind \in Kinds /\ p.open \in BOOLEAN
Parted(parts) == IsSeq(parts) /\ \A n \in DOMAIN parts : APart(parts[n])
Talks(t) == DOMAIN t = {"phase", "parts", "pieces", "stop", "usage"} /\ Parted(t.parts)

WireInv ==
    /\ Talks(talk) /\ IsSeq(buf) /\ IsSeq(wire)
    /\ ~PassThrough /\ ~hung =>
          InTurn(Ahead, talk.parts) /\ (end = "open" => Len(Ahead) % 2 = 0)

\* Client c follows decoder d through encoder e.
Bare(d) == [d EXCEPT !.out = <<>>]
Hearer(cl, d, e, c, live) ==
    /\ cl \in Formats /\ Tracks(Bare(d), live)
    /\ Hears(cl, d.next, ToSet(d.open), e, c) /\ e.started = d.started

\* The client reads what it has and what is on its way to it without a fault; until the
\* stream's end it follows the decoder.
Reads == ReadAll(Client(conn.cl), got \o pending)

StreamInv ==
    /\ conn \in Conns
    /\ Payloads(got) /\ Payloads(pending) /\ Reads.ok
    /\ hung \/ PassThrough => pending = <<>>
    /\ finalized => done
    /\ ~hung /\ ~PassThrough /\ ~finalized => Hearer(conn.cl, dec, enc, Reads, Living(Ahead, talk.parts))

\* Frame g is what arrives of frame f: all of it, the text garbled, or nothing that is JSON;
\* lines B are what arrives of the first of A.
Alike(f, g) == g = f \/ g = [t |-> "junk"] \/ ("x" \in DOMAIN f /\ \E x : g = [f EXCEPT !.x = x])
Like(A, B) ==
    /\ IsSeq(B) /\ DOMAIN B \subseteq DOMAIN A
    /\ \A k \in DOMAIN B : DOMAIN B[k] = {"f", "line"} /\ B[k].line = A[k].line /\ Alike(A[k].f, B[k].f)

\* Nothing new is said.
LEMMA AlikeSays ==
    ASSUME NEW f, Frame(f), NEW g, Alike(f, g)
    PROVE  Frame(g) /\ \A n : (About(g, n) => About(f, n)) /\ (IsClose(g, n) => IsClose(f, n))
<1>1. CASE g = f
  BY <1>1
<1>2. CASE g = [t |-> "junk"]
  BY <1>2 DEF Frame, About, IsClose
<1>3. ASSUME "x" \in DOMAIN f, NEW x, g = [f EXCEPT !.x = x]
      PROVE  Frame(g) /\ \A n : (About(g, n) => About(f, n)) /\ (IsClose(g, n) => IsClose(f, n))
  <2>1. /\ DOMAIN g = DOMAIN f /\ g.t = f.t
        /\ "index" \in DOMAIN f => g.index = f.index
        /\ "key" \in DOMAIN f => g.key = f.key
        /\ "kind" \in DOMAIN f => g.kind = f.kind
        /\ "calls" \in DOMAIN f => g.calls = f.calls
    BY <1>3 DEF Frame
  <2>2. Frame(g)
    BY <2>1 DEF Frame
  <2>3. ASSUME NEW n PROVE (About(g, n) => About(f, n)) /\ (IsClose(g, n) => IsClose(f, n))
    <3>1. About(g, n) => About(f, n)
      BY <2>1 DEF Frame, About
    <3> QED BY <2>1, <3>1 DEF IsClose
  <2> QED BY <2>2, <2>3
<1> QED BY <1>1, <1>2, <1>3 DEF Alike

\* What is like lines in turn is in turn, and keeps nothing else alive.
LEMMA InTurnLike ==
    ASSUME NEW A, NEW parts, InTurn(A, parts), NEW B, Like(A, B)
    PROVE  InTurn(B, parts) /\ Living(B, parts) \subseteq Living(A, parts)
<1>1. \A k \in DOMAIN B : Data(B, k) => Data(A, k)
  BY DEF Like, Data
<1>2. ASSUME NEW k \in DOMAIN B, Data(B, k)
      PROVE  /\ Frame(B[k].f)
             /\ \A n : (About(B[k].f, n) => About(A[k].f, n)) /\ (IsClose(B[k].f, n) => IsClose(A[k].f, n))
  <2>1. Frame(A[k].f) /\ Alike(A[k].f, B[k].f)
    BY <1>1, <1>2 DEF Like, InTurn
  <2> QED BY <2>1, AlikeSays
<1>3. InTurn(B, parts)
  <2>1. /\ IsSeq(B)
        /\ \A k \in DOMAIN B : DOMAIN B[k] = {"f", "line"}
                               /\ B[k].line = IF k % 2 = 1 THEN "data" ELSE "blank"
    BY DEF Like, InTurn
  <2>2. \A k \in DOMAIN B, n \in Nat : Data(B, k) /\ IsClose(B[k].f, n) => n \in DOMAIN parts /\ ~parts[n].open
    BY <1>1, <1>2 DEF Like, InTurn
  <2>3. \A j, k \in DOMAIN B, n \in Nat :
          j < k /\ Data(B, j) /\ Data(B, k) /\ IsClose(B[j].f, n) => ~About(B[k].f, n)
    BY <1>1, <1>2 DEF Like, InTurn
  <2> QED BY <1>2, <2>1, <2>2, <2>3 DEF InTurn
<1>4. Living(B, parts) \subseteq Living(A, parts)
  BY <1>1, <1>2 DEF Living, Like, Data
<1> QED BY <1>3, <1>4

\* The first frame is taken out.
LEMMA InTurnTake ==
    ASSUME NEW A, NEW parts, InTurn(A, parts), A # <<>>, NEW B, B = SubSeq(A, 3, Len(A))
    PROVE  InTurn(B, parts) /\ Speaks(A[1].f, Living(A, parts), Living(B, parts))
<1>1. /\ IsSeq(A) /\ Len(A) \in Nat /\ Len(A) >= 1 /\ DOMAIN A = 1 .. Len(A) /\ 1 \in DOMAIN A
  BY DEF InTurn, IsSeq
<1>2. /\ IsSeq(B) /\ DOMAIN B = 1 .. Len(B) /\ Len(B) \in Nat
      /\ \A k \in DOMAIN B : k + 2 \in DOMAIN A /\ B[k] = A[k + 2] /\ k \in Nat
  <2> DEFINE S == { A[k] : k \in DOMAIN A }
  <2>1. A \in Seq(S)
    BY <1>1 DEF IsSeq
  <2> HIDE DEF S
  <2>2. /\ B \in Seq(S) /\ Len(B) = IF 3 <= Len(A) THEN Len(A) - 2 ELSE 0
        /\ \A k \in 1 .. Len(B) : B[k] = A[k + 2]
    BY <2>1, <1>1
  <2>3. IsSeq(B)
    BY <2>2, SeqIsSeq
  <2>4. DOMAIN B = 1 .. Len(B) /\ Len(B) \in Nat
    BY <2>2
  <2>5. \A k \in 1 .. Len(B) : k + 2 \in 1 .. Len(A) /\ k \in Nat
    BY <2>2, <1>1
  <2> QED BY <1>1, <2>2, <2>3, <2>4, <2>5
<1>3. Data(A, 1)
  BY <1>1 DEF Data, InTurn
<1>4. \A k \in DOMAIN B : (Data(B, k) <=> Data(A, k + 2)) /\ 1 < k + 2
  BY <1>1, <1>2 DEF Data
<1>5. InTurn(B, parts)
  <2>1. ASSUME NEW k \in DOMAIN B
        PROVE  DOMAIN B[k] = {"f", "line"} /\ B[k].line = IF k % 2 = 1 THEN "data" ELSE "blank"
    <3>1. (k + 2) % 2 = k % 2
      BY <1>2
    <3> QED BY <1>2, <3>1 DEF InTurn
  <2>2. \A k \in DOMAIN B : Data(B, k) => Frame(B[k].f)
    BY <1>2, <1>4 DEF InTurn
  <2>3. \A k \in DOMAIN B, n \in Nat : Data(B, k) /\ IsClose(B[k].f, n) => n \in DOMAIN parts /\ ~parts[n].open
    BY <1>2, <1>4 DEF InTurn
  <2>4. \A j, k \in DOMAIN B, n \in Nat :
          j < k /\ Data(B, j) /\ Data(B, k) /\ IsClose(B[j].f, n) => ~About(B[k].f, n)
    <3> SUFFICES ASSUME NEW j \in DOMAIN B, NEW k \in DOMAIN B, NEW n \in Nat,
                        j < k, Data(B, j), Data(B, k), IsClose(B[j].f, n)
                 PROVE  ~About(B[k].f, n)
      OBVIOUS
    <3>1. j + 2 < k + 2 /\ j + 2 \in DOMAIN A /\ k + 2 \in DOMAIN A
      BY <1>2
    <3> QED BY <3>1, <1>2, <1>4 DEF InTurn
  <2> QED BY <1>2, <2>1, <2>2, <2>3, <2>4 DEF InTurn
<1>6. Speaks(A[1].f, Living(A, parts), Living(B, parts))
  <2>1. Frame(A[1].f)
    BY <1>1, <1>3 DEF InTurn
  <2>2. Living(B, parts) \subseteq Living(A, parts)
    BY <1>2, <1>4 DEF Living
  <2>3. ASSUME NEW n, About(A[1].f, n) PROVE n \in Living(A, parts)
    <3>1. n \in Nat
      <4>1. CASE A[1].f.t \in {"content_block_start", "content_block_delta", "content_block_stop"}
        BY <2>1, <2>3, <4>1 DEF Frame, About
      <4>2. CASE A[1].f.t \in {"item_added", "arguments_delta", "item_done"}
        BY <2>1, <2>3, <4>2 DEF Frame, About
      <4>3. CASE A[1].f.t = "chunk"
        <5>1. PICK k \in DOMAIN A[1].f.calls : A[1].f.calls[k].index = n
          BY <2>3, <4>3 DEF About
        <5>2. A[1].f.calls = << A[1].f.calls[1] >> /\ A[1].f.calls[1].index \in Nat
          BY <2>1, <4>3, <5>1 DEF Frame, Calls1
        <5>3. k = 1
          <6> DEFINE c == A[1].f.calls[1]
                     s == A[1].f.calls
          <6>1. s = << c >> /\ k \in DOMAIN s
            BY <5>2
          <6> HIDE DEF s, c
          <6>2. DOMAIN s = {1}
            BY <6>1
          <6> QED BY <6>1, <6>2
        <5> QED BY <5>1, <5>2, <5>3
      <4> QED BY <2>3, <4>1, <4>2, <4>3 DEF About
    <3> QED BY <1>1, <1>3, <2>3, <3>1 DEF Living
  <2>4. ASSUME NEW n \in Living(B, parts) PROVE ~IsClose(A[1].f, n)
    <3> SUFFICES ASSUME IsClose(A[1].f, n) PROVE FALSE
      OBVIOUS
    <3>1. n \in Nat /\ n \in DOMAIN parts /\ ~parts[n].open
      BY <1>1, <1>3 DEF Living, InTurn
    <3>2. PICK k \in DOMAIN B : Data(B, k) /\ About(B[k].f, n)
      BY <3>1 DEF Living
    <3>3. k + 2 \in DOMAIN A /\ 1 < k + 2 /\ Data(A, k + 2) /\ About(A[k + 2].f, n)
      BY <1>2, <1>4, <3>2
    <3> QED BY <1>1, <1>3, <3>1, <3>3 DEF InTurn
  <2> QED BY <2>1, <2>2, <2>3, <2>4 DEF Speaks
<1> QED BY <1>5, <1>6

\* Frames the upstream may send: about parts that are not closed, a close last.
Sends(frames, parts, parts2) ==
    /\ IsSeq(frames)
    /\ \A n \in DOMAIN parts : n \in DOMAIN parts2 /\ (parts2[n].open => parts[n].open)
    /\ \A k \in DOMAIN frames :
          /\ Frame(frames[k])
          /\ \A n \in Nat : About(frames[k], n) => n \notin DOMAIN parts \/ parts[n].open
          /\ \A n \in Nat : IsClose(frames[k], n) => n \in DOMAIN parts2 /\ ~parts2[n].open
    /\ \A j, k \in DOMAIN frames, n \in Nat : j < k /\ IsClose(frames[j], n) => ~About(frames[k], n)

\* They come in turn behind what is on its way.
LEMMA InTurnSend ==
    ASSUME NEW A, NEW parts, InTurn(A, parts), Len(A) % 2 = 0,
           NEW frames, NEW parts2, Sends(frames, parts, parts2), NEW B, B = A \o Lines(frames)
    PROVE  InTurn(B, parts2) /\ Len(B) % 2 = 0 /\ Living(B, parts2) \subseteq Living(A, parts)
<1> DEFINE L == Lines(frames)
           N == Len(A)
           M == Len(frames)
           place(k) == (k - N + 1) \div 2
<1>1. /\ IsSeq(A) /\ N \in Nat /\ DOMAIN A = 1 .. N /\ N % 2 = 0 /\ Len(A) = N
      /\ IsSeq(frames) /\ M \in Nat /\ DOMAIN frames = 1 .. M
  BY DEF InTurn, Sends, IsSeq
<1>2. /\ IsSeq(L) /\ Len(L) = 2 * M
      /\ \A k \in 1 .. 2 * M : /\ L[k].f = frames[(k + 1) \div 2] /\ DOMAIN L[k] = {"f", "line"}
                               /\ L[k].line = IF k % 2 = 1 THEN "data" ELSE "blank"
  <2> DEFINE g(k) == [f |-> frames[(k + 1) \div 2], line |-> IF k % 2 = 1 THEN "data" ELSE "blank"]
  <2>1. L = [k \in 1 .. 2 * M |-> g(k)]
    BY DEF Lines
  <2>2. \A k : /\ g(k).f = frames[(k + 1) \div 2] /\ DOMAIN g(k) = {"f", "line"}
               /\ g(k).line = IF k % 2 = 1 THEN "data" ELSE "blank"
    OBVIOUS
  <2> HIDE DEF g, L
  <2>3. 2 * M \in Nat
    BY <1>1
  <2>4. L \in Seq({ g(k) : k \in 1 .. 2 * M }) /\ Len(L) = 2 * M
    BY <2>1, <2>3
  <2>5. IsSeq(L)
    BY <2>4, SeqIsSeq
  <2> QED BY <2>1, <2>2, <2>4, <2>5
<1> HIDE DEF L, N, M, place
<1>3. /\ IsSeq(B) /\ Len(B) = N + 2 * M /\ DOMAIN B = 1 .. N + 2 * M
      /\ \A k \in 1 .. N : B[k] = A[k]
      /\ \A k \in N + 1 .. N + 2 * M : B[k] = L[k - N]
  <2> DEFINE S == { A[k] : k \in DOMAIN A } \cup { L[k] : k \in DOMAIN L }
  <2>0. B = A \o L
    BY DEF L
  <2>1. A \in Seq(S) /\ L \in Seq(S)
    BY <1>1, <1>2 DEF IsSeq
  <2> HIDE DEF S
  <2>2. /\ B \in Seq(S) /\ Len(B) = Len(A) + Len(L)
        /\ \A k \in 1 .. Len(A) + Len(L) : B[k] = IF k <= Len(A) THEN A[k] ELSE L[k - Len(A)]
    BY SMTT(20), <2>0, <2>1, ConcatProperties
  <2>3. Len(B) = N + 2 * M /\ \A k \in 1 .. N + 2 * M : B[k] = IF k <= N THEN A[k] ELSE L[k - N]
    BY <2>2, <1>1, <1>2
  <2>4. IsSeq(B)
    BY <2>2, SeqIsSeq
  <2>5. DOMAIN B = 1 .. N + 2 * M
    BY <2>2, <2>3, LenProperties
  <2>6. \A k \in 1 .. N : k \in 1 .. N + 2 * M /\ k <= N
    BY <1>1
  <2>7. \A k \in N + 1 .. N + 2 * M : k \in 1 .. N + 2 * M /\ ~(k <= N)
    BY <1>1
  <2> QED BY <2>3, <2>4, <2>5, <2>6, <2>7
<1>4. PICK h \in Int : N = 2 * h
  <2>1. N = 2 * (N \div 2) /\ N \div 2 \in Int
    BY <1>1
  <2> QED BY <2>1
<1>5. ASSUME NEW k \in N + 1 .. N + 2 * M
      PROVE  /\ place(k) \in 1 .. M /\ k - N \in 1 .. 2 * M /\ (k - N) % 2 = k % 2
             /\ \A j \in N + 1 .. N + 2 * M : j < k /\ j % 2 = 1 /\ k % 2 = 1 => place(j) < place(k)
  <2>1. k - N \in 1 .. 2 * M
    BY <1>1
  <2>2. (k - N) % 2 = k % 2
    BY <1>1, <1>4
  <2>3. place(k) \in 1 .. M
    BY <1>1, <2>1 DEF place
  <2>4. ASSUME NEW j \in N + 1 .. N + 2 * M, j < k, j % 2 = 1, k % 2 = 1 PROVE place(j) < place(k)
    <3>1. /\ j \in Int /\ k \in Int /\ k - j >= 2
      BY <1>1, <2>4
    <3> QED BY <1>1, <3>1 DEF place
  <2> QED BY <2>1, <2>2, <2>3, <2>4
<1>6. ASSUME NEW k \in N + 1 .. N + 2 * M
      PROVE  /\ B[k].f = frames[place(k)] /\ place(k) \in DOMAIN frames
             /\ DOMAIN B[k] = {"f", "line"} /\ B[k].line = IF k % 2 = 1 THEN "data" ELSE "blank"
  <2>1. B[k] = L[k - N]
    BY <1>3
  <2> QED BY <1>1, <1>2, <1>5, <2>1 DEF place
<1>7. \A k \in 1 .. N : k \in DOMAIN A /\ B[k] = A[k] /\ (Data(B, k) <=> Data(A, k))
  BY <1>1, <1>3 DEF Data
<1>8. \A k \in DOMAIN B : k \in Int /\ (k \in 1 .. N \/ k \in N + 1 .. N + 2 * M)
  BY <1>1, <1>3
<1>9. InTurn(B, parts2)
  <2>1. ASSUME NEW k \in DOMAIN B
        PROVE  DOMAIN B[k] = {"f", "line"} /\ B[k].line = IF k % 2 = 1 THEN "data" ELSE "blank"
    BY <1>6, <1>7, <1>8 DEF InTurn
  <2>2. \A k \in DOMAIN B : Data(B, k) => Frame(B[k].f)
    BY SMTT(20), <1>6, <1>7, <1>8 DEF InTurn, Sends
  <2>3. ASSUME NEW k \in DOMAIN B, NEW n \in Nat, Data(B, k), IsClose(B[k].f, n)
        PROVE  n \in DOMAIN parts2 /\ ~parts2[n].open
    <3>1. CASE k \in 1 .. N
      <4>1. n \in DOMAIN parts /\ ~parts[n].open
        BY <1>7, <2>3, <3>1 DEF InTurn
      <4> QED BY <4>1 DEF Sends
    <3>2. CASE k \in N + 1 .. N + 2 * M
      BY <1>6, <2>3, <3>2 DEF Sends
    <3> QED BY <1>8, <3>1, <3>2
  <2>4. ASSUME NEW j \in DOMAIN B, NEW k \in DOMAIN B, NEW n \in Nat,
               j < k, Data(B, j), Data(B, k), IsClose(B[j].f, n)
        PROVE  ~About(B[k].f, n)
    <3>1. CASE j \in 1 .. N /\ k \in 1 .. N
      BY <1>7, <2>4, <3>1 DEF InTurn
    <3>2. CASE j \in 1 .. N /\ k \in N + 1 .. N + 2 * M
      <4>1. n \in DOMAIN parts /\ ~parts[n].open
        BY <1>7, <2>4, <3>2 DEF InTurn
      <4>2. B[k].f = frames[place(k)] /\ place(k) \in DOMAIN frames
        BY <1>6, <3>2
      <4> QED BY <4>1, <4>2 DEF Sends
    <3>3. CASE j \in N + 1 .. N + 2 * M /\ k \in N + 1 .. N + 2 * M
      <4>1. j % 2 = 1 /\ k % 2 = 1
        BY <2>1, <2>4 DEF Data
      <4>2. place(j) < place(k)
        BY <1>5, <2>4, <3>3, <4>1
      <4>3. /\ B[j].f = frames[place(j)] /\ place(j) \in DOMAIN frames
            /\ B[k].f = frames[place(k)] /\ place(k) \in DOMAIN frames
        BY <1>6, <3>3
      <4> QED BY <2>4, <4>2, <4>3 DEF Sends
    <3>4. CASE j \in N + 1 .. N + 2 * M /\ k \in 1 .. N
      BY <1>1, <2>4, <3>4
    <3> QED BY <1>8, <3>1, <3>2, <3>3, <3>4
  <2> QED BY <1>3, <2>1, <2>2, <2>3, <2>4 DEF InTurn
<1>10. Len(B) % 2 = 0
  BY <1>1, <1>3, <1>4
<1>11. Living(B, parts2) \subseteq Living(A, parts)
  <2> SUFFICES ASSUME NEW n \in Nat, n \in Living(B, parts2), n \in DOMAIN parts, ~parts[n].open
               PROVE  \E k \in DOMAIN A : Data(A, k) /\ About(A[k].f, n)
    BY DEF Living
  <2>1. n \in DOMAIN parts2 /\ ~parts2[n].open
    BY DEF Sends
  <2>2. PICK k \in DOMAIN B : Data(B, k) /\ About(B[k].f, n)
    BY <2>1 DEF Living
  <2>3. k \notin N + 1 .. N + 2 * M
    BY <1>6, <2>2 DEF Sends
  <2> QED BY <1>7, <1>8, <2>2, <2>3
<1> QED BY <1>9, <1>10, <1>11

-----------------------------------------------------------------------------
(* A fault stays, and so does the end.                                        *)

IsClient(c) == DOMAIN c = ClientFields
Stays(c, d) == IsClient(c) => IsClient(d) /\ (~c.ok => ~d.ok) /\ (c.ended => d.ended)

\* After a block opened,
LEMMA StaysOpened == ASSUME NEW c, NEW i, NEW kind, NEW d, Opens(c, i, kind, d) PROVE Stays(c, d)
<1> DEFINE f == c.started /\ ~c.ended /\ \A n \in DOMAIN c.blocks : c.blocks[n].i # i
           o == c.open \cup {i}
           b == Append(c.blocks, [i |-> i, kind |-> kind, x |-> <<>>])
<1>1. d = [c EXCEPT !.ok = @ /\ f, !.open = o, !.blocks = b]
  BY DEF Opens, Opened
<1> HIDE DEF f, o, b
<1> QED BY <1>1 DEF Stays, IsClient, ClientFields

\* after text,
LEMMA StaysTold == ASSUME NEW c, NEW i, NEW x, NEW d, Tells(c, i, x, d) PROVE Stays(c, d)
<1> DEFINE n == SelectInSeq(c.blocks, LAMBDA b : b.i = i)
           s == [c.blocks EXCEPT ![n].x = @ \o x]
           f == i \in c.open
<1>1. d = IF n = 0 \/ c.ended THEN [c EXCEPT !.ok = FALSE] ELSE [c EXCEPT !.ok = @ /\ f, !.blocks = s]
  BY DEF Tells, Told
<1> HIDE DEF n, s, f
<1>2. CASE n = 0 \/ c.ended
  BY <1>1, <1>2 DEF Stays, IsClient, ClientFields
<1>3. CASE ~(n = 0 \/ c.ended)
  BY <1>1, <1>3 DEF Stays, IsClient, ClientFields
<1> QED BY <1>2, <1>3

\* after a block closed,
LEMMA StaysClosed == ASSUME NEW c, NEW i, NEW d, Closes(c, i, d) PROVE Stays(c, d)
BY DEF Closes, Closed, Stays, IsClient, ClientFields

\* The same, and one thing more has to be right.
Checks(c, f, d) == d = [c EXCEPT !.ok = @ /\ f]

\* after a check,
LEMMA StaysChecked == ASSUME NEW c, NEW f, NEW d, Checks(c, f, d) PROVE Stays(c, d)
BY DEF Checks, Stays, IsClient, ClientFields

\* after any payload.
LEMMA FaultStays == ASSUME NEW c, NEW p, p.t \in Tags, NEW d, d = Receive(c, p) PROVE Stays(c, d)
<1> USE DEF Receive, Starts, Lasts, After
<1>1. CASE p.t \in Starts
  <2> HIDE DEF Receive, Starts, Lasts, After
  <2>1. BeginsOn(c, d)
    BY <1>1, Receives
  <2> QED BY <2>1 DEF BeginsOn, Stays, IsClient, ClientFields
<1>2. CASE p.t \in Lasts
  <2> DEFINE f == c.started /\ ~c.ended /\ (c.format # "openai" => c.open = {})
  <2>1. d = [c EXCEPT !.ok = @ /\ f, !.ended = TRUE]
    <3>1. CASE p.t = "message_delta"
      BY <3>1
    <3>2. CASE p.t = "last"
      BY <3>2
    <3>3. CASE p.t = "completed"
      BY SMTT(20), <3>3
    <3> QED BY <1>2, <3>1, <3>2, <3>3
  <2> HIDE DEF f
  <2> QED BY <2>1 DEF Stays, IsClient, ClientFields
<1>3. CASE p.t \in After
  <2>1. Checks(c, c.ended, d)
    <3>1. CASE p.t = "message_stop"
      BY <3>1 DEF Checks
    <3>2. CASE p.t = "done"
      BY SMTT(20), <3>2 DEF Checks
    <3> QED BY <1>3, <3>1, <3>2
  <2> QED BY <2>1, StaysChecked
<1>4. CASE p.t = "block_start"
  <2>1. Opens(c, p.i, p.kind, d)
    BY <1>4 DEF Opens
  <2> QED BY <2>1, StaysOpened
<1>5. CASE p.t = "item_added"
  <2>1. Opens(c, p.n, p.kind, d)
    BY <1>5 DEF Opens
  <2> QED BY <2>1, StaysOpened
<1>6. CASE p.t = "item_delta"
  <2>1. Tells(c, p.n, p.x, d)
    BY <1>6 DEF Tells
  <2> QED BY <2>1, StaysTold
<1>7. CASE p.t = "block_stop"
  <2>1. Closes(c, p.i, d)
    BY <1>7 DEF Closes
  <2> QED BY <2>1, StaysClosed
<1>8. CASE p.t = "block_delta"
  <2> DEFINE n == SelectInSeq(c.blocks, LAMBDA b : b.i = p.i)
             told == Told(c, p.i, p.x)
             f == c.blocks[n].kind = p.kind
  <2>1. d = IF n = 0 THEN told ELSE [told EXCEPT !.ok = @ /\ f]
    BY <1>8
  <2>2. Tells(c, p.i, p.x, told)
    BY DEF Tells
  <2> HIDE DEF n, told, f
  <2>3. Stays(c, told)
    BY <2>2, StaysTold
  <2>4. d = told \/ Checks(told, f, d)
    BY ZenonT(40), <2>1 DEF Checks
  <2>5. Stays(told, d) \/ d = told
    BY Zenon, <2>4, StaysChecked
  <2> QED BY Zenon, <2>3, <2>5 DEF Stays
<1>9. CASE p.t = "item_done"
  <2> DEFINE n == SelectInSeq(c.blocks, LAMBDA b : b.i = p.item.n)
             closed == Closed(c, p.item.n)
             f == c.blocks[n].x = p.item.x
  <2>1. d = IF n = 0 THEN closed ELSE [closed EXCEPT !.ok = @ /\ f]
    BY <1>9
  <2>2. Closes(c, p.item.n, closed)
    BY DEF Closes
  <2> HIDE DEF n, closed, f
  <2>3. Stays(c, closed)
    BY SMTT(20), <2>2, StaysClosed
  <2>4. d = closed \/ Checks(closed, f, d)
    BY ZenonT(60), <2>1 DEF Checks
  <2>5. Stays(closed, d) \/ d = closed
    BY <2>4, StaysChecked
  <2> QED BY <2>3, <2>5 DEF Stays
<1>10. CASE p.t = "call"
  <2> DEFINE i == << "tool", p.n >>
  <2>1. d = IF p.new THEN Opened(c, i, "tool") ELSE Told(c, i, p.x)
    BY <1>10
  <2> HIDE DEF i
  <2>2. Opens(c, i, "tool", d) \/ Tells(c, i, p.x, d)
    BY <2>1 DEF Opens, Tells
  <2> QED BY <2>2, StaysOpened, StaysTold
<1>11. CASE p.t = "say"
  <2> DEFINE i == << p.kind, 0 >>
             has == \E n \in DOMAIN c.blocks : c.blocks[n].kind = p.kind
             o == Opened(c, i, p.kind)
             b == IF has THEN c ELSE o
  <2>1. d = Told(b, i, p.x)
    BY <1>11 DEF Spoken
  <2>2. Opens(c, i, p.kind, o) /\ (b = c \/ b = o)
    BY DEF Opens
  <2> HIDE DEF i, o, b
  <2>3. Tells(b, i, p.x, d)
    BY <2>1 DEF Tells
  <2>4. Stays(c, o) /\ Stays(b, d)
    BY <2>2, <2>3, StaysOpened, StaysTold
  <2> QED BY <2>2, <2>4 DEF Stays
<1> HIDE DEF Receive, Starts, Lasts, After
<1> QED BY <1>1, <1>2, <1>3, <1>4, <1>5, <1>6, <1>7, <1>8, <1>9, <1>10, <1>11 DEF Tags

\* What is read later does not mend it.
LEMMA FaultsStay ==
    ASSUME NEW c, NEW s, Payloads(s), NEW d, d = ReadAll(c, s)
    PROVE  Stays(c, d)
<1> DEFINE N == Len(s)
           P(n) == SubSeq(s, 1, n)
           S == { s[n] : n \in DOMAIN s }
           G == { n \in Nat : n <= N => Stays(c, ReadAll(c, P(n))) }
<1>1. s \in Seq(S) /\ N \in Nat /\ DOMAIN s = 1 .. N
  BY DEF Payloads, IsSeq
<1> HIDE DEF S
<1>2. 0 \in G
  <2>1. P(0) = <<>>
    BY <1>1
  <2>2. ReadAll(c, P(0)) = c
    BY <2>1, ReadsNothing
  <2> HIDE DEF P
  <2> QED BY <2>2 DEF Stays
<1>3. ASSUME NEW n \in Nat, n \in G PROVE n + 1 \in G
  <2> SUFFICES ASSUME n + 1 <= N PROVE Stays(c, ReadAll(c, P(n + 1)))
    OBVIOUS
  <2>1. n <= N /\ n + 1 \in DOMAIN s
    BY <1>1
  <2>2. P(n + 1) = Append(P(n), s[n + 1]) /\ P(n) \in Seq(S)
    BY <1>1, <2>1
  <2>3. IsSeq(P(n))
    BY <2>2, SeqIsSeq
  <2>4. s[n + 1].t \in Tags
    BY <2>1 DEF Payloads
  <2>5. Stays(c, ReadAll(c, P(n)))
    BY <1>3, <2>1
  <2> HIDE DEF P
  <2>6. ReadAll(c, P(n + 1)) = Receive(ReadAll(c, P(n)), s[n + 1])
    <3> DEFINE t == P(n)
               q == s[n + 1]
    <3> HIDE DEF t, q
    <3>1. ReadAll(c, Append(t, q)) = Receive(ReadAll(c, t), q)
      BY <2>3, ReadsOneMore DEF t
    <3> QED BY <2>2, <3>1 DEF t, q
  <2>7. Stays(ReadAll(c, P(n)), ReadAll(c, P(n + 1)))
    BY <2>4, <2>6, FaultStays
  <2> QED BY <2>5, <2>7 DEF Stays
<1>4. N \in G
  <2> HIDE DEF G
  <2> QED BY <1>1, <1>2, <1>3, InductionOnNat
<1>5. P(N) = s
  BY <1>1
<1> HIDE DEF P
<1> QED BY <1>1, <1>4, <1>5

-----------------------------------------------------------------------------
(* A frame, for the client.                                                   *)

\* A client that follows follows what fewer parts may still speak of.
LEMMA HearerLess ==
    ASSUME NEW cl, NEW d, NEW e, NEW c, NEW live, Hearer(cl, d, e, c, live), NEW less \in SUBSET live
    PROVE  Hearer(cl, d, e, c, less)
BY DEF Hearer, Tracks

\* Between two frames nothing is on its way.
LEMMA HearerIsGood ==
    ASSUME NEW cl, NEW d, NEW e, NEW from, NEW live, Hearer(cl, d, e, from, live)
    PROVE  Good(cl, e, from, Bare(d), live)
<1> DEFINE b == Bare(d)
           z == [e EXCEPT !.out = <<>>]
           open == ToSet(d.open)
<1>1. /\ cl \in Formats /\ Tracks(b, live) /\ Hears(cl, d.next, open, e, from) /\ e.started = d.started
  BY DEF Hearer
<1>2. b.out = <<>> /\ b.next = d.next /\ b.open = d.open /\ b.started = d.started
  BY <1>1 DEF Bare, Tracks, DecoderFields
<1>3. /\ DOMAIN z = EncoderFields /\ z.out = <<>> /\ z.started = e.started /\ z.kinds = e.kinds
      /\ z.tools = e.tools /\ z.open = e.open /\ z.nextOutput = e.nextOutput
  BY <1>1 DEF Hears, Writer, EncoderFields
<1>4. EncodeEvents(cl, e, <<>>) = z
  <2>1. Emptied(e, z)
    BY DEF Emptied
  <2> HIDE DEF z
  <2> QED BY <1>1, <2>1, EncodesOneByOne
<1> HIDE DEF z, b, open
<1>5. Writer(z)
  <2>1. e.started \in BOOLEAN
    BY <1>1 DEF Hears, Writer
  <2>2. Payloads(z.out)
    BY <1>3 DEF Payloads, IsSeq
  <2> QED BY <1>3, <2>1, <2>2 DEF Writer
<1>6. Hears(cl, d.next, open, z, from)
  <2>1. cl = "anthropic" => HearsAnthropic(d.next, open, z, from)
    BY <1>1, <1>3 DEF Hears, HearsAnthropic
  <2>2. cl = "openai" => HearsOpenAI(d.next, z, from)
    BY <1>1, <1>3 DEF Hears, HearsOpenAI
  <2>3. cl = "responses" => HearsResponses(open, z, from)
    BY <1>1, <1>3 DEF Hears, HearsResponses
  <2> QED BY <1>1, <1>3, <1>5, <2>1, <2>2, <2>3 DEF Hears
<1>7. ReadAll(from, z.out) = from
  BY <1>3, ReadsNothing
<1>8. Follows(cl, e, from, b)
  BY <1>1, <1>2, <1>3, <1>4, <1>6, <1>7 DEF Follows, Hearing, open
<1> QED BY <1>1, <1>8 DEF Good, b

\* A frame decoded, encoded and read.
LEMMA HearerFrame ==
    ASSUME NEW cl, NEW d, NEW e, NEW from, NEW live, Hearer(cl, d, e, from, live),
           NEW up \in Formats, NEW f, NEW less, Speaks(f, live, less),
           NEW d2, d2 = DecodeFrame(up, d, f), NEW e2, e2 = EncodeEvents(cl, e, d2.out)
    PROVE  Payloads(e2.out) /\ Hearer(cl, d2, e2, ReadAll(from, e2.out), less)
<1>1. Good(cl, e, from, Bare(d), live)
  BY HearerIsGood
<1>2. Good(cl, e, from, d2, less)
  BY <1>1, GoodFrame DEF Bare
<1>3. Tracks(Bare(d2), less)
  <2> DEFINE b == Bare(d2)
  <2>1. /\ DOMAIN b = DOMAIN d2 /\ b.out = <<>> /\ b.started = d2.started /\ b.next = d2.next
        /\ b.open = d2.open /\ b.keys = d2.keys /\ b.finished = d2.finished
        /\ b.text = d2.text /\ b.reasoning = d2.reasoning
    BY <1>2 DEF Bare, Good, Tracks, DecoderFields
  <2>2. IsSeq(<<>>)
    BY DEF IsSeq
  <2> HIDE DEF b
  <2>3. Tracks(b, less)
    BY <1>2, <2>1, <2>2 DEF Good, Tracks
  <2> QED BY <2>3 DEF b
<1>4. Hears(cl, d2.next, ToSet(d2.open), e2, ReadAll(from, e2.out)) /\ e2.started = d2.started
  BY <1>2 DEF Good, Follows, Hearing
<1>5. Payloads(e2.out) /\ cl \in Formats
  BY <1>2, <1>4 DEF Hears, Writer, Good
<1> QED BY <1>3, <1>4, <1>5 DEF Hearer

\* The end.
LEMMA HearerEnd ==
    ASSUME NEW cl, NEW d, NEW e, NEW from, NEW live, Hearer(cl, d, e, from, live),
           NEW d2, d2 = DecodeEnd(d), NEW x, x = EncodeEvents(cl, e, d2.out)
    PROVE  Payloads(x.out) /\ ReadAll(from, x.out).ok
<1>1. Good(cl, e, from, Bare(d), live)
  BY HearerIsGood
<1> QED BY <1>1, GoodEnd DEF Bare

\* What a client has read of two sequences.
LEMMA PayloadsConcat ==
    ASSUME NEW s, Payloads(s), NEW t, Payloads(t)
    PROVE  /\ Payloads(s \o t)
           /\ \A c : ReadAll(c, s \o t) = ReadAll(ReadAll(c, s), t)
<1> DEFINE S == { s[n] : n \in DOMAIN s } \cup { t[n] : n \in DOMAIN t }
<1>1. s \in Seq(S) /\ t \in Seq(S) /\ \A p \in S : p.t \in Tags
  BY DEF Payloads, IsSeq
<1> HIDE DEF S
<1>2. \A c : ReadAll(c, s \o t) = ReadAll(ReadAll(c, s), t)
  BY <1>1, ReadsOn
<1>3. s \o t \in Seq(S)
  BY <1>1
<1>4. IsSeq(s \o t)
  BY <1>3, SeqIsSeq
<1>5. \A n \in DOMAIN (s \o t) : (s \o t)[n] \in S
  BY <1>3
<1> QED BY <1>1, <1>2, <1>4, <1>5 DEF Payloads

\* Nothing read, and nothing more.
LEMMA PayloadsEmpty == Payloads(<<>>) /\ \A s : Payloads(s) => s \o <<>> = s
<1>1. Payloads(<<>>)
  BY DEF Payloads, IsSeq
<1>2. ASSUME NEW s, Payloads(s) PROVE s \o <<>> = s
  <2> DEFINE S == { s[n] : n \in DOMAIN s }
  <2>1. s \in Seq(S)
    BY <1>2 DEF Payloads, IsSeq
  <2> HIDE DEF S
  <2> QED BY <2>1
<1> QED BY <1>1, <1>2

-----------------------------------------------------------------------------
(* What the upstream sends.                                                   *)

\* Frames that are about no part.
Mute(f) == Frame(f) /\ \A n : ~About(f, n)
Mutes(s) == IsSeq(s) /\ \A k \in DOMAIN s : Mute(s[k])

\* Frames about part n: none, or one.
Speaking(s, n) ==
    /\ IsSeq(s) /\ \A k \in DOMAIN s : k = 1 /\ Frame(s[k]) /\ \A m : About(s[k], m) => m = n
Opener(s, n) == Speaking(s, n) /\ \A k \in DOMAIN s, m \in Nat : ~IsClose(s[k], m)

\* Short sequences.
LEMMA SequencesOf ==
    /\ IsSeq(<<>>) /\ DOMAIN <<>> = {}
    /\ \A a : IsSeq(<< a >>) /\ DOMAIN << a >> = {1} /\ << a >>[1] = a
    /\ \A a, b : IsSeq(<< a, b >>) /\ DOMAIN << a, b >> = {1, 2}
    /\ \A a, b, c : IsSeq(<< a, b, c >>) /\ DOMAIN << a, b, c >> = {1, 2, 3}
<1>1. IsSeq(<<>>) /\ DOMAIN <<>> = {}
  BY DEF IsSeq
<1>2. ASSUME NEW a PROVE IsSeq(<< a >>) /\ DOMAIN << a >> = {1} /\ << a >>[1] = a
  <2>1. << a >> \in Seq({a}) /\ DOMAIN << a >> = {1}
    OBVIOUS
  <2> QED BY <2>1, SeqIsSeq
<1>3. ASSUME NEW a, NEW b PROVE IsSeq(<< a, b >>) /\ DOMAIN << a, b >> = {1, 2}
  <2>1. << a, b >> \in Seq({a, b}) /\ DOMAIN << a, b >> = {1, 2}
    OBVIOUS
  <2> QED BY <2>1, SeqIsSeq
<1>4. ASSUME NEW a, NEW b, NEW c PROVE IsSeq(<< a, b, c >>) /\ DOMAIN << a, b, c >> = {1, 2, 3}
  <2>1. << a, b, c >> \in Seq({a, b, c}) /\ DOMAIN << a, b, c >> = {1, 2, 3}
    OBVIOUS
  <2> QED BY <2>1, SeqIsSeq
<1> QED BY <1>1, <1>2, <1>3, <1>4

\* A chunk is about its call.
LEMMA ChunkFrames ==
    /\ \A r, c : Mute(Chunk(r, c, <<>>))
    /\ \A r, c, stop : Mute([Chunk(r, c, <<>>) EXCEPT !.finish = stop])
    /\ \A r, c, u : Mute([Chunk(r, c, <<>>) EXCEPT !.usage = u])
    /\ \A kind \in Prose : \A x : Mute(ProseChunk(kind, x))
    /\ \A n \in Nat : \A x : LET f == CallChunk(n, x)
                             IN  Frame(f) /\ \A m : (About(f, m) => m = n) /\ ~IsClose(f, m)
<1> USE DEF Frame, About, Chunk, Calls1
<1>1. \A r, c : Mute(Chunk(r, c, <<>>))
  BY DEF Mute
<1>2. \A r, c, stop : Mute([Chunk(r, c, <<>>) EXCEPT !.finish = stop])
  BY DEF Mute
<1>3. \A r, c, u : Mute([Chunk(r, c, <<>>) EXCEPT !.usage = u])
  BY DEF Mute
<1>4. \A kind \in Prose : \A x : Mute(ProseChunk(kind, x))
  BY <1>1 DEF ProseChunk, Prose
<1>5. ASSUME NEW n \in Nat, NEW x
      PROVE  LET f == CallChunk(n, x)
             IN  Frame(f) /\ \A m : (About(f, m) => m = n) /\ ~IsClose(f, m)
  <2> DEFINE c == [index |-> n, x |-> x]
             s == << c >>
             f == CallChunk(n, x)
  <2>1. s[1] = c /\ c.index = n /\ DOMAIN s = {1} /\ s = << s[1] >>
    OBVIOUS
  <2>2. f.t = "chunk" /\ f.calls = s /\ "t" \in DOMAIN f /\ "calls" \in DOMAIN f
    BY DEF CallChunk
  <2> HIDE DEF s, c, f
  <2>3. Frame(f) /\ \A m : About(f, m) => m = n
    BY <2>1, <2>2
  <2>4. \A m : ~IsClose(f, m)
    BY <2>2 DEF IsClose
  <2> QED BY <2>3, <2>4 DEF f
<1> QED BY <1>1, <1>2, <1>3, <1>4, <1>5

\* The frames of each kind of message, for every format of the upstream.
LEMMA StartIsMute == ASSUME conn.up \in Formats PROVE Mutes(StartFrames)
<1>1. CASE conn.up = "anthropic"
  <2> DEFINE f == [t |-> "message_start", usage |-> talk.usage.first]
  <2>1. StartFrames = << f >>
    BY <1>1 DEF StartFrames
  <2>2. Mute(f)
    BY DEF Mute, Frame, About
  <2> HIDE DEF f
  <2> QED BY <2>1, <2>2, SequencesOf DEF Mutes
<1>2. CASE conn.up = "openai"
  <2> DEFINE u == talk.usage.first
             f == [Chunk(<<>>, <<>>, <<>>) EXCEPT !.usage = u]
  <2>1. StartFrames = << f >>
    BY <1>2 DEF StartFrames
  <2>2. Mute(f)
    <3> HIDE DEF u
    <3> QED BY ChunkFrames
  <2> HIDE DEF f
  <2> QED BY <2>1, <2>2, SequencesOf DEF Mutes
<1>3. CASE conn.up = "responses"
  <2> DEFINE f == [t |-> "created", status |-> "in_progress", usage |-> NoUsage, output |-> <<>>]
  <2>1. StartFrames = << f >>
    BY <1>3 DEF StartFrames
  <2>2. Mute(f)
    BY DEF Mute, Frame, About
  <2> HIDE DEF f
  <2> QED BY <2>1, <2>2, SequencesOf DEF Mutes
<1> QED BY <1>1, <1>2, <1>3 DEF Formats

\* Opening frames,
LEMMA OpenIsAbout ==
    ASSUME conn.up \in Formats, NEW n \in Nat, NEW kind \in Kinds
    PROVE  Opener(OpenFrames(n, kind), n)
<1>1. CASE conn.up = "anthropic"
  <2> DEFINE f == [t |-> "content_block_start", index |-> n, kind |-> kind]
  <2>1. OpenFrames(n, kind) = << f >>
    BY <1>1 DEF OpenFrames
  <2>2. Frame(f) /\ \A m : (About(f, m) => m = n) /\ ~IsClose(f, m)
    BY DEF Frame, About, IsClose
  <2> HIDE DEF f
  <2> QED BY <2>1, <2>2, SequencesOf DEF Opener, Speaking
<1>2. CASE conn.up = "openai"
  <2> DEFINE f == CallChunk(n, <<>>)
  <2>1. OpenFrames(n, kind) = << f >> \/ OpenFrames(n, kind) = <<>>
    BY <1>2 DEF OpenFrames
  <2>2. Frame(f) /\ \A m : (About(f, m) => m = n) /\ ~IsClose(f, m)
    BY ChunkFrames
  <2> HIDE DEF f
  <2> QED BY <2>1, <2>2, SequencesOf DEF Opener, Speaking
<1>3. CASE conn.up = "responses"
  <2> DEFINE f == [t |-> "item_added", kind |-> kind, key |-> n]
  <2>1. OpenFrames(n, kind) = << f >>
    BY <1>3 DEF OpenFrames
  <2>2. Frame(f) /\ \A m : (About(f, m) => m = n) /\ ~IsClose(f, m)
    BY DEF Frame, About, IsClose
  <2> HIDE DEF f
  <2> QED BY <2>1, <2>2, SequencesOf DEF Opener, Speaking
<1> QED BY <1>1, <1>2, <1>3 DEF Formats

\* pieces of text,
LEMMA PieceIsAbout ==
    ASSUME conn.up \in Formats, NEW n \in Nat, NEW kind \in Kinds, NEW x
    PROVE  Opener(PieceFrames(n, kind, x), n)
<1>1. CASE conn.up = "anthropic"
  <2> DEFINE f == [t |-> "content_block_delta", index |-> n, kind |-> kind, x |-> x]
  <2>1. PieceFrames(n, kind, x) = << f >>
    BY <1>1 DEF PieceFrames
  <2>2. Frame(f) /\ \A m : (About(f, m) => m = n) /\ ~IsClose(f, m)
    BY DEF Frame, About, IsClose
  <2> HIDE DEF f
  <2> QED BY <2>1, <2>2, SequencesOf DEF Opener, Speaking
<1>2. CASE conn.up = "openai"
  <2> DEFINE f == IF kind = "tool" THEN CallChunk(n, x) ELSE ProseChunk(kind, x)
  <2>1. PieceFrames(n, kind, x) = << f >>
    BY <1>2 DEF PieceFrames
  <2>2. Frame(f) /\ \A m : (About(f, m) => m = n) /\ ~IsClose(f, m)
    <3>1. CASE kind = "tool"
      BY <3>1, ChunkFrames
    <3>2. CASE kind # "tool"
      <4>1. f = ProseChunk(kind, x) /\ kind \in Prose
        BY <3>2 DEF Kinds
      <4> HIDE DEF f
      <4>2. Mute(f)
        BY <4>1, ChunkFrames
      <4> QED BY <4>2 DEF Mute, IsClose
    <3> QED BY <3>1, <3>2
  <2> HIDE DEF f
  <2> QED BY <2>1, <2>2, SequencesOf DEF Opener, Speaking
<1>3. CASE conn.up = "responses"
  <2> DEFINE f == IF kind = "tool" THEN [t |-> "arguments_delta", key |-> n, x |-> x]
                                   ELSE [t |-> "prose_delta", kind |-> kind, x |-> x]
  <2>1. PieceFrames(n, kind, x) = << f >>
    BY <1>3 DEF PieceFrames
  <2>2. Frame(f) /\ \A m : (About(f, m) => m = n) /\ ~IsClose(f, m)
    <3>1. CASE kind = "tool"
      BY <3>1 DEF Frame, About, IsClose
    <3>2. CASE kind # "tool"
      BY <3>2 DEF Frame, About, IsClose, Kinds
    <3> QED BY <3>1, <3>2
  <2> HIDE DEF f
  <2> QED BY <2>1, <2>2, SequencesOf DEF Opener, Speaking
<1> QED BY <1>1, <1>2, <1>3 DEF Formats

\* closing frames,
LEMMA CloseIsAbout ==
    ASSUME conn.up \in Formats, NEW n \in Nat
    PROVE  Speaking(CloseFrames(n), n)
<1>1. CASE conn.up = "anthropic"
  <2> DEFINE f == [t |-> "content_block_stop", index |-> n]
  <2>1. CloseFrames(n) = << f >>
    BY <1>1 DEF CloseFrames
  <2>2. Frame(f) /\ \A m : About(f, m) => m = n
    BY DEF Frame, About
  <2> HIDE DEF f
  <2> QED BY <2>1, <2>2, SequencesOf DEF Speaking
<1>2. CASE conn.up = "openai"
  BY <1>2, SequencesOf DEF Speaking, CloseFrames
<1>3. CASE conn.up = "responses"
  <2> DEFINE kind == talk.parts[n].kind
             x == talk.parts[n].x
             f == [t |-> "item_done", kind |-> kind, key |-> n, x |-> x]
  <2>1. CloseFrames(n) = << f >>
    BY <1>3 DEF CloseFrames
  <2>2. Frame(f) /\ \A m : About(f, m) => m = n
    BY DEF Frame, About
  <2> HIDE DEF f
  <2> QED BY <2>1, <2>2, SequencesOf DEF Speaking
<1> QED BY <1>1, <1>2, <1>3 DEF Formats

\* Mute frames and mute frames.
LEMMA MutesConcat ==
    ASSUME NEW s, NEW t, Mutes(s), Mutes(t) PROVE Mutes(s \o t)
<1> DEFINE S == { s[n] : n \in DOMAIN s } \cup { t[n] : n \in DOMAIN t }
<1>1. s \in Seq(S) /\ t \in Seq(S) /\ \A p \in S : Mute(p)
  BY DEF Mutes, IsSeq
<1> HIDE DEF S
<1>2. s \o t \in Seq(S)
  BY <1>1
<1>3. IsSeq(s \o t)
  BY <1>2, SeqIsSeq
<1>4. \A n \in DOMAIN (s \o t) : (s \o t)[n] \in S
  BY <1>2
<1> QED BY <1>1, <1>3, <1>4 DEF Mutes

\* The end of the answer.
LEMMA FinishIsMute ==
    ASSUME conn.up \in Formats, NEW stop, NEW repeats, NEW first, first \in {<<>>, << Comment >>}
    PROVE  Mutes(first \o FinishFrames(stop, repeats))
<1>0. Mutes(first)
  <2>1. Mute(Comment)
    BY DEF Comment, Mute, Frame, About
  <2> QED BY <2>1, SequencesOf DEF Mutes
<1>1. CASE conn.up = "anthropic"
  <2> DEFINE u == talk.usage.final
             f == [t |-> "message_delta", stop |-> stop, usage |-> u]
             g == [t |-> "message_stop"]
  <2>1. FinishFrames(stop, repeats) = << f, g >>
    BY <1>1 DEF FinishFrames
  <2>2. Mute(f) /\ Mute(g)
    BY DEF Mute, Frame, About
  <2> HIDE DEF f, g
  <2>3. << f, g >>[1] = f /\ << f, g >>[2] = g
    OBVIOUS
  <2>4. Mutes(<< f, g >>)
    BY <2>2, <2>3, SequencesOf DEF Mutes
  <2> QED BY <1>0, <2>1, <2>4, MutesConcat
<1>2. CASE conn.up = "openai"
  <2> DEFINE u == talk.usage.final
             f == [Chunk(<<>>, <<>>, <<>>) EXCEPT !.finish = stop]
             g == [Chunk(<<>>, <<>>, <<>>) EXCEPT !.usage = u]
             h == [t |-> "[DONE]"]
  <2>1. FinishFrames(stop, repeats) = << f, g, h >>
    BY <1>2 DEF FinishFrames
  <2>2. Mute(f) /\ Mute(g)
    <3> HIDE DEF u
    <3> QED BY ChunkFrames
  <2>3. Mute(h)
    BY DEF Mute, Frame, About
  <2> HIDE DEF f, g, h
  <2>4. << f, g, h >>[1] = f /\ << f, g, h >>[2] = g /\ << f, g, h >>[3] = h
    OBVIOUS
  <2>5. Mutes(<< f, g, h >>)
    BY <2>2, <2>3, <2>4, SequencesOf DEF Mutes
  <2> QED BY <1>0, <2>1, <2>5, MutesConcat
<1>3. CASE conn.up = "responses"
  <2> DEFINE u == talk.usage.final
             said == IF repeats THEN Said ELSE <<>>
             status == IF stop = "max_tokens" THEN "incomplete" ELSE "completed"
             f == [t |-> "completed", status |-> status, usage |-> u, output |-> said]
  <2>1. FinishFrames(stop, repeats) = << f >>
    BY <1>3 DEF FinishFrames
  <2> HIDE DEF u, said, status
  <2>2. Mute(f)
    BY DEF Mute, Frame, About
  <2> HIDE DEF f
  <2>3. Mutes(<< f >>)
    BY <2>2, SequencesOf DEF Mutes
  <2> QED BY <1>0, <2>1, <2>3, MutesConcat
<1> QED BY <1>1, <1>2, <1>3 DEF Formats

-----------------------------------------------------------------------------
(* Every step of the upstream.                                                *)

Keeps(parts, parts2) == \A n \in DOMAIN parts : n \in DOMAIN parts2 /\ (parts2[n].open => parts[n].open)

\* Frames about no part may always be sent,
LEMMA SendsMutes ==
    ASSUME NEW s, Mutes(s), NEW parts, NEW parts2, Keeps(parts, parts2)
    PROVE  Sends(s, parts, parts2)
BY DEF Mutes, Mute, Sends, Keeps, IsClose

\* frames about a part when it is new or open, a close when it is closed with it.
LEMMA SendsAbout ==
    ASSUME NEW s, NEW n, Speaking(s, n), NEW parts, NEW parts2, Keeps(parts, parts2),
           n \notin DOMAIN parts \/ parts[n].open,
           Opener(s, n) \/ (n \in DOMAIN parts2 /\ ~parts2[n].open)
    PROVE  Sends(s, parts, parts2)
<1>1. ASSUME NEW k \in DOMAIN s, NEW m \in Nat, IsClose(s[k], m) PROVE m \in DOMAIN parts2 /\ ~parts2[m].open
  <2>1. m = n
    BY <1>1 DEF IsClose, Speaking
  <2> QED BY <1>1, <2>1 DEF Opener
<1> QED BY <1>1 DEF Speaking, Sends, Keeps

\* A step that changes nothing but the upstream's side.
LEMMA SendKeeps ==
    ASSUME WireInv, StreamInv, ~hung, NEW frames, Send(frames), Talks(talk'),
           Sends(frames, talk.parts, talk'.parts)
    PROVE  WireInv' /\ StreamInv'
<1>1. /\ end = "open" /\ wire' = wire \o Lines(frames)
      /\ UNCHANGED <<conn, end, buf, dec, enc, pending, done, finalized, got, hung>>
  BY DEF Send, driver
<1>2. IsSeq(wire')
  <2> DEFINE L == Lines(frames)
             N == 2 * Len(frames)
             g(n) == [f |-> frames[(n + 1) \div 2], line |-> IF n % 2 = 1 THEN "data" ELSE "blank"]
             S == { wire[n] : n \in DOMAIN wire } \cup { g(n) : n \in 1 .. N }
  <2>1. L = [n \in 1 .. N |-> g(n)] /\ Len(frames) \in Nat
    BY DEF Lines, Sends, IsSeq
  <2>2. wire \in Seq(S)
    BY DEF WireInv, IsSeq
  <2> HIDE DEF L, g
  <2>3. L \in Seq(S)
    BY <2>1
  <2> HIDE DEF S
  <2>4. wire \o L \in Seq(S)
    BY <2>2, <2>3
  <2> QED BY <1>1, <2>4, SeqIsSeq DEF L
<1>3. ASSUME ~PassThrough
      PROVE  /\ InTurn(Ahead', talk'.parts) /\ Len(Ahead') % 2 = 0
             /\ Living(Ahead', talk'.parts) \subseteq Living(Ahead, talk.parts)
  <2>1. InTurn(Ahead, talk.parts) /\ Len(Ahead) % 2 = 0
    BY <1>1, <1>3 DEF WireInv
  <2>2. Ahead' = Ahead \o Lines(frames)
    <3> DEFINE L == Lines(frames)
               T == { L[n] : n \in DOMAIN L } \cup { buf[n] : n \in DOMAIN buf } \cup { wire[n] : n \in DOMAIN wire }
               N == 2 * Len(frames)
               g(n) == [f |-> frames[(n + 1) \div 2], line |-> IF n % 2 = 1 THEN "data" ELSE "blank"]
    <3>1. L = [n \in 1 .. N |-> g(n)] /\ Len(frames) \in Nat
      BY DEF Lines, Sends, IsSeq
    <3> HIDE DEF L, g
    <3>2. L \in Seq(T)
      BY <3>1
    <3>3. buf \in Seq(T) /\ wire \in Seq(T)
      BY DEF WireInv, IsSeq
    <3> HIDE DEF T
    <3>4. buf \o (wire \o L) = (buf \o wire) \o L
      BY <3>2, <3>3, ConcatAssociative
    <3> QED BY <1>1, <3>4 DEF Ahead, L
  <2> QED BY <2>1, <2>2, InTurnSend
<1>4. WireInv'
  BY <1>1, <1>2, <1>3 DEF WireInv, PassThrough
<1>5. StreamInv'
  <2>1. /\ conn' \in Conns /\ Payloads(got') /\ Payloads(pending') /\ Reads' = Reads /\ Reads.ok
        /\ (hung' \/ PassThrough' => pending' = <<>>) /\ (finalized' => done')
    BY <1>1 DEF StreamInv, Reads, PassThrough
  <2>2. ASSUME ~PassThrough, ~finalized
        PROVE  Hearer(conn.cl, dec, enc, Reads, Living(Ahead', talk'.parts))
    <3>1. Hearer(conn.cl, dec, enc, Reads, Living(Ahead, talk.parts))
      BY <2>2 DEF StreamInv
    <3> QED BY <1>3, <2>2, <3>1, HearerLess
  <2> QED BY <1>1, <2>1, <2>2 DEF StreamInv, PassThrough
<1> QED BY <1>4, <1>5

\* The formats of the connection.
LEMMA ConnTyped == ASSUME StreamInv PROVE conn.up \in Formats /\ conn.cl \in Formats
BY StreamAssumption DEF StreamInv

\* The opening message,
LEMMA UpStartKeeps ==
    ASSUME WireInv, StreamInv, ~hung, UpStart PROVE WireInv' /\ StreamInv'
<1>1. talk' = [talk EXCEPT !.phase = "talk"] /\ Send(StartFrames)
  BY DEF UpStart
<1>2. talk'.parts = talk.parts /\ Talks(talk')
  BY <1>1 DEF WireInv, Talks
<1>3. Sends(StartFrames, talk.parts, talk'.parts)
  BY <1>2, ConnTyped, StartIsMute, SendsMutes DEF Keeps
<1> QED BY <1>1, <1>2, <1>3, SendKeeps

\* the closing messages,
LEMMA UpFinishKeeps ==
    ASSUME WireInv, StreamInv, ~hung, UpFinish PROVE WireInv' /\ StreamInv'
<1>1. PICK stop \in Stops[conn.up], repeats \in BOOLEAN, comments \in BOOLEAN :
        /\ talk' = [talk EXCEPT !.phase = "finished", !.stop = stop]
        /\ Send((IF comments THEN << Comment >> ELSE <<>>) \o FinishFrames(stop, repeats))
  BY DEF UpFinish
<1> DEFINE first == IF comments THEN << Comment >> ELSE <<>>
           frames == first \o FinishFrames(stop, repeats)
<1>2. talk'.parts = talk.parts /\ Talks(talk')
  BY <1>1 DEF WireInv, Talks
<1>3. Mutes(frames)
  <2>1. first \in {<<>>, << Comment >>}
    OBVIOUS
  <2> HIDE DEF first
  <2> QED BY <2>1, ConnTyped, FinishIsMute
<1>4. Send(frames)
  BY <1>1
<1> HIDE DEF frames
<1>5. Sends(frames, talk.parts, talk'.parts)
  BY <1>2, <1>3, SendsMutes DEF Keeps
<1> QED BY <1>2, <1>4, <1>5, SendKeeps


\* The parts with one more.
LEMMA PartsAppend ==
    ASSUME NEW parts, Parted(parts), NEW p, APart(p), NEW parts2, parts2 = Append(parts, p)
    PROVE  /\ Parted(parts2) /\ Keeps(parts, parts2)
           /\ Len(parts) + 1 \in Nat /\ parts2[Len(parts) + 1] = p
           /\ Len(parts) + 1 \notin DOMAIN parts /\ Len(parts) + 1 \in DOMAIN parts2
<1>0. IsSeq(parts)
  BY DEF Parted
<1>1. Grown(parts, p, parts2)
  BY <1>0, Grows
<1>2. \A n \in DOMAIN parts2 : n \in DOMAIN parts \/ n = Len(parts) + 1
  BY <1>1 DEF Grown
<1>3. Keeps(parts, parts2)
  BY <1>1 DEF Grown, Keeps
<1>4. Parted(parts2)
  BY <1>1, <1>2 DEF Grown, Parted
<1> QED BY <1>1, <1>3, <1>4 DEF Grown

\* The parts with one changed.
LEMMA PartsChange ==
    ASSUME NEW parts, Parted(parts), NEW n \in DOMAIN parts, NEW p, APart(p), p.open => parts[n].open,
           NEW parts2, parts2 = [parts EXCEPT ![n] = p]
    PROVE  Parted(parts2) /\ Keeps(parts, parts2) /\ n \in DOMAIN parts2 /\ n \in Nat /\ parts2[n] = p
<1> DEFINE S == { parts[m] : m \in DOMAIN parts } \cup {p}
<1>1. parts \in Seq(S) /\ n \in Nat /\ \A q \in S : APart(q)
  BY DEF Parted, IsSeq
<1> HIDE DEF S
<1>2. parts2 \in Seq(S) /\ DOMAIN parts2 = DOMAIN parts /\ parts2[n] = p
      /\ \A m \in DOMAIN parts : m # n => parts2[m] = parts[m]
  <2>1. p \in S
    BY DEF S
  <2> QED BY <1>1, <2>1
<1>3. IsSeq(parts2)
  BY <1>2, SeqIsSeq
<1>4. \A m \in DOMAIN parts2 : parts2[m] \in S
  BY <1>2
<1>5. Parted(parts2)
  BY <1>1, <1>3, <1>4 DEF Parted
<1>6. Keeps(parts, parts2)
  BY <1>2 DEF Keeps
<1> QED BY <1>1, <1>2, <1>5, <1>6

\* a call that comes whole,
LEMMA UpWholeCallKeeps ==
    ASSUME WireInv, StreamInv, ~hung, UpWholeCall PROVE WireInv' /\ StreamInv'
<1> DEFINE n == Len(talk.parts) + 1
           p == [Part("tool", NextPiece) EXCEPT !.open = FALSE]
           x == NextPiece
           f == [t |-> "item_done", kind |-> "tool", key |-> n, x |-> x]
<1>1. talk' = [talk EXCEPT !.parts = Append(@, p), !.pieces = @ + 1] /\ Send(<< f >>)
  BY DEF UpWholeCall
<1>2. APart(p) /\ ~p.open
  BY DEF Part, APart, Kinds
<1> HIDE DEF p, x
<1>3. talk'.parts = Append(talk.parts, p) /\ DOMAIN talk' = DOMAIN talk
  BY <1>1 DEF WireInv, Talks
<1> DEFINE parts == talk.parts
           parts2 == talk'.parts
<1>4. Parted(parts)
  BY DEF WireInv, Talks
<1> HIDE DEF parts2
<1>5. parts2 = Append(parts, p)
  BY <1>3 DEF parts2
<1> HIDE DEF parts
<1>6. /\ Parted(parts2) /\ Keeps(parts, parts2)
      /\ Len(parts) + 1 \in Nat /\ parts2[Len(parts) + 1] = p
      /\ Len(parts) + 1 \notin DOMAIN parts /\ Len(parts) + 1 \in DOMAIN parts2
  BY <1>2, <1>4, <1>5, PartsAppend
<1>7. Talks(talk')
  BY <1>3, <1>6 DEF WireInv, Talks, parts2
<1>8. n \in Nat /\ n \notin DOMAIN parts /\ n \in DOMAIN parts2 /\ parts2[n] = p
  BY <1>6 DEF parts
<1> HIDE DEF n
<1>9. Speaking(<< f >>, n)
  <2>1. Frame(f) /\ \A m : About(f, m) => m = n
    BY <1>8 DEF Frame, About
  <2> HIDE DEF f
  <2> QED BY <2>1, SequencesOf DEF Speaking
<1> HIDE DEF f
<1>10. Sends(<< f >>, parts, parts2)
  BY <1>2, <1>6, <1>8, <1>9, SendsAbout
<1>11. Sends(<< f >>, talk.parts, talk'.parts)
  BY <1>10 DEF parts, parts2
<1> QED BY <1>1, <1>7, <1>11, SendKeeps

\* a piece of text,
LEMMA UpPieceKeeps ==
    ASSUME WireInv, StreamInv, ~hung, UpPiece PROVE WireInv' /\ StreamInv'
<1>1. PICK n \in DOMAIN talk.parts :
        /\ talk.parts[n].open
        /\ talk' = [talk EXCEPT !.parts[n].x = @ \o NextPiece, !.pieces = @ + 1]
        /\ Send(PieceFrames(n, talk.parts[n].kind, NextPiece))
  BY DEF UpPiece
<1> DEFINE x == talk.parts[n].x \o NextPiece
           p == [talk.parts[n] EXCEPT !.x = x]
           parts == talk.parts
           parts2 == talk'.parts
           kind == talk.parts[n].kind
           frames == PieceFrames(n, kind, NextPiece)
<1>2. parts2 = [parts EXCEPT ![n] = p] /\ DOMAIN talk' = DOMAIN talk
  BY <1>1 DEF WireInv, Talks
<1>3. Parted(parts) /\ APart(parts[n]) /\ parts[n].open /\ kind \in Kinds
  BY <1>1 DEF WireInv, Talks, Parted, APart
<1>4. APart(p) /\ (p.open => parts[n].open)
  <2> HIDE DEF x
  <2> QED BY <1>3 DEF APart
<1> HIDE DEF p, parts2
<1>5. Parted(parts2) /\ Keeps(parts, parts2) /\ n \in Nat
  <2> HIDE DEF parts
  <2> QED BY <1>1, <1>2, <1>3, <1>4, PartsChange DEF parts
<1>6. Talks(talk')
  BY <1>2, <1>5 DEF WireInv, Talks, parts2
<1>7. Opener(frames, n)
  BY <1>3, <1>5, ConnTyped, PieceIsAbout
<1>8. Send(frames)
  BY <1>1
<1> HIDE DEF frames, parts
<1>9. Sends(frames, parts, parts2)
  BY <1>3, <1>5, <1>7, SendsAbout DEF Opener
<1>10. Sends(frames, talk.parts, talk'.parts)
  BY <1>9 DEF parts, parts2
<1> QED BY <1>6, <1>8, <1>10, SendKeeps

\* the end of a part,
LEMMA UpCloseKeeps ==
    ASSUME WireInv, StreamInv, ~hung, UpClose PROVE WireInv' /\ StreamInv'
<1>1. PICK n \in DOMAIN talk.parts :
        /\ talk.parts[n].open
        /\ talk' = [talk EXCEPT !.parts[n].open = FALSE]
        /\ Send(CloseFrames(n))
  BY DEF UpClose
<1> DEFINE p == [talk.parts[n] EXCEPT !.open = FALSE]
           parts == talk.parts
           parts2 == talk'.parts
           frames == CloseFrames(n)
<1>2. parts2 = [parts EXCEPT ![n] = p] /\ DOMAIN talk' = DOMAIN talk
  BY <1>1 DEF WireInv, Talks
<1>3. Parted(parts) /\ APart(parts[n]) /\ parts[n].open
  BY <1>1 DEF WireInv, Talks, Parted
<1>4. APart(p) /\ ~p.open
  BY <1>3 DEF APart
<1> HIDE DEF p, parts2
<1>5. Parted(parts2) /\ Keeps(parts, parts2) /\ n \in Nat /\ n \in DOMAIN parts2 /\ parts2[n] = p
  <2> HIDE DEF parts
  <2> QED BY <1>1, <1>2, <1>3, <1>4, PartsChange DEF parts
<1>6. Talks(talk')
  BY <1>2, <1>5 DEF WireInv, Talks, parts2
<1>7. Speaking(frames, n)
  BY <1>5, ConnTyped, CloseIsAbout
<1> HIDE DEF frames, parts
<1>8. Sends(frames, parts, parts2)
  BY <1>3, <1>4, <1>5, <1>7, SendsAbout
<1>9. Sends(frames, talk.parts, talk'.parts)
  BY <1>8 DEF parts, parts2
<1> QED BY <1>1, <1>6, <1>9, SendKeeps DEF frames

\* and a new part.
LEMMA UpOpenKeeps ==
    ASSUME WireInv, StreamInv, ~hung, NEW kind \in Kinds, UpOpen(kind) PROVE WireInv' /\ StreamInv'
<1> DEFINE q(m) == [talk.parts[m] EXCEPT !.open = @ /\ talk.parts[m].kind = "tool"]
           mid == [m \in DOMAIN talk.parts |-> q(m)]
           n == Len(mid) + 1
           first == conn.up = "openai" /\ kind \in Prose
           x == IF first THEN NextPiece ELSE <<>>
           p == Part(kind, x)
           frames == IF first THEN PieceFrames(n, kind, x) ELSE OpenFrames(n, kind)
           parts == talk.parts
           parts2 == talk'.parts
<1>1. talk' = [talk EXCEPT !.parts = Append(mid, p), !.pieces = @ + Len(x)] /\ Send(frames)
  BY DEF UpOpen
<1>2. parts2 = Append(mid, p) /\ DOMAIN talk' = DOMAIN talk
  <2> HIDE DEF mid, p, x
  <2> QED BY <1>1 DEF WireInv, Talks
<1>3. Parted(parts)
  BY DEF WireInv, Talks
<1>4. Parted(mid) /\ Keeps(parts, mid) /\ DOMAIN mid = DOMAIN parts
  <2>1. \A m \in DOMAIN parts : APart(q(m)) /\ (q(m).open => parts[m].open)
    BY <1>3 DEF Parted, APart
  <2>2. DOMAIN parts = 1 .. Len(parts) /\ Len(parts) \in Nat
    BY <1>3 DEF Parted, IsSeq
  <2> HIDE DEF q
  <2>3. mid \in Seq({ q(m) : m \in DOMAIN parts }) /\ DOMAIN mid = DOMAIN parts
        /\ \A m \in DOMAIN parts : mid[m] = q(m)
    BY <2>2
  <2> HIDE DEF mid
  <2>4. IsSeq(mid)
    BY <2>3, SeqIsSeq
  <2> QED BY <2>1, <2>3, <2>4 DEF Parted, Keeps
<1>5. APart(p)
  <2> HIDE DEF x
  <2> QED BY DEF Part, APart
<1> HIDE DEF parts2, mid, p
<1>6. /\ Parted(parts2) /\ Keeps(mid, parts2) /\ Len(mid) + 1 \in Nat /\ Len(mid) + 1 \notin DOMAIN mid
  BY <1>2, <1>4, <1>5, PartsAppend
<1>7. Talks(talk')
  BY <1>2, <1>6 DEF WireInv, Talks, parts2
<1>8. Opener(frames, n)
  <2> HIDE DEF x
  <2>1. n \in Nat
    BY <1>6
  <2> HIDE DEF n, first
  <2> QED BY <2>1, ConnTyped, OpenIsAbout, PieceIsAbout
<1>9. Keeps(parts, parts2) /\ n \notin DOMAIN parts
  BY <1>4, <1>6 DEF Keeps
<1> HIDE DEF n, frames, parts
<1>10. Sends(frames, parts, parts2)
  BY <1>8, <1>9, SendsAbout DEF Opener
<1>11. Sends(frames, talk.parts, talk'.parts)
  BY <1>10 DEF parts, parts2
<1> QED BY <1>1, <1>7, <1>11, SendKeeps

-----------------------------------------------------------------------------
(* The network.                                                               *)

\* Every line has its two fields.
LEMMA LinesOf ==
    ASSUME NEW s, IsSeq(s), NEW a, IsSeq(a), NEW parts, InTurn(s \o a, parts)
    PROVE  /\ \A k \in DOMAIN s : DOMAIN s[k] = {"f", "line"}
           /\ \A k \in DOMAIN a : DOMAIN a[k] = {"f", "line"}
<1> DEFINE S == { s[n] : n \in DOMAIN s } \cup { a[n] : n \in DOMAIN a }
           C == s \o a
<1>1. s \in Seq(S) /\ a \in Seq(S)
  BY DEF IsSeq
<1> HIDE DEF S
<1>2. /\ C \in Seq(S) /\ Len(C) = Len(s) + Len(a)
      /\ \A k \in 1 .. Len(s) + Len(a) : C[k] = IF k <= Len(s) THEN s[k] ELSE a[k - Len(s)]
  BY <1>1, ConcatProperties
<1>3. /\ DOMAIN s = 1 .. Len(s) /\ Len(s) \in Nat /\ DOMAIN a = 1 .. Len(a) /\ Len(a) \in Nat
      /\ DOMAIN C = 1 .. Len(s) + Len(a)
  BY <1>1, <1>2, LenProperties
<1>4. \A k \in DOMAIN C : DOMAIN C[k] = {"f", "line"}
  BY DEF InTurn
<1> HIDE DEF C
<1>5. ASSUME NEW k \in DOMAIN s PROVE DOMAIN s[k] = {"f", "line"}
  <2>1. k \in 1 .. Len(s) + Len(a) /\ k <= Len(s)
    BY <1>3
  <2> QED BY <1>2, <1>3, <1>4, <2>1
<1>6. ASSUME NEW k \in DOMAIN a PROVE DOMAIN a[k] = {"f", "line"}
  <2>1. /\ k + Len(s) \in 1 .. Len(s) + Len(a) /\ ~(k + Len(s) <= Len(s)) /\ k + Len(s) - Len(s) = k
    BY <1>3
  <2> QED BY <1>2, <1>3, <1>4, <2>1
<1> QED BY <1>5, <1>6

\* The same lines in front.
LEMMA LikeConcat ==
    ASSUME NEW s, IsSeq(s), NEW a, IsSeq(a), NEW parts, InTurn(s \o a, parts), NEW b, Like(a, b)
    PROVE  Like(s \o a, s \o b)
<1> DEFINE S == { s[n] : n \in DOMAIN s } \cup { a[n] : n \in DOMAIN a } \cup { b[n] : n \in DOMAIN b }
           C == s \o a
           D == s \o b
<1>1. s \in Seq(S) /\ a \in Seq(S) /\ b \in Seq(S) /\ DOMAIN b \subseteq DOMAIN a
  BY DEF IsSeq, Like
<1> HIDE DEF S
<1>2. /\ C \in Seq(S) /\ Len(C) = Len(s) + Len(a)
      /\ \A k \in 1 .. Len(s) + Len(a) : C[k] = IF k <= Len(s) THEN s[k] ELSE a[k - Len(s)]
      /\ D \in Seq(S) /\ Len(D) = Len(s) + Len(b)
      /\ \A k \in 1 .. Len(s) + Len(b) : D[k] = IF k <= Len(s) THEN s[k] ELSE b[k - Len(s)]
  BY <1>1, ConcatProperties
<1>3. /\ DOMAIN s = 1 .. Len(s) /\ Len(s) \in Nat /\ DOMAIN a = 1 .. Len(a) /\ Len(a) \in Nat
      /\ DOMAIN b = 1 .. Len(b) /\ Len(b) \in Nat
      /\ DOMAIN C = 1 .. Len(s) + Len(a) /\ DOMAIN D = 1 .. Len(s) + Len(b)
  BY <1>1, <1>2, LenProperties
<1>4. \A k \in DOMAIN s : DOMAIN s[k] = {"f", "line"}
  BY LinesOf
<1>5. IsSeq(D)
  BY <1>2, SeqIsSeq
<1> HIDE DEF C, D
<1>6. Len(b) <= Len(a)
  BY <1>1, <1>3
<1>7. DOMAIN D \subseteq DOMAIN C
  BY <1>3, <1>6
<1>8. ASSUME NEW k \in DOMAIN D
      PROVE  DOMAIN D[k] = {"f", "line"} /\ D[k].line = C[k].line /\ Alike(C[k].f, D[k].f)
  <2>1. k \in 1 .. Len(s) + Len(b) /\ k \in 1 .. Len(s) + Len(a) /\ k \in Nat
    BY <1>3, <1>6
  <2>2. CASE k <= Len(s)
    <3>1. D[k] = s[k] /\ C[k] = s[k] /\ k \in DOMAIN s
      BY <1>2, <1>3, <2>1, <2>2
    <3> QED BY <1>4, <3>1 DEF Alike
  <2>3. CASE ~(k <= Len(s))
    <3>1. D[k] = b[k - Len(s)] /\ C[k] = a[k - Len(s)]
      BY <1>2, <2>1, <2>3
    <3>2. k - Len(s) \in DOMAIN b
      BY <1>3, <2>1, <2>3
    <3> QED BY <3>1, <3>2 DEF Like
  <2> QED BY <2>2, <2>3
<1> QED BY <1>5, <1>7, <1>8 DEF Like, C, D

\* One line with another frame.
LEMMA LikeChange ==
    ASSUME NEW a, IsSeq(a), \A k \in DOMAIN a : DOMAIN a[k] = {"f", "line"},
           NEW n \in DOMAIN a, NEW f, Alike(a[n].f, f), NEW l, l = [a[n] EXCEPT !.f = f],
           NEW b, b = [a EXCEPT ![n] = l]
    PROVE  Like(a, b) /\ Len(b) = Len(a)
<1> DEFINE S == { a[m] : m \in DOMAIN a } \cup {l}
<1>1. a \in Seq(S) /\ l \in S
  BY DEF IsSeq
<1> HIDE DEF S
<1>2. b \in Seq(S) /\ DOMAIN b = DOMAIN a /\ Len(b) = Len(a) /\ b[n] = l
      /\ \A m \in DOMAIN a : m # n => b[m] = a[m]
  BY <1>1
<1>3. IsSeq(b)
  BY <1>2, SeqIsSeq
<1>4. DOMAIN l = {"f", "line"} /\ l.line = a[n].line /\ l.f = f
  OBVIOUS
<1>5. ASSUME NEW k \in DOMAIN b
      PROVE  DOMAIN b[k] = {"f", "line"} /\ b[k].line = a[k].line /\ Alike(a[k].f, b[k].f)
  <2>1. CASE k = n
    BY <1>2, <1>4, <2>1
  <2>2. CASE k # n
    <3>1. b[k] = a[k] /\ k \in DOMAIN a
      BY <1>2, <2>2
    <3> QED BY <3>1 DEF Alike
  <2> QED BY <2>1, <2>2
<1> QED BY <1>2, <1>3, <1>5 DEF Like

\* The first n elements of a sequence.
LEMMA FirstLines ==
    ASSUME NEW S, NEW a, a \in Seq(S), NEW n, n \in 0 .. Len(a), NEW b, b = SubSeq(a, 1, n)
    PROVE  /\ b \in Seq(S) /\ Len(b) = n /\ DOMAIN b = 1 .. n /\ DOMAIN b \subseteq DOMAIN a
           /\ \A k \in DOMAIN b : b[k] = a[k]
<1>1. n \in Nat /\ Len(a) \in Nat /\ n <= Len(a) /\ DOMAIN a = 1 .. Len(a)
  OBVIOUS
<1>2. b \in Seq(S) /\ Len(b) = n /\ \A k \in 1 .. n : b[k] = a[k]
  BY <1>1
<1>3. DOMAIN b = 1 .. n
  BY <1>2
<1>4. 1 .. n \subseteq DOMAIN a
  BY <1>1
<1> QED BY <1>2, <1>3, <1>4

\* What becomes of the first lines is what becomes of the lines.
LEMMA LikeFirst ==
    ASSUME NEW a, NEW b, DOMAIN b \subseteq DOMAIN a, \A k \in DOMAIN b : b[k] = a[k],
           NEW c, Like(b, c)
    PROVE  Like(a, c)
<1>1. DOMAIN c \subseteq DOMAIN b /\ IsSeq(c)
  BY DEF Like
<1>2. \A k \in DOMAIN c : k \in DOMAIN a /\ b[k] = a[k]
  BY <1>1
<1> QED BY <1>1, <1>2 DEF Like

\* The same lines.
LEMMA LikeSelf ==
    ASSUME NEW a, IsSeq(a), \A k \in DOMAIN a : DOMAIN a[k] = {"f", "line"}
    PROVE  Like(a, a)
BY DEF Like, Alike

\* A step that only loses something on the way.
LEMMA LikeKeeps ==
    ASSUME WireInv, StreamInv, ~hung, Talks(talk'), talk'.parts = talk.parts,
           UNCHANGED <<conn, dec, enc, pending, done, finalized, got, hung>>, IsSeq(buf'), IsSeq(wire'),
           ~PassThrough => Like(Ahead, Ahead') /\ (end' = "open" => Len(Ahead') % 2 = 0)
    PROVE  WireInv' /\ StreamInv'
<1>1. ASSUME ~PassThrough
      PROVE  InTurn(Ahead', talk'.parts) /\ Living(Ahead', talk'.parts) \subseteq Living(Ahead, talk.parts)
  <2>1. InTurn(Ahead, talk.parts)
    BY <1>1 DEF WireInv
  <2> DEFINE A2 == Ahead'
             parts2 == talk'.parts
  <2>2. Like(Ahead, A2) /\ parts2 = talk.parts
    BY <1>1
  <2> HIDE DEF A2, parts2
  <2>3. InTurn(A2, talk.parts) /\ Living(A2, talk.parts) \subseteq Living(Ahead, talk.parts)
    BY <2>1, <2>2, InTurnLike
  <2> QED BY <2>2, <2>3 DEF A2, parts2
<1>2. WireInv'
  BY <1>1 DEF WireInv, PassThrough
<1>3. StreamInv'
  <2>1. /\ conn' \in Conns /\ Payloads(got') /\ Payloads(pending') /\ Reads' = Reads /\ Reads.ok
        /\ (hung' \/ PassThrough' => pending' = <<>>) /\ (finalized' => done')
    BY DEF StreamInv, Reads, PassThrough
  <2>2. ASSUME ~PassThrough, ~finalized
        PROVE  Hearer(conn.cl, dec, enc, Reads, Living(Ahead', talk'.parts))
    <3>1. Hearer(conn.cl, dec, enc, Reads, Living(Ahead, talk.parts))
      BY <2>2 DEF StreamInv
    <3> QED BY <1>1, <2>2, <3>1, HearerLess
  <2> QED BY <2>1, <2>2 DEF StreamInv, PassThrough
<1> QED BY <1>2, <1>3

\* The connection is closed,
LEMMA UpClosedKeeps ==
    ASSUME WireInv, StreamInv, ~hung, UpClosed PROVE WireInv' /\ StreamInv'
<1>1. /\ end' = "eof" /\ talk' = talk /\ buf' = buf /\ wire' = wire /\ Ahead' = Ahead
      /\ UNCHANGED <<conn, dec, enc, pending, done, finalized, got, hung>>
  BY DEF UpClosed, driver, Ahead
<1>2. Talks(talk') /\ talk'.parts = talk.parts /\ IsSeq(buf') /\ IsSeq(wire')
  BY <1>1 DEF WireInv
<1>3. ~PassThrough => Like(Ahead, Ahead')
  <2> SUFFICES ASSUME ~PassThrough PROVE Like(Ahead, Ahead)
    BY <1>1
  <2>1. IsSeq(Ahead) /\ \A k \in DOMAIN Ahead : DOMAIN Ahead[k] = {"f", "line"}
    BY DEF WireInv, InTurn
  <2> QED BY <2>1, LikeSelf
<1> QED BY <1>1, <1>2, <1>3, LikeKeeps

\* The connection breaks: what was on its way may arrive in part.
LEMMA BreakLike ==
    ASSUME WireInv, ~hung, UpBreak PROVE IsSeq(wire') /\ (~PassThrough => Like(Ahead, Ahead'))
<1>1. /\ end' \in {"eof", "error"} /\ talk' = [talk EXCEPT !.phase = "broken"] /\ buf' = buf
      /\ UNCHANGED <<conn, dec, enc, pending, done, finalized, got, hung>>
  BY Zenon DEF UpBreak, driver
<1>2. Talks(talk') /\ talk'.parts = talk.parts /\ IsSeq(buf') /\ IsSeq(buf) /\ IsSeq(wire)
  BY <1>1 DEF WireInv, Talks
<1> DEFINE S == { wire[m] : m \in DOMAIN wire }
<1>0. wire \in Seq(S)
  BY <1>2 DEF IsSeq
<1> HIDE DEF S
<1>20. \E n \in 0 .. Len(wire) :
           \/ wire' = SubSeq(wire, 1, n)
           \/ n > 0 /\ wire' = [SubSeq(wire, 1, n) EXCEPT ![n].f = [t |-> "junk"]]
  BY Zenon DEF UpBreak
<1>21. PICK n \in 0 .. Len(wire) :
           \/ wire' = SubSeq(wire, 1, n)
           \/ n > 0 /\ wire' = [SubSeq(wire, 1, n) EXCEPT ![n].f = [t |-> "junk"]]
  BY <1>20, Zenon
<1> DEFINE kept == SubSeq(wire, 1, n)
<1>5. /\ kept = SubSeq(wire, 1, n)
      /\ \/ wire' = kept
         \/ n > 0 /\ wire' = [kept EXCEPT ![n].f = [t |-> "junk"]]
  BY <1>21, Zenon
<1> HIDE DEF kept
<1>6. /\ kept \in Seq(S) /\ DOMAIN kept = 1 .. n /\ DOMAIN kept \subseteq DOMAIN wire
      /\ \A k \in DOMAIN kept : kept[k] = wire[k]
  BY <1>0, <1>5, FirstLines
<1>7. IsSeq(kept)
  BY <1>6, SeqIsSeq
<1>8. n > 0 => n \in DOMAIN kept
  <2>1. Len(wire) \in Nat
    BY <1>0
  <2> QED BY <1>6, <2>1
<1> DEFINE f == [t |-> "junk"]
           l == [kept[n] EXCEPT !.f = f]
           w == wire'
<1>9. w = kept \/ (n \in DOMAIN kept /\ w = [kept EXCEPT ![n] = l])
  BY <1>5, <1>8
<1>10. Alike(kept[n].f, f)
  BY DEF Alike
<1> HIDE DEF f
<1>3. IsSeq(w)
  <2> DEFINE T == S \cup {l}
  <2>1. kept \in Seq(T) /\ l \in T
    BY <1>6
  <2> HIDE DEF T, l, w
  <2>2. w \in Seq(T)
    BY <1>9, <2>1
  <2> QED BY <2>2, SeqIsSeq
<1>4. ASSUME ~PassThrough PROVE Like(Ahead, Ahead')
  <2>1. InTurn(buf \o wire, talk.parts)
    BY <1>4 DEF WireInv, Ahead
  <2>2. \A k \in DOMAIN wire : DOMAIN wire[k] = {"f", "line"}
    BY <1>2, <2>1, LinesOf
  <2>5. \A k \in DOMAIN kept : DOMAIN kept[k] = {"f", "line"}
    BY <1>6, <2>2
  <2> HIDE DEF w
  <2>6. Like(kept, w)
    <3>1. CASE w = kept
      BY <1>7, <2>5, <3>1, LikeSelf
    <3>2. CASE n \in DOMAIN kept /\ w = [kept EXCEPT ![n] = l]
      BY <1>7, <1>10, <2>5, <3>2, LikeChange
    <3> QED BY <1>9, <3>1, <3>2
  <2>3. Like(wire, w)
    BY <1>6, <2>6, LikeFirst
  <2>4. Ahead' = buf \o w
    BY <1>1 DEF Ahead, w
  <2>7. Like(buf \o wire, buf \o w)
    BY <1>2, <2>1, <2>3, LikeConcat
  <2> QED BY <2>4, <2>7 DEF Ahead
<1> QED BY <1>3, <1>4 DEF w

\* Nothing else changes.
LEMMA UpBreakKeeps ==
    ASSUME WireInv, StreamInv, ~hung, UpBreak PROVE WireInv' /\ StreamInv'
<1>1. /\ end' # "open" /\ talk' = [talk EXCEPT !.phase = "broken"] /\ buf' = buf
      /\ UNCHANGED <<conn, dec, enc, pending, done, finalized, got, hung>>
  BY Zenon DEF UpBreak, driver
<1>2. Talks(talk') /\ talk'.parts = talk.parts /\ IsSeq(buf')
  BY <1>1 DEF WireInv, Talks
<1>3. IsSeq(wire') /\ (~PassThrough => Like(Ahead, Ahead'))
  BY BreakLike
<1> QED BY <1>1, <1>2, <1>3, LikeKeeps

\* A chunk: lines p of wire w go behind those of buffer b, and r stay.
Splits(w, b, n, p, r, c) ==
    n \in 0 .. Len(w) /\ p = SubSeq(w, 1, n) /\ r = SubSeq(w, n + 1, Len(w)) /\ c = b \o p

\* None is lost.
Whole(w, b, n, p, r, c) ==
    /\ IsSeq(p) /\ IsSeq(r) /\ IsSeq(c) /\ w = p \o r /\ b \o w = c \o r
    /\ Len(c) \in Nat /\ Len(b) \in Nat /\ Len(w) \in Nat /\ n \in Nat
    /\ Len(c) = Len(b) + n /\ Len(r) = Len(w) - n

\* Wherever a chunk ends, no line is lost.
LEMMA ChunkSplits ==
    ASSUME NEW w, IsSeq(w), NEW b, IsSeq(b), NEW n, NEW p, NEW r, NEW c, Splits(w, b, n, p, r, c)
    PROVE  Whole(w, b, n, p, r, c)
<1> DEFINE S == { w[k] : k \in DOMAIN w } \cup { b[k] : k \in DOMAIN b }
<1>1. w \in Seq(S) /\ b \in Seq(S) /\ Len(w) \in Nat /\ Len(b) \in Nat
  BY DEF IsSeq
<1> HIDE DEF S
<1>0. n \in 0 .. Len(w) /\ p = SubSeq(w, 1, n) /\ r = SubSeq(w, n + 1, Len(w)) /\ c = b \o p
  BY DEF Splits
<1>2. p \in Seq(S) /\ Len(p) = n /\ \A k \in 1 .. n : p[k] = w[k]
  BY <1>0, <1>1
<1>3. r \in Seq(S) /\ Len(r) = Len(w) - n /\ \A k \in 1 .. Len(w) - n : r[k] = w[n + k]
  BY <1>0, <1>1
<1>4. n \in Nat /\ Len(w) \in Nat /\ n <= Len(w)
  BY <1>0, <1>1
<1>5. /\ p \o r \in Seq(S) /\ Len(p \o r) = Len(p) + Len(r)
      /\ \A k \in 1 .. Len(p) + Len(r) : (p \o r)[k] = IF k <= Len(p) THEN p[k] ELSE r[k - Len(p)]
  BY <1>2, <1>3, ConcatProperties
<1>6. Len(p \o r) = Len(w)
  BY <1>2, <1>3, <1>4, <1>5
<1>7. ASSUME NEW k \in 1 .. Len(w) PROVE (p \o r)[k] = w[k]
  <2>1. CASE k <= n
    BY <1>2, <1>3, <1>4, <1>5, <2>1
  <2>2. CASE ~(k <= n)
    <3>1. k - n \in 1 .. Len(w) - n /\ n + (k - n) = k
      BY <1>4, <2>2
    <3>2. (p \o r)[k] = r[k - n]
      BY <1>2, <1>3, <1>4, <1>5, <2>2
    <3> QED BY <1>3, <3>1, <3>2
  <2> QED BY <2>1, <2>2
<1>8. w = p \o r
  BY <1>1, <1>5, <1>6, <1>7, SeqEqual
<1>9. b \o (p \o r) = (b \o p) \o r
  <2>1. b \in Seq(S) /\ p \in Seq(S) /\ r \in Seq(S)
    BY <1>1, <1>2, <1>3
  <2> QED BY SMTT(20), <2>1, ConcatAssociative
<1>10. c \in Seq(S) /\ Len(c) = Len(b) + n
  <2>1. b \in Seq(S) /\ p \in Seq(S)
    BY <1>1, <1>2
  <2>2. b \o p \in Seq(S) /\ Len(b \o p) = Len(b) + Len(p)
    BY <2>1, ConcatProperties
  <2> QED BY <1>0, <1>2, <2>2
<1>11. IsSeq(p) /\ IsSeq(r) /\ IsSeq(c)
  BY <1>2, <1>3, <1>10, SeqIsSeq
<1>12. b \o w = c \o r
  BY <1>0, <1>8, <1>9
<1> QED BY <1>1, <1>3, <1>4, <1>8, <1>10, <1>11, <1>12 DEF Whole

\* A chunk of lines, the last of them perhaps cut inside a character.
LEMMA ChunkLike ==
    ASSUME WireInv, ReadChunk
    PROVE  /\ IsSeq(buf') /\ IsSeq(wire')
           /\ ~PassThrough => Like(Ahead, Ahead') /\ (end' = "open" => Len(Ahead') % 2 = 0)
<1>1. PICK n \in 0 .. Len(wire) :
        LET first == SubSeq(wire, 1, n)
            rest == SubSeq(wire, n + 1, Len(wire))
            b == buf \o first
        IN  /\ \/ wire' = rest
               \/ rest # <<>> /\ HasText(rest[1]) /\ wire' = [rest EXCEPT ![1] = Garble(@)]
            /\ buf' = b \/ (PassThrough /\ buf' = Rest(b))
  BY DEF ReadChunk
<1>2. ~hung /\ UNCHANGED <<conn, talk, end>>
  BY DEF ReadChunk
<1> DEFINE p == SubSeq(wire, 1, n)
           r == SubSeq(wire, n + 1, Len(wire))
           c == buf \o p
           w == wire'
<1>3. /\ \/ w = r
         \/ r # <<>> /\ HasText(r[1]) /\ w = [r EXCEPT ![1] = Garble(@)]
      /\ buf' = c \/ (PassThrough /\ buf' = Rest(c))
  BY <1>1
<1>4. IsSeq(buf) /\ IsSeq(wire) /\ Splits(wire, buf, n, p, r, c)
  BY DEF WireInv, Splits
<1> HIDE DEF p, r, c
<1>5. IsSeq(p) /\ IsSeq(r) /\ IsSeq(c) /\ wire = p \o r /\ buf \o wire = c \o r
  <2>1. Whole(wire, buf, n, p, r, c)
    BY <1>4, ChunkSplits
  <2> QED BY <2>1 DEF Whole
<1>6. IsSeq(buf')
  BY <1>3, <1>5, SequencesOf DEF Rest
<1>7. r # <<>> => 1 \in DOMAIN r
  <2>1. r \in Seq({ r[k] : k \in DOMAIN r })
    BY <1>5 DEF IsSeq
  <2> QED BY <2>1
<1>8. IsSeq(w) /\ Len(w) = Len(r)
  <2>1. CASE w = r
    BY <1>5, <2>1
  <2>2. CASE r # <<>> /\ w = [r EXCEPT ![1] = Garble(@)]
    <3> DEFINE l == Garble(r[1])
               T == { r[k] : k \in DOMAIN r } \cup {l}
    <3>1. r \in Seq(T) /\ l \in T /\ w = [r EXCEPT ![1] = l]
      BY <1>5, <2>2 DEF IsSeq
    <3> HIDE DEF T, l, w
    <3>2. w \in Seq(T) /\ Len(w) = Len(r)
      BY <1>7, <2>2, <3>1
    <3> QED BY <3>2, SeqIsSeq
  <2> QED BY <1>3, <2>1, <2>2
<1>9. ASSUME ~PassThrough PROVE Like(Ahead, Ahead') /\ (end' = "open" => Len(Ahead') % 2 = 0)
  <2>1. InTurn(c \o r, talk.parts) /\ Ahead = c \o r
    BY <1>2, <1>5, <1>9 DEF WireInv, Ahead
  <2>2. \A k \in DOMAIN r : DOMAIN r[k] = {"f", "line"}
    BY <1>5, <2>1, LinesOf
  <2>3. Like(r, w)
    <3>1. CASE w = r
      BY <1>5, <2>2, <3>1, LikeSelf
    <3>2. CASE r # <<>> /\ HasText(r[1]) /\ w = [r EXCEPT ![1] = Garble(@)]
      <4> DEFINE f == r[1].f
                 x == <<Garbled>>
                 g == [f EXCEPT !.x = x]
                 l == [r[1] EXCEPT !.f = g]
      <4>1. w = [r EXCEPT ![1] = l] /\ 1 \in DOMAIN r
        BY <1>7, <3>2 DEF Garble
      <4>2. "x" \in DOMAIN f
        BY <3>2 DEF HasText
      <4>3. Alike(f, g)
        <5> HIDE DEF f, x
        <5> QED BY <4>2 DEF Alike
      <4> HIDE DEF g, w
      <4>4. Like(r, w)
        BY <1>5, <2>2, <4>1, <4>3, LikeChange
      <4> QED BY <4>4
    <3> QED BY <1>3, <3>1, <3>2
  <2>4. Ahead' = c \o w
    BY <1>3, <1>9 DEF Ahead
  <2> HIDE DEF w
  <2>5. Like(c \o r, c \o w)
    BY <1>5, <2>1, <2>3, LikeConcat
  <2>6. Len(c \o w) = Len(c \o r)
    <3> DEFINE S == { w[k] : k \in DOMAIN w } \cup { c[k] : k \in DOMAIN c } \cup { r[k] : k \in DOMAIN r }
    <3>1. w \in Seq(S)
      BY <1>8, SeqWithin
    <3>2. c \in Seq(S) /\ r \in Seq(S)
      BY <1>5, SeqWithin
    <3> HIDE DEF S
    <3>3. Len(c \o w) = Len(c) + Len(w)
      BY <3>1, <3>2, ConcatProperties
    <3>4. Len(c \o r) = Len(c) + Len(r)
      BY <3>2, ConcatProperties
    <3> QED BY <1>8, <3>3, <3>4
  <2>7. end = "open" => Len(Ahead) % 2 = 0
    BY <1>2, <1>9 DEF WireInv
  <2> QED BY <1>2, <2>1, <2>4, <2>5, <2>6, <2>7
<1> QED BY <1>6, <1>8, <1>9 DEF w

\* Nothing else changes.
LEMMA ReadChunkKeeps ==
    ASSUME WireInv, StreamInv, ReadChunk PROVE WireInv' /\ StreamInv'
<1>1. ~hung /\ UNCHANGED <<conn, talk, end, dec, enc, pending, done, finalized, got, hung>>
  BY DEF ReadChunk
<1>2. Talks(talk') /\ talk'.parts = talk.parts
  BY <1>1 DEF WireInv
<1>3. /\ IsSeq(buf') /\ IsSeq(wire')
      /\ ~PassThrough => Like(Ahead, Ahead') /\ (end' = "open" => Len(Ahead') % 2 = 0)
  BY ChunkLike
<1> QED BY <1>1, <1>2, <1>3, LikeKeeps


-----------------------------------------------------------------------------
(* The driver.                                                                *)

\* The first frame out of the buffer.
LEMMA TakeTwo ==
    ASSUME NEW s, IsSeq(s), NEW a, IsSeq(a), Len(s) >= 2
    PROVE  /\ SubSeq(s, 3, Len(s)) \o a = SubSeq(s \o a, 3, Len(s \o a))
           /\ IsSeq(SubSeq(s, 3, Len(s))) /\ s \o a # <<>> /\ (s \o a)[1] = s[1]
           /\ Len(s \o a) % 2 = 0 => Len(SubSeq(s \o a, 3, Len(s \o a))) % 2 = 0
<1> DEFINE S == { s[k] : k \in DOMAIN s } \cup { a[k] : k \in DOMAIN a }
           p == SubSeq(s, 3, Len(s))
           C == s \o a
           q == SubSeq(C, 3, Len(C))
           D == p \o a
<1>0. \A m \in Nat : \A x : m >= 2 /\ x = (IF 3 <= m THEN m - 2 ELSE 0) => x = m - 2
  OBVIOUS
<1>1. s \in Seq(S) /\ a \in Seq(S) /\ Len(s) \in Nat /\ Len(a) \in Nat
  <2>1. s \in Seq(S) /\ a \in Seq(S)
    BY SeqWithin
  <2> HIDE DEF S
  <2> QED BY <2>1
<1> HIDE DEF S
<1>2. p \in Seq(S) /\ Len(p) = Len(s) - 2 /\ \A k \in 1 .. Len(p) : p[k] = s[k + 2]
  <2>1. p \in Seq(S)
    BY <1>1
  <2>2. Len(p) = IF 3 <= Len(s) THEN Len(s) - 2 ELSE 0
    BY <1>1
  <2>3. \A k \in 1 .. Len(p) : p[k] = s[k + 2]
    BY <1>1
  <2> HIDE DEF p
  <2>4. Len(p) = Len(s) - 2
    BY <1>0, <1>1, <2>2
  <2> QED BY <2>1, <2>3, <2>4
<1>3. /\ C \in Seq(S) /\ Len(C) = Len(s) + Len(a)
      /\ \A k \in 1 .. Len(s) + Len(a) : C[k] = IF k <= Len(s) THEN s[k] ELSE a[k - Len(s)]
  BY <1>1, ConcatProperties
<1> HIDE DEF C, p
<1>4. /\ D \in Seq(S) /\ Len(D) = Len(p) + Len(a)
      /\ \A k \in 1 .. Len(p) + Len(a) : D[k] = IF k <= Len(p) THEN p[k] ELSE a[k - Len(p)]
  BY <1>1, <1>2, ConcatProperties
<1>5. q \in Seq(S) /\ Len(q) = Len(C) - 2 /\ \A k \in 1 .. Len(q) : q[k] = C[k + 2]
  <2>0. C \in Seq(S) /\ Len(C) \in Nat /\ Len(C) >= 2
    BY <1>1, <1>3
  <2>1. q \in Seq(S)
    BY <2>0
  <2>2. Len(q) = IF 3 <= Len(C) THEN Len(C) - 2 ELSE 0
    BY <2>0
  <2>3. \A k \in 1 .. Len(q) : q[k] = C[k + 2]
    BY <2>0
  <2> HIDE DEF q
  <2>4. Len(q) = Len(C) - 2
    BY <1>0, <2>0, <2>2
  <2> QED BY <2>1, <2>3, <2>4
<1> HIDE DEF D, q
<1>6. Len(D) = Len(q) /\ Len(D) \in Nat
  BY <1>1, <1>2, <1>3, <1>4, <1>5
<1>7. ASSUME NEW k \in 1 .. Len(D) PROVE D[k] = q[k]
  <2>1. k \in Nat /\ k >= 1 /\ k + 2 \in 1 .. Len(s) + Len(a) /\ q[k] = C[k + 2]
    BY <1>1, <1>2, <1>4, <1>5, <1>6
  <2>2. CASE k <= Len(p)
    <3>1. D[k] = p[k] /\ p[k] = s[k + 2] /\ k + 2 <= Len(s)
      BY <1>1, <1>2, <1>4, <2>1, <2>2
    <3> QED BY <1>3, <2>1, <3>1
  <2>3. CASE ~(k <= Len(p))
    <3>1. D[k] = a[k - Len(p)] /\ ~(k + 2 <= Len(s)) /\ k - Len(p) = k + 2 - Len(s)
      BY <1>1, <1>2, <1>4, <2>1, <2>3
    <3> QED BY <1>3, <2>1, <3>1
  <2> QED BY <2>2, <2>3
<1>8. D = q
  BY <1>4, <1>5, <1>6, <1>7, SeqEqual
<1>9. C # <<>> /\ C[1] = s[1]
  BY <1>1, <1>3
<1>10. IsSeq(p)
  BY <1>2, SeqIsSeq
<1>11. Len(C) % 2 = 0 => Len(q) % 2 = 0
  BY <1>1, <1>3, <1>5
<1> QED BY <1>8, <1>9, <1>10, <1>11 DEF C, D, p, q

\* One frame through decoder and encoder.
LEMMA ProcessKeeps ==
    ASSUME WireInv, StreamInv, ~hung, ~PassThrough, ~finalized, pending = <<>>, Ahead # <<>>,
           NEW B, B = SubSeq(Ahead, 3, Len(Ahead)), Ahead' = B, Process(Ahead[1].f),
           IsSeq(buf'), wire' = wire, UNCHANGED <<conn, talk, end, finalized, got, hung>>,
           end = "open" => Len(B) % 2 = 0
    PROVE  WireInv' /\ StreamInv'
<1> DEFINE f == Ahead[1].f
           parts == talk.parts
           live == Living(Ahead, parts)
           less == Living(B, parts)
           from == ReadAll(Client(conn.cl), got)
           d2 == dec'
           e2 == enc'
           c2 == ReadAll(from, e2.out)
<1>1. InTurn(B, parts) /\ Speaks(f, live, less)
  <2>1. InTurn(Ahead, parts)
    BY DEF WireInv
  <2> HIDE DEF parts
  <2> QED BY <2>1, InTurnTake
<1>2. d2 = DecodeFrame(conn.up, dec, f) /\ e2 = EncodeEvents(conn.cl, enc, d2.out) /\ pending' = e2.out
  BY DEF Process
<1>3. Payloads(got) /\ Payloads(pending) /\ Reads = from
  BY PayloadsEmpty DEF StreamInv, Reads
<1>4. Hearer(conn.cl, dec, enc, from, live)
  BY <1>3 DEF StreamInv
<1> HIDE DEF f, live, less, from, d2, e2
<1>5. Payloads(e2.out) /\ Hearer(conn.cl, d2, e2, c2, less)
  BY <1>1, <1>2, <1>4, ConnTyped, HearerFrame
<1>6. Reads' = c2
  <2>1. Reads' = ReadAll(Client(conn.cl), got \o e2.out)
    BY <1>2 DEF Reads
  <2> QED BY <1>3, <1>5, <2>1, PayloadsConcat DEF from
<1> HIDE DEF c2
<1>7. c2.ok
  BY <1>5 DEF Hearer, Hears, Reader
<1>8. WireInv'
  <2>1. Talks(talk') /\ IsSeq(buf') /\ IsSeq(wire')
    BY DEF WireInv
  <2>2. InTurn(Ahead', talk'.parts) /\ (end' = "open" => Len(Ahead') % 2 = 0)
    BY <1>1
  <2> QED BY <2>1, <2>2 DEF WireInv
<1>9. StreamInv'
  <2>1. conn' \in Conns /\ Payloads(got') /\ Payloads(pending') /\ Reads'.ok
    BY <1>2, <1>5, <1>6, <1>7 DEF StreamInv
  <2>2. ~(hung' \/ PassThrough') /\ ~finalized'
    BY DEF PassThrough
  <2>3. Hearer(conn'.cl, dec', enc', Reads', Living(Ahead', talk'.parts))
    BY <1>5, <1>6 DEF d2, e2, less
  <2> QED BY <2>1, <2>2, <2>3 DEF StreamInv
<1> QED BY <1>8, <1>9

\* A whole frame of the buffer.
LEMMA TakeFrameKeeps ==
    ASSUME WireInv, StreamInv, TakeFrame PROVE WireInv' /\ StreamInv'
<1>1. /\ ~PassThrough /\ ~hung /\ ~finalized /\ pending = <<>> /\ Len(buf) >= 2
      /\ Process(buf[1].f) /\ buf' = SubSeq(buf, 3, Len(buf)) /\ wire' = wire
      /\ UNCHANGED <<conn, talk, end, finalized, got, hung>>
  BY DEF TakeFrame, StreamInv, body
<1>2. IsSeq(buf) /\ IsSeq(wire) /\ (end = "open" => Len(Ahead) % 2 = 0)
  BY <1>1 DEF WireInv
<1> DEFINE B == SubSeq(Ahead, 3, Len(Ahead))
<1>3. /\ SubSeq(buf, 3, Len(buf)) \o wire = B /\ IsSeq(SubSeq(buf, 3, Len(buf)))
      /\ Ahead # <<>> /\ Ahead[1] = buf[1] /\ (Len(Ahead) % 2 = 0 => Len(B) % 2 = 0)
  BY <1>1, <1>2, TakeTwo DEF Ahead
<1>4. Ahead' = B /\ IsSeq(buf') /\ Process(Ahead[1].f)
  BY <1>1, <1>3 DEF Ahead
<1> HIDE DEF B
<1> QED BY <1>1, <1>2, <1>3, <1>4, ProcessKeeps DEF B

\* The last line without its end counts as a frame.
LEMMA ReadEndKeeps ==
    ASSUME WireInv, StreamInv, ReadEnd PROVE WireInv' /\ StreamInv'
<1>1. /\ ~PassThrough /\ ~hung /\ ~finalized /\ pending = <<>> /\ wire = <<>> /\ end # "open" /\ Len(buf) < 2
      /\ wire' = wire /\ UNCHANGED <<conn, talk, end, finalized, got, hung>>
  BY DEF ReadEnd, AtEnd, StreamInv, body
<1>2. CASE end = "eof" /\ buf # <<>>
  <2>1. Process(buf[1].f) /\ buf' = <<>> /\ IsSeq(buf)
    BY <1>2 DEF ReadEnd, WireInv
  <2> DEFINE S == { buf[k] : k \in DOMAIN buf }
             B == SubSeq(Ahead, 3, Len(Ahead))
  <2>2. buf \in Seq(S)
    BY <2>1 DEF IsSeq
  <2> HIDE DEF S
  <2>3. Ahead = buf
    BY <1>1, <2>2 DEF Ahead
  <2>4. B = <<>>
    <3>1. SubSeq(buf, 3, Len(buf)) = <<>>
      BY <1>1, <2>2
    <3> QED BY <2>3, <3>1
  <2>5. Ahead' = <<>>
    BY <1>1, <2>1 DEF Ahead
  <2>6. Ahead # <<>> /\ Ahead' = B /\ Process(Ahead[1].f)
    BY <1>2, <2>1, <2>3, <2>4, <2>5
  <2>7. IsSeq(buf')
    BY <2>1, SequencesOf
  <2> HIDE DEF B
  <2> QED BY <1>1, <2>6, <2>7, ProcessKeeps DEF B
<1>3. CASE ~(end = "eof" /\ buf # <<>>)
  <2>1. done' /\ UNCHANGED <<buf, dec, enc, pending>>
    BY <1>3 DEF ReadEnd
  <2>2. WireInv'
    BY <1>1, <2>1 DEF WireInv, PassThrough, Ahead
  <2>3. StreamInv'
    BY <1>1, <2>1 DEF StreamInv, PassThrough, Ahead, Reads
  <2> QED BY <2>2, <2>3
<1> QED BY <1>2, <1>3

\* What closes the stream is read without a fault.
LEMMA FinalizeKeeps ==
    ASSUME WireInv, StreamInv, Finalize PROVE WireInv' /\ StreamInv'
<1>1. /\ ~PassThrough /\ ~hung /\ done /\ ~finalized /\ pending = <<>>
      /\ finalized' /\ UNCHANGED <<conn, talk, wire, end, buf, done, got, hung>>
      /\ dec' = DecodeEnd(dec) /\ enc' = EncodeEvents(conn.cl, enc, dec'.out) /\ pending' = enc'.out
  BY DEF Finalize, body
<1> DEFINE from == ReadAll(Client(conn.cl), got)
           d2 == dec'
           x == enc'
           live == Living(Ahead, talk.parts)
<1>2. Payloads(got) /\ Payloads(pending) /\ Reads = from
  BY <1>1, PayloadsEmpty DEF StreamInv, Reads
<1>3. Hearer(conn.cl, dec, enc, from, live)
  BY <1>1, <1>2 DEF StreamInv
<1>4. d2 = DecodeEnd(dec) /\ x = EncodeEvents(conn.cl, enc, d2.out) /\ pending' = x.out
  BY <1>1
<1> HIDE DEF from, d2, x, live
<1>5. Payloads(x.out) /\ ReadAll(from, x.out).ok
  BY <1>3, <1>4, HearerEnd
<1>6. Reads'.ok
  <2>1. Reads' = ReadAll(Client(conn.cl), got \o x.out)
    BY <1>1, <1>4 DEF Reads
  <2> QED BY <1>2, <1>5, <2>1, PayloadsConcat DEF from
<1>7. WireInv'
  BY <1>1 DEF WireInv, PassThrough, Ahead
<1>8. StreamInv'
  <2>1. conn' \in Conns /\ Payloads(got') /\ Payloads(pending')
    BY <1>1, <1>4, <1>5 DEF StreamInv
  <2> QED BY <1>1, <1>6, <2>1 DEF StreamInv, PassThrough
<1> QED BY <1>7, <1>8

\* The client takes the first payload.
LEMMA TakeOne ==
    ASSUME NEW g, Payloads(g), NEW p, Payloads(p), p # <<>>
    PROVE  /\ Append(g, Head(p)) \o Tail(p) = g \o p
           /\ Payloads(Append(g, Head(p))) /\ Payloads(Tail(p))
<1> DEFINE S == { g[n] : n \in DOMAIN g } \cup { p[n] : n \in DOMAIN p }
           h == Head(p)
           t == Tail(p)
           a == Append(g, h)
<1>1. g \in Seq(S) /\ p \in Seq(S) /\ \A q \in S : q.t \in Tags
  BY DEF Payloads, IsSeq
<1> HIDE DEF S
<1>2. h \in S /\ t \in Seq(S) /\ Len(t) = Len(p) - 1 /\ Len(p) \in Nat /\ Len(p) >= 1
      /\ h = p[1] /\ \A n \in 1 .. Len(t) : t[n] = p[n + 1]
  BY <1>1
<1> HIDE DEF h, t
<1>3. /\ a \in Seq(S) /\ Len(a) = Len(g) + 1 /\ Len(g) \in Nat /\ a[Len(g) + 1] = h
      /\ \A n \in 1 .. Len(g) : a[n] = g[n]
  BY <1>1, <1>2
<1> HIDE DEF a
<1>4. Payloads(a) /\ Payloads(t)
  <2>1. IsSeq(a) /\ IsSeq(t)
    BY <1>2, <1>3, SeqIsSeq
  <2>2. (\A n \in DOMAIN a : a[n] \in S) /\ (\A n \in DOMAIN t : t[n] \in S)
    BY <1>2, <1>3
  <2> QED BY <1>1, <2>1, <2>2 DEF Payloads
<1> DEFINE c == a \o t
           d == g \o p
<1>5. /\ c \in Seq(S) /\ Len(c) = Len(a) + Len(t)
      /\ \A n \in 1 .. Len(a) + Len(t) : c[n] = IF n <= Len(a) THEN a[n] ELSE t[n - Len(a)]
  BY <1>2, <1>3, ConcatProperties
<1>6. /\ d \in Seq(S) /\ Len(d) = Len(g) + Len(p)
      /\ \A n \in 1 .. Len(g) + Len(p) : d[n] = IF n <= Len(g) THEN g[n] ELSE p[n - Len(g)]
  BY <1>1, ConcatProperties
<1> HIDE DEF c, d
<1>7. Len(c) = Len(d) /\ Len(c) = Len(g) + Len(p)
  BY <1>2, <1>3, <1>5, <1>6
<1>8. ASSUME NEW n \in 1 .. Len(c) PROVE c[n] = d[n]
  <2>1. n \in Nat /\ n >= 1 /\ n <= Len(g) + Len(p)
    BY <1>2, <1>3, <1>7
  <2>0. /\ c[n] = IF n <= Len(a) THEN a[n] ELSE t[n - Len(a)]
        /\ d[n] = IF n <= Len(g) THEN g[n] ELSE p[n - Len(g)]
    <3>1. n \in 1 .. Len(a) + Len(t) /\ n \in 1 .. Len(g) + Len(p)
      BY <1>5, <1>7
    <3> QED BY <3>1, <1>5, <1>6
  <2>2. CASE n <= Len(g)
    <3>1. n <= Len(a) /\ n \in 1 .. Len(g)
      BY <1>3, <2>1, <2>2
    <3> QED BY <1>3, <2>0, <2>2, <3>1
  <2>3. CASE n = Len(g) + 1
    <3>1. n <= Len(a) /\ ~(n <= Len(g)) /\ n - Len(g) = 1
      BY <1>3, <2>1, <2>3
    <3> QED BY <1>2, <1>3, <2>0, <2>3, <3>1
  <2>4. CASE n > Len(g) + 1
    <3>1. n - Len(a) \in 1 .. Len(t) /\ (n - Len(a)) + 1 = n - Len(g)
      BY <1>2, <1>3, <2>1, <2>4
    <3>2. c[n] = t[n - Len(a)] /\ d[n] = p[n - Len(g)]
      <4>1. ~(n <= Len(a)) /\ ~(n <= Len(g))
        BY <1>3, <2>1, <2>4
      <4> QED BY <2>0, <4>1
    <3> QED BY <1>2, <3>1, <3>2
  <2> QED BY <1>3, <2>1, <2>2, <2>3, <2>4
<1>9. c = d
  BY <1>5, <1>6, <1>7, <1>8, SeqEqual
<1> QED BY <1>4, <1>9 DEF a, h, t, c, d

\* A payload for the client.
LEMMA YieldKeeps ==
    ASSUME WireInv, StreamInv, Yield PROVE WireInv' /\ StreamInv'
<1>1. /\ ~hung /\ pending # <<>> /\ got' = Append(got, Head(pending)) /\ pending' = Tail(pending)
      /\ UNCHANGED <<conn, talk, wire, end, buf, dec, enc, done, finalized, hung>>
  BY DEF Yield, body
<1>2. Payloads(got') /\ Payloads(pending') /\ got' \o pending' = got \o pending
  BY <1>1, TakeOne DEF StreamInv
<1>3. Reads' = Reads
  BY <1>1, <1>2 DEF Reads
<1>4. WireInv'
  BY <1>1 DEF WireInv, PassThrough, Ahead
<1>5. ~PassThrough
  BY <1>1 DEF StreamInv
<1>6. StreamInv'
  BY <1>1, <1>2, <1>3, <1>5 DEF StreamInv, PassThrough, Ahead
<1> QED BY <1>4, <1>6

\* What the client has read is without a fault.
LEMMA NoFaultYet == ASSUME StreamInv PROVE ReadAll(Client(conn.cl), got).ok
<1> DEFINE c == Client(conn.cl)
           b == ReadAll(c, got)
<1>1. IsClient(c)
  BY DEF IsClient, ClientFields, Client
<1> HIDE DEF c
<1>2. Stays(c, b)
  BY FaultsStay DEF StreamInv
<1>3. Reads = ReadAll(b, pending)
  BY PayloadsConcat DEF StreamInv, Reads, c
<1> HIDE DEF b
<1>4. Stays(b, Reads)
  BY <1>3, FaultsStay DEF StreamInv
<1>5. b.ok
  BY <1>1, <1>2, <1>4 DEF Stays, StreamInv
<1> QED BY <1>5 DEF b, c

\* The client hangs up.
LEMMA HangUpKeeps ==
    ASSUME WireInv, StreamInv, HangUp PROVE WireInv' /\ StreamInv'
<1>1. /\ hung' /\ wire' = <<>> /\ buf' = <<>> /\ pending' = <<>>
      /\ UNCHANGED <<conn, talk, done, finalized, got>>
  BY DEF HangUp
<1>2. WireInv'
  BY <1>1, SequencesOf DEF WireInv
<1>3. Reads'.ok
  <2>1. Reads' = ReadAll(Client(conn.cl), got)
    BY <1>1, PayloadsEmpty DEF StreamInv, Reads
  <2> QED BY <2>1, NoFaultYet
<1>4. StreamInv'
  BY <1>1, <1>3, PayloadsEmpty DEF StreamInv
<1> QED BY <1>2, <1>4

\* A forwarded stream ends.
LEMMA ScanEndKeeps ==
    ASSUME WireInv, StreamInv, ScanEnd PROVE WireInv' /\ StreamInv'
<1>1. /\ PassThrough /\ ~hung /\ done' /\ (buf' = buf \/ buf' = <<>>)
      /\ UNCHANGED <<conn, talk, wire, end, pending, finalized, got, hung>>
  BY DEF ScanEnd, body
<1>2. IsSeq(buf')
  BY <1>1, SequencesOf DEF WireInv
<1>3. PassThrough' /\ Reads' = Reads
  BY <1>1 DEF PassThrough, Reads
<1> QED BY <1>1, <1>2, <1>3 DEF WireInv, StreamInv

-----------------------------------------------------------------------------
(* The invariant.                                                             *)

\* At the start the client knows what the decoder knows: nothing.
LEMMA StartsHeard ==
    ASSUME NEW cl \in Formats, NEW live
    PROVE  Hearer(cl, Decoder, Encoder, Client(cl), live)
<1> DEFINE d == Decoder
           e == Encoder
           c == Client(cl)
           b == Bare(d)
<1>1. /\ DOMAIN d = DecoderFields /\ ~d.started /\ d.started \in BOOLEAN /\ ~d.finished /\ d.next = 0
      /\ d.open = <<>> /\ d.keys = <<>> /\ d.text = None /\ d.reasoning = None
  BY DEF Decoder, DecoderFields
<1>2. /\ DOMAIN e = EncoderFields /\ ~e.started /\ e.started \in BOOLEAN /\ e.out = <<>> /\ e.kinds = <<>>
      /\ e.tools = <<>> /\ e.open = <<>> /\ e.nextOutput = 0
  BY DEF Encoder, EncoderFields
<1>3. /\ DOMAIN c = ClientFields /\ c.format = cl /\ c.ok /\ ~c.started /\ c.started \in BOOLEAN
      /\ ~c.ended /\ c.open = {} /\ c.blocks = <<>>
  BY DEF Client, ClientFields
<1>4. IsSeq(<<>>) /\ DOMAIN <<>> = {} /\ Len(<<>>) = 0 /\ ToSet(<<>>) = {} /\ Payloads(<<>>)
  BY SequencesOf, PayloadsEmpty DEF ToSet
<1>5. /\ DOMAIN b = DecoderFields /\ ~b.started /\ b.started \in BOOLEAN /\ ~b.finished /\ b.next = 0
      /\ b.open = <<>> /\ b.keys = <<>> /\ b.text = None /\ b.reasoning = None /\ b.out = <<>>
  <2> HIDE DEF d
  <2> QED BY <1>1 DEF Bare, DecoderFields
<1> HIDE DEF d, e, c, b
<1>6. Tracks(b, live)
  BY <1>4, <1>5 DEF Tracks
<1>7. Writer(e) /\ Reader(cl, c) /\ c.started = e.started
  BY <1>2, <1>3, <1>4 DEF Writer, Reader
<1>8. HearsAnthropic(0, {}, e, c) /\ HearsOpenAI(0, e, c) /\ HearsResponses({}, e, c)
  <2>1. HearsAnthropic(0, {}, e, c)
    BY <1>2, <1>3, <1>4 DEF HearsAnthropic
  <2>2. HearsOpenAI(0, e, c)
    BY <1>2, <1>3, <1>4 DEF HearsOpenAI
  <2>3. HearsResponses({}, e, c)
    BY <1>2, <1>3, <1>4 DEF HearsResponses
  <2> QED BY <2>1, <2>2, <2>3
<1>9. Hears(cl, 0, {}, e, c)
  BY <1>7, <1>8 DEF Hears
<1>10. Hears(cl, d.next, ToSet(d.open), e, c) /\ e.started = d.started
  BY <1>1, <1>2, <1>4, <1>9
<1>11. Hearer(cl, d, e, c, live)
  BY <1>6, <1>10 DEF Hearer, b
<1> QED BY <1>11 DEF d, e, c

\* The initial states,
LEMMA InitKeeps == ASSUME Init PROVE WireInv /\ StreamInv
<1>1. /\ conn \in Conns /\ wire = <<>> /\ buf = <<>> /\ dec = Decoder /\ enc = Encoder
      /\ pending = <<>> /\ ~finalized /\ got = <<>> /\ ~hung
  BY DEF Init
<1>2. Talks(talk)
  <2>1. PICK u : talk = [phase |-> "new", parts |-> <<>>, pieces |-> 0, stop |-> "none", usage |-> u]
    BY DEF Init
  <2>2. DOMAIN talk = {"phase", "parts", "pieces", "stop", "usage"} /\ talk.parts = <<>>
    BY <2>1
  <2> QED BY <2>2, SequencesOf DEF Talks, Parted
<1>3. Ahead = <<>> /\ got \o pending = <<>>
  BY <1>1 DEF Ahead
<1>4. InTurn(<<>>, talk.parts) /\ Len(<<>>) % 2 = 0
  <2>1. IsSeq(<<>>) /\ DOMAIN <<>> = {}
    BY SequencesOf
  <2>2. InTurn(<<>>, talk.parts)
    BY <2>1 DEF InTurn
  <2> QED BY <2>2
<1>5. WireInv
  BY <1>1, <1>2, <1>3, <1>4, SequencesOf DEF WireInv
<1>6. Reads = Client(conn.cl) /\ Reads.ok
  <2>1. Reads = Client(conn.cl)
    BY <1>3, ReadsNothing DEF Reads
  <2> QED BY <2>1 DEF Client
<1>7. conn.cl \in Formats
  BY <1>1, StreamAssumption
<1>8. StreamInv
  BY <1>1, <1>6, <1>7, StartsHeard, PayloadsEmpty DEF StreamInv
<1> QED BY <1>5, <1>8

\* and every step.
LEMMA NextKeeps == ASSUME WireInv, StreamInv, [Next]_vars PROVE WireInv' /\ StreamInv'
<1>1. CASE ~hung /\ Upstream
  BY <1>1, UpStartKeeps, UpPieceKeeps, UpCloseKeeps, UpWholeCallKeeps, UpFinishKeeps, UpClosedKeeps,
     UpBreakKeeps, UpOpenKeeps DEF Upstream
<1>2. CASE Proxy
  BY <1>2, ReadChunkKeeps, TakeFrameKeeps, ReadEndKeeps, FinalizeKeeps, YieldKeeps, ScanEndKeeps DEF Proxy
<1>3. CASE HangUp
  BY <1>3, HangUpKeeps
<1>4. CASE UNCHANGED vars
  <2>1. UNCHANGED <<conn, talk, wire, end, buf, dec, enc, pending, done, finalized, got, hung>>
    BY <1>4 DEF vars, body, driver
  <2> QED BY <2>1 DEF WireInv, StreamInv, Ahead, Reads, PassThrough
<1> QED BY <1>1, <1>2, <1>3, <1>4 DEF Next, Stopped

\* What is on its way to the proxy is in turn and about parts that live; what the client has
\* read, and what is on its way to it, is what the encoder wrote of the decoder's blocks.
THEOREM ClientFollowsDecoder == Spec => [](WireInv /\ StreamInv)
<1>1. Init => WireInv /\ StreamInv
  BY InitKeeps
<1>2. (WireInv /\ StreamInv) /\ [Next]_vars => (WireInv /\ StreamInv)'
  BY NextKeeps
<1> QED BY <1>1, <1>2, PTL DEF Spec

\* Whatever the formats, the upstream, the cuts of the network and the moment the connection
\* breaks or the client hangs up, what the client gets is a legal stream of its format.
THEOREM ClientStreamIsWellFormed == Spec => []WellFormed
<1>1. WireInv /\ StreamInv => WellFormed
  BY NoFaultYet DEF WellFormed, Received, ReadAll
<1> QED BY <1>1, ClientFollowsDecoder, PTL
=============================================================================
