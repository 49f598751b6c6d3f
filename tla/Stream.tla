------------------------------ MODULE Stream ------------------------------
(***************************************************************************)
(* One streamed answer on its way from an upstream to a client             *)
(* (application/streams.rs, domain/sse.rs).  The upstream (external) talks  *)
(* any legal stream of its format and may break off anywhere; the network  *)
(* cuts the bytes where it likes; the proxy reassembles frames and either  *)
(* translates them (Driver over IrMachine) or forwards the bytes and scans *)
(* them (ScannedStream); the client may hang up at any time, which drops   *)
(* the stream.                                                             *)
(***************************************************************************)
EXTENDS StreamIR

CONSTANTS
    Conns,      \* the pairs of formats [up, cl] of the connection
    MaxParts,   \* bound: parts the upstream's answer has
    MaxPieces,  \* bound: pieces of text in the whole answer
    MaxWire,    \* bound: lines in flight when the upstream goes on talking
    Usages,     \* raw usage reports of the upstream, [first, final] per answer
    Stops,      \* stop reasons of the upstream, in its own words
    Cuts        \* the connections whose network may cut inside a character

ASSUME StreamAssumption ==
    /\ Conns \subseteq [up : Formats, cl : Formats] /\ Cuts \subseteq Conns
    /\ MaxWire \in Nat

(* A stream's reports are cumulative, as merge_usage expects: a count that  *)
(* comes again is no smaller.                                               *)
Counts == [input : Nat, output : Nat, read : Nat \cup {None}, write : Nat]
Cumulative(a, b) == \A f \in {"input", "output", "write"} : b[f] > 0 => b[f] >= a[f]

ASSUME UsagesAssumption ==
    \A up \in Formats : \A u \in Usages[up] :
        /\ {u.first, u.final} \subseteq Counts
        /\ Cumulative(ParseUsage(up, u.first), ParseUsage(up, u.final))

VARIABLES
    conn,       \* the formats of this connection
    talk,       \* the upstream's answer: its parts as said so far (ghost) and its phase
    wire,       \* lines in flight: each frame is its data line and the blank line
    end,        \* how the upstream's side of the connection stands
    buf,        \* FrameState.buf / ScannedStream.buf
    dec, enc,   \* IrMachine
    scan,       \* ScannedStream.usage
    energy,     \* the last energy comment
    pending, done, finalized,   \* Driver
    rows,       \* what the capture recorded
    got,        \* payloads the client received
    hung,       \* the client hung up: the stream is dropped
    taken       \* frames parsed so far (history)

body == <<wire, end>>
driver == <<buf, dec, enc, scan, energy, pending, done, finalized, rows, got, taken>>
vars == <<conn, talk, body, driver, hung>>

PassThrough == conn.up = conn.cl
Garbled == 0

-----------------------------------------------------------------------------
(* The upstream.  A part is a block of its answer; pieces are numbered in   *)
(* the order they are said.                                                 *)

Part(kind, x) == [kind |-> kind, x |-> x, open |-> TRUE]
NextPiece == <<talk.pieces + 1>>

Chunk(r, c, calls) == [t |-> "chunk", reasoning |-> r, content |-> c, calls |-> calls,
                       finish |-> "none", usage |-> NoUsage]
ProseChunk(kind, x) == IF kind = "text" THEN Chunk(<<>>, x, <<>>) ELSE Chunk(x, <<>>, <<>>)
CallChunk(n, x) == Chunk(<<>>, <<>>, << [index |-> n, x |-> x] >>)

StartFrames ==
    CASE conn.up = "anthropic" -> << [t |-> "message_start", usage |-> talk.usage.first] >>
      [] conn.up = "openai" -> << [Chunk(<<>>, <<>>, <<>>) EXCEPT !.usage = talk.usage.first] >>
      [] conn.up = "responses" -> << [t |-> "created", status |-> "in_progress",
                                      usage |-> NoUsage, output |-> <<>>] >>

OpenFrames(n, kind) ==
    CASE conn.up = "anthropic" -> << [t |-> "content_block_start", index |-> n, kind |-> kind] >>
      [] conn.up = "openai" -> IF kind = "tool" THEN << CallChunk(n, <<>>) >> ELSE <<>>
      [] conn.up = "responses" -> << [t |-> "item_added", kind |-> kind, key |-> n] >>

PieceFrames(n, kind, x) ==
    CASE conn.up = "anthropic" ->
            << [t |-> "content_block_delta", index |-> n, kind |-> kind, x |-> x] >>
      [] conn.up = "openai" -> << IF kind = "tool" THEN CallChunk(n, x) ELSE ProseChunk(kind, x) >>
      [] conn.up = "responses" ->
            << IF kind = "tool" THEN [t |-> "arguments_delta", key |-> n, x |-> x]
                                ELSE [t |-> "prose_delta", kind |-> kind, x |-> x] >>

CloseFrames(n) ==
    CASE conn.up = "anthropic" -> << [t |-> "content_block_stop", index |-> n] >>
      [] conn.up = "openai" -> <<>>
      [] conn.up = "responses" -> << [t |-> "item_done", kind |-> talk.parts[n].kind,
                                      key |-> n, x |-> talk.parts[n].x] >>

Said == [n \in DOMAIN talk.parts |-> [kind |-> talk.parts[n].kind, x |-> talk.parts[n].x]]

(* The terminal envelope of some Responses upstreams repeats the output,    *)
(* that of others leaves it empty.                                          *)
FinishFrames(stop, repeats) ==
    CASE conn.up = "anthropic" ->
            << [t |-> "message_delta", stop |-> stop, usage |-> talk.usage.final],
               [t |-> "message_stop"] >>
      [] conn.up = "openai" ->
            << [Chunk(<<>>, <<>>, <<>>) EXCEPT !.finish = stop],
               [Chunk(<<>>, <<>>, <<>>) EXCEPT !.usage = talk.usage.final],
               [t |-> "[DONE]"] >>
      [] conn.up = "responses" ->
            << [t |-> "completed", status |-> IF stop = "max_tokens" THEN "incomplete" ELSE "completed",
                usage |-> talk.usage.final, output |-> IF repeats THEN Said ELSE <<>>] >>

Lines(frames) ==
    [n \in 1 .. 2 * Len(frames) |->
        [f |-> frames[(n + 1) \div 2], line |-> IF n % 2 = 1 THEN "data" ELSE "blank"]]

Send(frames) ==
    /\ end = "open"
    /\ Len(wire) <= MaxWire
    /\ wire' = wire \o Lines(frames)
    /\ UNCHANGED <<conn, end, driver, hung>>

UpStart ==
    /\ talk.phase = "new"
    /\ talk' = [talk EXCEPT !.phase = "talk"]
    /\ Send(StartFrames)

(* Chat Completions has no blocks: prose starts with its first piece and    *)
(* ends where another kind starts, while tool calls may go on side by side. *)
Quiet(parts) == \A n \in DOMAIN parts : ~parts[n].open
MayOpen(kind) ==
    IF conn.up = "openai"
    THEN kind = "tool" \/ kind \notin {talk.parts[n].kind : n \in {Len(talk.parts)} \ {0}}
    ELSE Quiet(talk.parts)

UpOpen(kind) ==
    LET parts == [n \in DOMAIN talk.parts |->
                    [talk.parts[n] EXCEPT !.open = @ /\ talk.parts[n].kind = "tool"]]
        n == Len(parts) + 1
        first == conn.up = "openai" /\ kind \in Prose
        x == IF first THEN NextPiece ELSE <<>>
    IN  /\ talk.phase = "talk" /\ n <= MaxParts
        /\ MayOpen(kind)
        /\ first => talk.pieces < MaxPieces
        /\ talk' = [talk EXCEPT !.parts = Append(parts, Part(kind, x)), !.pieces = @ + Len(x)]
        /\ Send(IF first THEN PieceFrames(n, kind, x) ELSE OpenFrames(n, kind))

UpPiece ==
    \E n \in DOMAIN talk.parts :
        /\ talk.phase = "talk" /\ talk.parts[n].open /\ talk.pieces < MaxPieces
        /\ talk' = [talk EXCEPT !.parts[n].x = @ \o NextPiece, !.pieces = @ + 1]
        /\ Send(PieceFrames(n, talk.parts[n].kind, NextPiece))

UpClose ==
    \E n \in DOMAIN talk.parts :
        /\ talk.phase = "talk" /\ talk.parts[n].open /\ conn.up # "openai"
        /\ talk' = [talk EXCEPT !.parts[n].open = FALSE]
        /\ Send(CloseFrames(n))

(* A call that comes only as a finished item.                               *)
UpWholeCall ==
    LET n == Len(talk.parts) + 1
    IN  /\ conn.up = "responses" /\ talk.phase = "talk"
        /\ n <= MaxParts /\ talk.pieces < MaxPieces /\ Quiet(talk.parts)
        /\ talk' = [talk EXCEPT !.parts = Append(@, [Part("tool", NextPiece) EXCEPT !.open = FALSE]),
                                !.pieces = @ + 1]
        /\ Send(<< [t |-> "item_done", kind |-> "tool", key |-> n, x |-> NextPiece] >>)

(* An energy-priced provider's comment line comes before the end.           *)
Comment == [t |-> "comment", energy |-> 1]

Calls == \E n \in DOMAIN talk.parts : talk.parts[n].kind = "tool"

UpFinish ==
    /\ talk.phase = "talk"
    /\ conn.up # "openai" => Quiet(talk.parts)
    /\ \E stop \in Stops[conn.up], repeats, comments \in BOOLEAN :
        /\ repeats => conn.up = "responses"
        /\ stop \in {"tool_use", "tool_calls"} => Calls
        /\ stop = "end_turn" => ~Calls
        /\ talk' = [talk EXCEPT !.phase = "finished", !.stop = stop]
        /\ Send((IF comments THEN << Comment >> ELSE <<>>) \o FinishFrames(stop, repeats))

UpClosed ==
    /\ talk.phase = "finished" /\ end = "open"
    /\ end' = "eof"
    /\ UNCHANGED <<conn, talk, wire, driver, hung>>

(* The connection breaks at any of the lines on their way, or inside a data *)
(* line (which is not JSON then).                                           *)
UpBreak ==
    /\ end = "open"
    /\ end' \in {"eof", "error"}
    /\ talk' = [talk EXCEPT !.phase = "broken"]
    /\ \E n \in 0 .. Len(wire) :
          LET kept == SubSeq(wire, 1, n)
          IN  \/ wire' = kept
              \/ /\ n > 0 /\ wire[n].line = "data"
                 /\ wire' = [kept EXCEPT ![n].f = [t |-> "junk"]]
    /\ UNCHANGED <<conn, driver, hung>>

Upstream == \/ UpStart \/ UpPiece \/ UpClose \/ UpWholeCall \/ UpFinish
            \/ UpClosed \/ UpBreak
            \/ \E kind \in Kinds : UpOpen(kind)

-----------------------------------------------------------------------------
(* Frames.  A chunk is any number of lines; from_utf8_lossy looks at each   *)
(* chunk alone, so a character cut by the end of one is lost.               *)

HasText(l) == l.line = "data" /\ "x" \in DOMAIN l.f

Garble(l) == [l EXCEPT !.f.x = <<Garbled>>]

(* A frame ends with its blank line.                                        *)
Taken(b) == [n \in 1 .. Len(b) \div 2 |-> b[2 * n - 1].f]

\* Mutant: feed_frames returns whole frames but leaves them in the buffer.
RestUndrained(b) == b

(* The lone data line left in the buffer, once every whole frame is out.    *)
Rest(b) == IF b # <<>> /\ Last(b).line = "data" THEN << Last(b) >> ELSE <<>>

\* Mutant: a read error is taken for silence.
AtEndOfFile == wire = <<>> /\ end = "eof"

(* The body has no more to give: it ended or failed.                        *)
AtEnd == wire = <<>> /\ end # "open"

EnergyAfter(g, f) == IF f.t = "comment" THEN f.energy ELSE g

UsageIn(format, f) ==
    IF "usage" \in DOMAIN f THEN ParseUsage(format, f.usage) ELSE NoUsage
Reports(format, frames) == [n \in DOMAIN frames |-> UsageIn(format, frames[n])]

ReadChunk ==
    \E n \in 0 .. Len(wire) :
        /\ ~hung /\ ~done /\ pending = <<>> /\ Len(buf) < 2
        /\ LET rest == SubSeq(wire, n + 1, Len(wire))
               b == buf \o SubSeq(wire, 1, n)
           IN  /\ \/ n > 0 /\ wire' = rest
                  \/ conn \in Cuts /\ rest # <<>> /\ HasText(rest[1])
                     /\ wire' = [rest EXCEPT ![1] = Garble(@)]
               /\ IF PassThrough
                  THEN /\ buf' = Rest(b)
                       /\ taken' = taken \o Taken(b)
                       /\ scan' = FoldLeft(MergeUsage, scan, Reports(conn.up, Taken(b)))
                       /\ energy' = FoldLeft(EnergyAfter, energy, Taken(b))
                  ELSE buf' = b /\ UNCHANGED <<taken, scan, energy>>
        /\ UNCHANGED <<conn, talk, end, dec, enc, pending, done, finalized, rows, got, hung>>

(* IrMachine::process on one frame of the buffer.                           *)
Process(f) ==
    LET d == DecodeFrame(conn.up, dec, f)
        e == EncodeEvents(conn.cl, enc, d.out)
    IN  /\ dec' = d /\ enc' = e
        /\ pending' = e.out
        /\ energy' = EnergyAfter(energy, f)
        /\ taken' = Append(taken, f)

TakeFrame ==
    /\ ~PassThrough /\ ~hung /\ ~done /\ pending = <<>>
    /\ Len(buf) >= 2
    /\ Process(buf[1].f)
    /\ buf' = SubSeq(buf, 3, Len(buf))
    /\ UNCHANGED <<conn, talk, body, scan, done, finalized, rows, got, hung>>

(* The end of the body: what is left in the buffer counts as a frame; a     *)
(* read error drops it and ends the stream like an end of file.             *)
ReadEnd ==
    /\ ~PassThrough /\ ~hung /\ ~done /\ pending = <<>>
    /\ Len(buf) < 2 /\ AtEnd
    /\ IF end = "eof" /\ buf # <<>>
       THEN Process(buf[1].f) /\ buf' = <<>> /\ done' = done
       ELSE done' = TRUE /\ UNCHANGED <<buf, dec, enc, pending, energy, taken>>
    /\ UNCHANGED <<conn, talk, body, scan, finalized, rows, got, hung>>

Row(usage) == [usage |-> usage, energy |-> energy]

Finalize ==
    /\ ~PassThrough /\ ~hung /\ done /\ ~finalized /\ pending = <<>>
    /\ LET d == DecodeEnd(dec)
           e == EncodeEvents(conn.cl, enc, d.out)
       IN  /\ dec' = d /\ enc' = e /\ pending' = e.out
           /\ rows' = Append(rows, Row(e.usage))
    /\ finalized' = TRUE
    /\ UNCHANGED <<conn, talk, body, buf, scan, energy, done, got, taken, hung>>

Yield ==
    /\ ~hung /\ pending # <<>>
    /\ got' = Append(got, Head(pending))
    /\ pending' = Tail(pending)
    /\ UNCHANGED <<conn, talk, body, buf, dec, enc, scan, energy, done, finalized, rows, taken, hung>>

(* ScannedStream: an end of file flushes and records, an error only passes. *)
ScanEnd ==
    /\ PassThrough /\ ~hung /\ ~done /\ AtEnd
    /\ done' = TRUE
    /\ IF end = "error" THEN UNCHANGED <<buf, scan, energy, rows, taken>>
       ELSE /\ buf' = <<>>
            /\ LET u == IF buf = <<>> THEN scan ELSE MergeUsage(scan, UsageIn(conn.up, buf[1].f))
                   g == IF buf = <<>> THEN energy ELSE EnergyAfter(energy, buf[1].f)
               IN  /\ scan' = u /\ energy' = g
                   /\ rows' = Append(rows, [usage |-> u, energy |-> g])
            /\ taken' = taken \o [n \in DOMAIN buf |-> buf[n].f]
    /\ UNCHANGED <<conn, talk, body, dec, enc, pending, finalized, got, hung>>

Proxy == ReadChunk \/ TakeFrame \/ ReadEnd \/ Finalize \/ Yield \/ ScanEnd

Over == IF PassThrough THEN done ELSE finalized /\ pending = <<>>

(* The dropped stream takes its buffers and the connection with it.         *)
HangUp ==
    /\ ~hung /\ ~Over
    /\ hung' = TRUE
    /\ wire' = <<>> /\ end' = "eof" /\ buf' = <<>> /\ pending' = <<>>
    /\ dec' = Decoder /\ enc' = Encoder
    /\ UNCHANGED <<conn, talk, scan, energy, done, finalized, rows, got, taken>>

(* The body is consumed and the connection is gone.                         *)
Stopped == (hung \/ Over) /\ UNCHANGED vars

Init ==
    /\ conn \in Conns
    /\ \E u \in Usages[conn.up] :
        talk = [phase |-> "new", parts |-> <<>>, pieces |-> 0,
                stop |-> "none", usage |-> u]
    /\ wire = <<>> /\ end = "open" /\ buf = <<>>
    /\ dec = Decoder /\ enc = Encoder /\ scan = NoUsage /\ energy = None
    /\ pending = <<>> /\ done = FALSE /\ finalized = FALSE
    /\ rows = <<>> /\ got = <<>> /\ hung = FALSE /\ taken = <<>>

Next == (~hung /\ Upstream) \/ Proxy \/ HangUp \/ Stopped

Spec == Init /\ [][Next]_vars

CanProceed ==
    ~hung /\ ~Over /\ (pending # <<>> \/ wire # <<>> \/ Len(buf) >= 2 \/ AtEnd \/ done)

(* hyper polls the stream as long as the client takes data: weak fairness of *)
(* Proxy, with its enabling condition spelled out.                          *)
FairSpec == Spec /\ ([]<>~CanProceed \/ []<><<Proxy>>_vars)

-----------------------------------------------------------------------------
(* Reading the client's side.                                               *)

Starts == {"message_start", "role", "created"}
Lasts == {"message_delta", "last", "completed"}
After == {"message_stop", "done"}

Client(format) == [format |-> format, ok |-> TRUE, started |-> FALSE, ended |-> FALSE,
                   open |-> {}, blocks |-> <<>>]

Opened(c, i, kind) ==
    [c EXCEPT !.ok = @ /\ c.started /\ ~c.ended /\ \A n \in DOMAIN c.blocks : c.blocks[n].i # i,
              !.open = @ \cup {i},
              !.blocks = Append(@, [i |-> i, kind |-> kind, x |-> <<>>])]

Told(c, i, x) ==
    LET n == SelectInSeq(c.blocks, LAMBDA b : b.i = i)
    IN  IF n = 0 \/ c.ended THEN [c EXCEPT !.ok = FALSE]
        ELSE [c EXCEPT !.ok = @ /\ i \in c.open, !.blocks[n].x = @ \o x]

(* Chat Completions has one text, one reasoning and numbered calls.         *)
Spoken(c, kind, x) ==
    LET has == \E n \in DOMAIN c.blocks : c.blocks[n].kind = kind
    IN  Told(IF has THEN c ELSE Opened(c, <<kind, 0>>, kind), <<kind, 0>>, x)

Closed(c, i) == [c EXCEPT !.ok = @ /\ i \in c.open /\ ~c.ended, !.open = @ \ {i}]

Receive(c, p) ==
    CASE p.t \in Starts -> [c EXCEPT !.ok = @ /\ ~c.started, !.started = TRUE]
      [] p.t = "block_start" -> Opened(c, p.i, p.kind)
      [] p.t = "item_added" -> Opened(c, p.n, p.kind)
      [] p.t = "block_delta" ->
            LET n == SelectInSeq(c.blocks, LAMBDA b : b.i = p.i)
                told == Told(c, p.i, p.x)
            IN  IF n = 0 THEN told ELSE [told EXCEPT !.ok = @ /\ c.blocks[n].kind = p.kind]
      [] p.t = "item_delta" -> Told(c, p.n, p.x)
      [] p.t = "block_stop" -> Closed(c, p.i)
      [] p.t = "item_done" ->
            LET n == SelectInSeq(c.blocks, LAMBDA b : b.i = p.item.n)
                closed == Closed(c, p.item.n)
            IN  IF n = 0 THEN closed ELSE [closed EXCEPT !.ok = @ /\ c.blocks[n].x = p.item.x]
      [] p.t = "call" -> IF p.new THEN Opened(c, <<"tool", p.n>>, "tool") ELSE Told(c, <<"tool", p.n>>, p.x)
      [] p.t = "say" -> Spoken(c, p.kind, p.x)
      [] p.t \in Lasts -> [c EXCEPT !.ok = @ /\ c.started /\ ~c.ended
                                             /\ (c.format # "openai" => c.open = {}),
                                    !.ended = TRUE]
      [] p.t \in After -> [c EXCEPT !.ok = @ /\ c.ended]

Received == FoldLeft(Receive, Client(conn.cl), got)
Ended == \E n \in DOMAIN got : got[n].t \in Lasts
LastOf == got[SelectInSeq(got, LAMBDA p : p.t \in Lasts)]

(* What was said, as the client's format can show it.                       *)
Spoke(parts) == SelectSeq(parts, LAMBDA p : p.x # <<>> \/ p.kind = "tool")
Only(parts, kind) == SelectSeq(parts, LAMBDA p : p.kind = kind)
Joined(parts, kind) == FlattenSeq([n \in DOMAIN Only(parts, kind) |-> Only(parts, kind)[n].x])
OneOf(parts, kind) == IF Joined(parts, kind) = <<>> THEN <<>>
                      ELSE << [kind |-> kind, x |-> Joined(parts, kind)] >>

Shown(parts) ==
    CASE conn.cl = "anthropic" -> Spoke(parts)
      [] conn.cl = "openai" -> OneOf(parts, "text") \o OneOf(parts, "reasoning") \o Only(parts, "tool")
      [] conn.cl = "responses" -> SelectSeq(Spoke(parts), LAMBDA p : p.kind # "reasoning")

Heard == LET b == Received.blocks
         IN  Shown([n \in DOMAIN b |-> [kind |-> b[n].kind, x |-> b[n].x]])

(* A piece with a character cut in two is heard in its place, but garbled.  *)
Begins(heard, said) ==
    /\ Len(heard) <= Len(said)
    /\ \A i \in DOMAIN heard : heard[i] = said[i] \/ (conn \in Cuts /\ heard[i] = Garbled)

(***************************************************************************)
(* Properties.                                                              *)
(***************************************************************************)

(* Types of the driver's state: a buffered line waits alone, and only a     *)
(* stream that has ended is finalized.                                      *)
TypeOK ==
    /\ conn \in Conns
    /\ end \in {"open", "eof", "error"}
    /\ Len(buf) <= MaxWire + 9 /\ (PassThrough => Len(buf) <= 1)
    /\ {done, finalized, hung} \subseteq BOOLEAN
    /\ finalized => done
    /\ energy \in {None, 1}
    /\ dec.next >= Len(dec.open) /\ dec.next >= Len(dec.keys)

(* Whatever a legal upstream does, breaking off in the middle of a block    *)
(* or of a line included, the client's events form a legal stream of its    *)
(* own format: one opening event first, text only inside a block that is    *)
(* open, every block closed once and before the one terminal event, nothing *)
(* but the end marker after it; a Responses item's final text is the text   *)
(* of its deltas.                                                           *)
WellFormed == Received.ok

(* Nothing is lost, doubled, reordered or moved to another block on the way *)
(* through decoder and encoder: what the client has heard is, block by      *)
(* block, the beginning of what was said, and all of it once the upstream's *)
(* finished answer has ended for the client.  Only reasoning is kept from   *)
(* Responses clients; a piece whose bytes were cut inside a character keeps *)
(* its place, not its text.                                                 *)
HeardIsSaid ==
    LET said == Shown(Said) IN
    /\ \A kind \in Prose :
        Len(Joined(Heard, kind)) <= Len(Joined(said, kind))
    /\ conn.cl # "openai" =>
        /\ Len(Heard) <= Len(said)
        /\ \A n \in DOMAIN Heard : Heard[n].kind = said[n].kind /\ Begins(Heard[n].x, said[n].x)
    /\ Ended /\ talk.phase = "finished" =>
        /\ Len(Heard) = Len(said)
        /\ \A n \in DOMAIN Heard : Heard[n].kind = said[n].kind
                                   /\ Len(Heard[n].x) = Len(said[n].x) /\ Begins(Heard[n].x, said[n].x)

(* One answer is recorded at most once; a client that has the terminal      *)
(* event of a translated stream has been recorded, with the counts it was   *)
(* told and those a byte-for-byte forwarding of the same frames records;    *)
(* a forwarded stream is recorded when it ends with an end of file.         *)
RecordedAsTold ==
    /\ Len(rows) <= 1
    /\ Ended => /\ rows # <<>>
                /\ LastOf.usage \in {EncodeUsage(conn.cl, rows[1].usage), NoUsage}
    /\ PassThrough /\ Over /\ ~hung /\ end = "eof" => rows # <<>>
    /\ rows # <<>> =>
        rows[1] = [usage |-> FoldLeft(MergeUsage, NoUsage, Reports(conn.up, taken)),
                   energy |-> IF \E n \in DOMAIN taken : taken[n].t = "comment" THEN 1 ELSE None]

(* Why the upstream stopped survives the translation: a client that must    *)
(* run tools is told so, a truncated answer is not passed off as a finished *)
(* one (except to Responses clients, whose stream always ends "completed"). *)
StopKept ==
    Ended /\ talk.phase = "finished" /\ conn.cl # "responses" =>
        LET truncated == talk.stop \in {"max_tokens", "length"}
            told == IF conn.cl = "openai" THEN {"length"} ELSE {"max_tokens"}
            run == IF conn.cl = "openai" THEN {"tool_calls"} ELSE {"tool_use"}
        IN  /\ truncated <=> LastOf.stop \in told
            /\ ~truncated /\ Calls => LastOf.stop \in run

(* A client that does not stream gets the answer the streaming one hears:   *)
(* aggregate_responses over the same frames yields the parts that were      *)
(* said, whether or not the terminal envelope repeats them, and the usage   *)
(* that is recorded.                                                        *)
AggregateAgrees ==
    conn.up = "responses" /\ finalized /\ talk.phase = "finished" =>
        LET a == AggregateResponses(taken)
        IN  /\ Spoke(a.content) = Spoke(Said)
            /\ a.usage = rows[1].usage
            /\ a.stop = "max_tokens" <=> talk.stop = "max_tokens"

(* Once the upstream's side is over - finished, cut or failed - the client's *)
(* stream ends too, unless the client has left.                             *)
EndsForTheClient == end # "open" ~> Over \/ hung
=============================================================================
