---------------------------- MODULE StreamDelivery ----------------------------
(***************************************************************************)
(* How the answer of one request reaches the client as a stream.  When the *)
(* nodes of the pipeline have run, the StreamAdapter cuts the answer in    *)
(* chunks and sends them on a bounded channel; the goroutine of            *)
(* executePipelineStream passes them on, and then the whole output, on     *)
(* another one; the handler reads that and writes to the client ("sse",    *)
(* writeStreamResponse), or gathers the chunks for a client that did not   *)
(* ask for a stream ("fake", executeStreamToOutput and the rest of         *)
(* Dispatch).  The client may leave at any time.                           *)
(*                                                                         *)
(* The client is one of the OpenAI protocol.                               *)
(***************************************************************************)
EXTENDS ThinkSplit, TLC

CONSTANTS Contents,      \* the answers a pipeline may come to
          ChunkSize,     \* symbols in a chunk (defaultStreamChunkSize)
          ChunkBuffer,   \* room in the channel of the adapter
          ResultBuffer,  \* and in the one of the results
          MaxBytes       \* symbols that may be gathered (StreamFakeConfig)

ASSUME StreamAssumption ==
    /\ Contents \subseteq Seq(Symbols)
    /\ {ChunkSize, ChunkBuffer, ResultBuffer, MaxBytes} \subseteq Nat \ {0}

VARIABLES mode,       \* "sse" or "fake"
          answer,     \* "text", "tools" (with tool calls), "raw" or "error"
          content,    \* its text
          producer,   \* the goroutine of executePipelineStream
          held,       \* what it is about to send, at most one thing
          pieces,     \* what the adapter has still to send
          chunks,     \* the adapter's channel
          results,    \* the channel of the results
          cancelled,  \* the request's context is done
          handler,    \* "reading", or how it ended
          splitter,   \* the handler's StreamSplitter
          visible,    \* the text written, or gathered, so far
          reasoning   \* and the reasoning

vars == <<mode, answer, content, producer, held, pieces, chunks, results,
          cancelled, handler, splitter, visible, reasoning>>

Chunk(text, done) == [type |-> "chunk", text |-> text, done |-> done]
Item(type) == [type |-> type, text |-> content', done |-> TRUE]

Init == /\ mode \in {"sse", "fake"} /\ answer = "error" /\ content = <<>>
        /\ producer = "executing" /\ held = <<>> /\ pieces = <<>>
        /\ chunks = <<>> /\ results = <<>>
        /\ cancelled = FALSE /\ handler = "reading"
        /\ splitter = NewStreamSplitter /\ visible = <<>> /\ reasoning = <<>>

-------------------------------------------------------------------------------
(* The adapter. *)

(* Where the first chunk ends: behind its last blank, if it has one that   *)
(* is not its first symbol.                                                *)
CutAt(s) == LET blanks == {i \in 2 .. ChunkSize : s[i] \in White}
            IN  IF blanks = {} THEN ChunkSize ELSE Max(blanks)

Cut[s \in Seq(Symbols)] ==
    IF Len(s) <= ChunkSize THEN <<Chunk(s, TRUE)>>
    ELSE <<Chunk(SubSeq(s, 1, CutAt(s)), FALSE)>> \o Cut[From(s, CutAt(s) + 1)]

Adapt ==
    /\ pieces # <<>> /\ Len(chunks) < ChunkBuffer
    /\ chunks' = Append(chunks, Head(pieces))
    /\ pieces' = Tail(pieces)
    /\ UNCHANGED <<mode, answer, content, producer, held, results, cancelled,
                   handler, splitter, visible, reasoning>>

(* Fault: the context is only looked at between the sends. *)
AdaptStopsFault ==
    /\ pieces # <<>> /\ cancelled /\ Len(chunks) < ChunkBuffer
    /\ pieces' = <<>>
    /\ UNCHANGED <<mode, answer, content, producer, held, chunks, results,
                   cancelled, handler, splitter, visible, reasoning>>

(* The select of a send may take ctx.Done instead, and the rest is lost. *)
AdaptStops ==
    /\ pieces # <<>> /\ cancelled
    /\ pieces' = <<>>
    /\ UNCHANGED <<mode, answer, content, producer, held, chunks, results,
                   cancelled, handler, splitter, visible, reasoning>>

-------------------------------------------------------------------------------
(* executePipelineStream and streamEmitter. *)

(* The layers and the fallback groups run as in PipelineEngine. *)
Execute ==
    /\ producer = "executing"
    /\ answer' \in {"text", "tools", "raw", "error"}
    /\ content' \in IF answer' = "error" THEN {<<>>} ELSE Contents
    /\ pieces' = IF answer' = "text" THEN Cut[content'] ELSE <<>>
    /\ held' = CASE answer' = "text"  -> <<>>
                 [] answer' = "tools" -> <<Item("tools")>>
                 [] answer' = "raw"   -> <<Item("output")>>
                 [] answer' = "error" -> <<Item("error")>>
    /\ producer' = IF answer' \in {"text", "tools"} THEN "emitting" ELSE "closing"
    /\ UNCHANGED <<mode, chunks, results, cancelled, handler, splitter, visible,
                   reasoning>>

TakeChunk ==
    /\ producer = "emitting" /\ held = <<>> /\ chunks # <<>>
    /\ held' = <<Head(chunks)>>
    /\ chunks' = Tail(chunks)
    /\ UNCHANGED <<mode, answer, content, producer, pieces, results, cancelled,
                   handler, splitter, visible, reasoning>>

(* The adapter has closed its channel and all of it is read. *)
TakeOutput ==
    /\ producer = "emitting" /\ held = <<>> /\ chunks = <<>> /\ pieces = <<>>
    /\ held' = <<[type |-> "output", text |-> content, done |-> TRUE]>>
    /\ producer' = "closing"
    /\ UNCHANGED <<mode, answer, content, pieces, chunks, results, cancelled,
                   handler, splitter, visible, reasoning>>

(* No select here: without a reader a full channel blocks for good. *)
Send ==
    /\ held # <<>> /\ Len(results) < ResultBuffer
    /\ results' = Append(results, Head(held))
    /\ held' = <<>>
    /\ producer' = IF producer = "closing" THEN "closed" ELSE producer
    /\ UNCHANGED <<mode, answer, content, pieces, chunks, cancelled, handler,
                   splitter, visible, reasoning>>

-------------------------------------------------------------------------------
(* The handler. *)

Reads(type) == handler = "reading" /\ results # <<>> /\ Head(results).type \in type
ReadsEnd == handler = "reading" /\ results = <<>> /\ producer = "closed"

ReadError ==
    /\ Reads({"error"})
    /\ results' = Tail(results)
    /\ handler' = "failed"
    /\ UNCHANGED <<mode, answer, content, producer, held, pieces, chunks,
                   cancelled, splitter, visible, reasoning>>

(* shouldSkipPipelineStreamChunk: a last chunk that shows nothing is left  *)
(* out, with the reasoning in it.                                          *)
Skipped(chunk, shown) == chunk.type = "chunk" /\ chunk.done /\ Blank(shown)

WriteChunk ==
    LET chunk == Head(results)
        next == IF chunk.text = <<>> THEN [splitter EXCEPT !.out = Parts(<<>>, <<>>)]
                ELSE Feed(splitter, chunk.text)
    IN
    /\ mode = "sse" /\ Reads({"chunk", "tools"})
    /\ results' = Tail(results)
    /\ splitter' = next
    /\ IF Skipped(chunk, next.out.visible) THEN UNCHANGED <<visible, reasoning>>
       ELSE /\ visible' = visible \o next.out.visible
            /\ reasoning' = reasoning \o next.out.reasoning
    /\ UNCHANGED <<mode, answer, content, producer, held, pieces, chunks,
                   cancelled, handler>>

(* Trimmed, it starts with "data:", or a line of it does.                  *)
LooksLikeSSE(s) ==
    \E i \in DOMAIN s : /\ s[i] = "data:"
                        /\ Blank(Before(s, i)) \/ s[i - 1] = "newline"

(* A raw answer, and one that looks like it is the stream of a backend, is *)
(* written as it is, whole and behind the chunks written so far, and that  *)
(* is the end; the output of any other one is kept for the end.            *)
WrittenRaw == ~ Blank(content) /\ (answer = "raw" \/ LooksLikeSSE(content))

WriteOutput ==
    /\ mode = "sse" /\ Reads({"output"})
    /\ results' = Tail(results)
    /\ IF WrittenRaw
       THEN visible' = visible \o content /\ handler' = "answered"
       ELSE UNCHANGED <<visible, handler>>
    /\ UNCHANGED <<mode, answer, content, producer, held, pieces, chunks,
                   cancelled, splitter, reasoning>>

(* Fault: what the splitter still holds is not written. *)
FinishFault ==
    /\ mode = "sse" /\ ReadsEnd
    /\ visible' = IF visible = <<>> /\ ~ Blank(content) THEN content ELSE visible
    /\ handler' = "answered"
    /\ UNCHANGED <<mode, answer, content, producer, held, pieces, chunks,
                   results, cancelled, splitter, reasoning>>

(* The end of the stream: what the splitter holds is written; the whole    *)
(* output, if nothing was visible; an error, if the output is empty and no *)
(* tokens were used; and the usage is recorded in the other cases.         *)
Finish ==
    LET rest == Flush(splitter)
        shown == visible \o rest.visible
    IN
    /\ mode = "sse" /\ ReadsEnd
    /\ visible' = IF shown = <<>> /\ ~ Blank(content) THEN content ELSE shown
    /\ reasoning' = reasoning \o rest.reasoning
    /\ handler' \in IF visible' = <<>> /\ answer # "tools" THEN {"answered", "empty"}
                    ELSE {"answered"}
    /\ UNCHANGED <<mode, answer, content, producer, held, pieces, chunks,
                   results, cancelled, splitter>>

(* Gathering ends at the limit, and the channel is left as it is. *)
Gather ==
    /\ mode = "fake" /\ Reads({"chunk", "tools"})
    /\ results' = Tail(results)
    /\ IF Len(visible \o Head(results).text) > MaxBytes
       THEN handler' = "cut" /\ UNCHANGED visible
       ELSE visible' = visible \o Head(results).text /\ UNCHANGED handler
    /\ UNCHANGED <<mode, answer, content, producer, held, pieces, chunks,
                   cancelled, splitter, reasoning>>

GatherOutput ==
    /\ mode = "fake" /\ Reads({"output"})
    /\ results' = Tail(results)
    /\ UNCHANGED <<mode, answer, content, producer, held, pieces, chunks,
                   cancelled, handler, splitter, visible, reasoning>>

(* The gathered text takes the place of the output's, if there is any. *)
FinishGathering ==
    LET parts == Split(IF visible = <<>> THEN content ELSE visible) IN
    /\ mode = "fake" /\ ReadsEnd
    /\ visible' = parts.visible /\ reasoning' = parts.reasoning
    /\ handler' = "answered"
    /\ UNCHANGED <<mode, answer, content, producer, held, pieces, chunks,
                   results, cancelled, splitter>>

(* The client leaves, or the handler has returned: net/http ends the       *)
(* request's context.                                                      *)
Cancel ==
    /\ ~ cancelled
    /\ cancelled' = TRUE
    /\ UNCHANGED <<mode, answer, content, producer, held, pieces, chunks,
                   results, handler, splitter, visible, reasoning>>

Adapter == Adapt \/ AdaptStops
Producer == Execute \/ TakeChunk \/ TakeOutput \/ Send
Handler == \/ ReadError \/ WriteChunk \/ WriteOutput \/ Finish
           \/ Gather \/ GatherOutput \/ FinishGathering

Next == Adapter \/ Producer \/ Handler \/ Cancel

(* The goroutines run, a node ends at the latest with its timeout, and the *)
(* server ends the context of a handler that has returned; no client has   *)
(* to leave.                                                               *)
Fairness == /\ WF_vars(Adapter) /\ WF_vars(Producer) /\ WF_vars(Handler)
            /\ WF_vars(handler # "reading" /\ Cancel)

Spec == Init /\ [][Next]_vars /\ Fairness

-------------------------------------------------------------------------------

Words(s) == SelectSeq(s, LAMBDA x : x \notin White)

(* No chunk ends inside a tag, and the reasoning has no tag of its own. *)
Plain(s) == /\ \A i \in DOMAIN Cut[s] : Cut[s][i].text = <<>>
                  \/ Cut[s][i].text[Len(Cut[s][i].text)] \notin {Open[1], Close[1]}
            /\ Places(Open, Split(s).reasoning) = {}

(***************************************************************************)
(* A client that stays sees the same words whether it asked for a stream   *)
(* or not: those that Split leaves, each once and in order.  Excepted are  *)
(* answers with a tag that the adapter cuts or that is nested, and answers *)
(* that are all reasoning.  A stream whose text looks like SSE is shown    *)
(* twice: what the splitter let go of, then the whole answer with its tags *)
(* and its reasoning.                                                      *)
(***************************************************************************)
StreamShowsSplit ==
    handler = "answered" /\ ~ cancelled /\ answer # "raw" =>
        LET all  == Words(Split(content).visible)
            left == Words(Flush(splitter).visible)
        IN  \/ mode = "sse" /\ (~ Plain(content) \/ Blank(Split(content).visible))
            \/ Words(visible) = IF mode = "sse" /\ LooksLikeSSE(content)
                                THEN SubSeq(all, 1, Len(all) - Len(left)) \o Words(content)
                                ELSE all

(***************************************************************************)
(* "Content has no tags; streaming does not leak" (package thinksplit):    *)
(* of an answer that is not all reasoning and does not look like SSE, no   *)
(* part of a tag that Split takes out is shown.                            *)
(***************************************************************************)
TagsDoNotLeak ==
    /\ handler = "answered" /\ ~ cancelled /\ answer = "text"
    /\ ~ Blank(Split(content).visible) /\ ~ LooksLikeSSE(content)
    =>
        \A x \in {Open[1], Open[2], Close[1], Close[2]} :
            Len(SelectSeq(visible, LAMBDA y : y = x))
                <= Len(SelectSeq(Split(content).visible, LAMBDA y : y = x))

(***************************************************************************)
(* The handler ends, and with it the adapter, even when nobody reads on;   *)
(* the goroutine of the pipeline does except behind a handler that stopped *)
(* reading at the limit: that one may block for good.                      *)
(***************************************************************************)
EveryStreamEnds ==
    <>[](/\ handler # "reading" /\ pieces = <<>>
         /\ handler = "cut" \/ producer = "closed")
===============================================================================
