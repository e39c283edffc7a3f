---------------------------- MODULE StreamControl ----------------------------
(***************************************************************************)
(* rehydrate_sse_stream (streaming/streaming.py): the loop that reads an   *)
(* upstream's SSE chunks, routes each event's text through the retention   *)
(* window of its channel, and writes what comes out.  It ends by [DONE],   *)
(* by the upstream stopping or failing, by draining, by a client that      *)
(* leaves, by a canary, by a limit, or by an error the failure mode        *)
(* decides.                                                                *)
(*                                                                         *)
(* A fragment of text is its number: what a window makes of it is          *)
(* RehydrationBuffer's subject, here a window lets any beginning of what   *)
(* it holds out.  An event carries one fragment at most.                   *)
(***************************************************************************)
EXTENDS Integers, FiniteSets, Sequences, SequencesExt

CONSTANTS Choice,        \* choice indices
          Tool,          \* tool-call indices of a choice
          TextBlock,     \* indices of Anthropic's text blocks
          ToolBlock,     \* and of its tool blocks
          MaxWindows,    \* MAX_STREAM_WINDOWS
          MaxOrdinals,   \* MAX_ANTHROPIC_TOOL_ORDINALS
          Spacing,       \* the ways the upstream spells "data: [DONE]"
          Budget,        \* the coalescer's budget, in pieces
          MaxEvents      \* bound on the events and raw chunks of a stream

ASSUME StreamAssumption ==
  /\ Choice \subseteq Nat /\ 0 \in Choice
  /\ Tool \subseteq Nat
  /\ TextBlock \subseteq Nat /\ ToolBlock \subseteq Nat
  /\ MaxWindows \in Nat /\ MaxOrdinals \in Nat /\ MaxEvents \in Nat
  /\ Budget \in Nat \ {0}
  /\ Spacing \subseteq {"spaced", "unspaced"}

Prose == -1          \* the tool index of a channel of prose: None

Key == Choice \X (Tool \cup {Prose} \cup 0 .. MaxOrdinals - 1)

VARIABLES shape,      \* "chat", "completions" or "anthropic"
          fed,        \* the channel of each fragment received
          windows,    \* buffers: what each open window holds back
          ordinals,   \* anthropic_tool_ordinals
          outgoing,   \* the coalescer's pieces
          sent,       \* the pieces written to the client
          client,     \* the text they carried, as the client joins it up
          watermark,  \* whether watermark_text is still to be written
          status,     \* "reading", "chunk", "open", "closing", "ended"
          ending,     \* "" or why it ended
          events

vars == <<shape, fed, windows, ordinals, outgoing, sent, client, watermark, status, ending, events>>

-----------------------------------------------------------------------------
(* A piece of output: its text by channel, and the number of fragments     *)
(* received when it was made.                                              *)
Piece(kind, choice, text, asOf) ==
  [kind |-> kind, choice |-> choice, text |-> text, asOf |-> asOf]

NoText == <<>>       \* the function without arguments
Bare(kind) == Piece(kind, 0, NoText, Len(fed))

TextOf(piece, key) == IF key \in DOMAIN piece.text THEN piece.text[key] ELSE <<>>
TextIn(pieces, key) == FlattenSeq([i \in DOMAIN pieces |-> TextOf(pieces[i], key)])

Write(pieces) ==
  /\ sent' = sent \o pieces
  /\ client' = [key \in Key |-> client[key] \o TextIn(pieces, key)]

Held(key) == IF key \in DOMAIN windows THEN windows[key] ELSE <<>>

(* _buffer_for: refuses, rather than share a window. *)
MayOpen(key) == key \in DOMAIN windows \/ Cardinality(DOMAIN windows) < MaxWindows

(* process_delta_text: the window lets k fragments of its text out. *)
Takes(key) == Append(Held(key), Len(fed) + 1)
LetOut(key, k) == SubSeq(Takes(key), 1, k)
Kept(key, k) ==
  [w \in DOMAIN windows \cup {key} |->
     IF w = key THEN SubSeq(Takes(key), k + 1, Len(Takes(key))) ELSE windows[w]]
Opened(key) == [w \in DOMAIN windows \cup {key} |-> Held(w)]

(* The fields beside the text are swept with any open window; if there is  *)
(* none, the first choice's is opened.                                     *)
Borrowed == IF windows = <<>> THEN Opened(<<0, Prose>>) ELSE windows

(* The windows a finishing choice empties: its tool calls', whose arguments *)
(* the client parses now, or its legacy text's.                            *)
Finishing(ws, choice) ==
  {key \in DOMAIN ws : key[1] = choice /\ (key[2] = Prose) = (shape = "completions")}

Drained(ws, keys) == [w \in DOMAIN ws |-> IF w \in keys THEN <<>> ELSE ws[w]]

Before(a, b) == a[1] < b[1] \/ (a[1] = b[1] /\ a[2] < b[2])

(* sorted(buffers), of the channels that hold something: a choice's prose  *)
(* first, then its tool calls.                                             *)
FlushOrders ==
  LET holding == {key \in DOMAIN windows : windows[key] # <<>>}
  IN  {order \in Bijection(1 .. Cardinality(holding), holding) :
         \A i, j \in DOMAIN order : i < j => Before(order[i], order[j])}

(* _flush_all_windows, one piece per channel. *)
FlushAll(order) ==
  [i \in DOMAIN order |-> Piece("text", order[i][1], [w \in {order[i]} |-> windows[w]], Len(fed))]

Watermark == IF watermark THEN <<Bare("watermark")>> ELSE <<>>

-----------------------------------------------------------------------------
Init ==
  /\ shape \in {"chat", "completions", "anthropic"}
  /\ fed = <<>>
  /\ windows = <<>> /\ ordinals = <<>>
  /\ outgoing = <<>> /\ sent = <<>>
  /\ client = [key \in Key |-> <<>>]
  /\ watermark = TRUE
  /\ status = "reading" /\ ending = ""
  /\ events = 0

ChunkArrives ==
  /\ status = "reading" /\ events < MaxEvents
  /\ status' = "chunk"
  /\ UNCHANGED <<shape, fed, windows, ordinals, outgoing, sent, client, watermark, ending, events>>

Handles ==
  /\ status = "chunk" /\ events < MaxEvents
  /\ events' = events + 1
  /\ UNCHANGED <<shape, status, ending>>

(* _BoundedOutputCoalescer.push: a piece that does not fit lets all before *)
(* it out.                                                                 *)
Queue(pieces) ==
  LET all  == outgoing \o pieces
      stay == IF Len(all) <= Budget THEN Len(all) ELSE ((Len(all) - 1) % Budget) + 1
  IN  /\ Write(SubSeq(all, 1, Len(all) - stay))
      /\ outgoing' = SubSeq(all, Len(all) - stay + 1, Len(all))

(* Mutant: only the windows this event named are drained. *)
EmitsForNamed(choice, finish, ws, out) ==
  LET done == IF finish THEN Finishing(ws, choice) \cap DOMAIN out ELSE {}
      text == [w \in done \cup DOMAIN out |->
                 (IF w \in DOMAIN out THEN out[w] ELSE <<>>) \o
                 (IF w \in done THEN ws[w] ELSE <<>>)]
  IN  /\ windows' = Drained(ws, done)
      /\ Queue(<<Piece(IF finish THEN "finish" ELSE "text", choice, text, Len(fed'))>>)

(* What an event of a choice emits and leaves in the windows: the text it  *)
(* let out, and, when it finishes the choice, all that was still held.     *)
EmitsFor(choice, finish, ws, out) ==
  LET done == IF finish THEN Finishing(ws, choice) ELSE {}
      text == [w \in done \cup DOMAIN out |->
                 (IF w \in DOMAIN out THEN out[w] ELSE <<>>) \o
                 (IF w \in done THEN ws[w] ELSE <<>>)]
  IN  /\ windows' = Drained(ws, done)
      /\ Queue(<<Piece(IF finish THEN "finish" ELSE "text", choice, text, Len(fed'))>>)

(* A chat event of one choice that carries no text: a role, a finish. *)
Plain(choice, finish) ==
  /\ Handles /\ shape = "chat"
  /\ UNCHANGED fed
  /\ EmitsFor(choice, finish, Borrowed, NoText)
  /\ UNCHANGED <<ordinals, watermark>>

(* An event of one choice whose text is empty: its window is there now. *)
Opens(choice, part, finish) ==
  /\ Handles /\ shape # "anthropic"
  /\ part = Prose \/ shape = "chat"
  /\ MayOpen(<<choice, part>>)
  /\ UNCHANGED fed
  /\ EmitsFor(choice, finish, Opened(<<choice, part>>), NoText)
  /\ UNCHANGED <<ordinals, watermark>>

(* An event of one choice with a fragment of prose or of a tool call. *)
Delta(choice, part, finish) ==
  /\ Handles /\ shape # "anthropic"
  /\ part = Prose \/ shape = "chat"
  /\ LET key == <<choice, part>>
     IN  /\ MayOpen(key)
         /\ fed' = Append(fed, key)
         /\ \E k \in 0 .. Len(Takes(key)) :
              EmitsFor(choice, finish, Kept(key, k), [w \in {key} |-> LetOut(key, k)])
  /\ UNCHANGED <<ordinals, watermark>>

(* Anthropic prose: one window for the stream, shown under the block's     *)
(* own index.                                                              *)
AnthropicText(block) ==
  /\ Handles /\ shape = "anthropic"
  /\ MayOpen(<<0, Prose>>)
  /\ fed' = Append(fed, <<0, Prose>>)
  /\ \E k \in 0 .. Len(Takes(<<0, Prose>>)) :
       /\ windows' = Kept(<<0, Prose>>, k)
       /\ Queue(<<Piece("text", block, [w \in {<<0, Prose>>} |-> LetOut(w, k)], Len(fed) + 1)>>)
  /\ UNCHANGED <<ordinals, watermark>>

(* _anthropic_tool_ordinal *)
Ordinal(block) == IF block \in DOMAIN ordinals THEN ordinals[block] ELSE Cardinality(DOMAIN ordinals)
WithOrdinal(block) == [b \in DOMAIN ordinals \cup {block} |-> Ordinal(b)]
MayNumber(block) == block \in DOMAIN ordinals \/ Cardinality(DOMAIN ordinals) < MaxOrdinals

AnthropicToolStart(block) ==
  /\ Handles /\ shape = "anthropic"
  /\ MayNumber(block)
  /\ ordinals' = WithOrdinal(block)
  /\ Queue(<<Bare("text")>>)
  /\ UNCHANGED <<fed, windows, watermark>>

AnthropicArguments(block) ==
  /\ Handles /\ shape = "anthropic"
  /\ LET key == <<0, Ordinal(block)>>
     IN  /\ MayNumber(block) /\ MayOpen(key)
         /\ ordinals' = WithOrdinal(block)
         /\ fed' = Append(fed, key)
         /\ \E k \in 0 .. Len(Takes(key)) :
              /\ windows' = Kept(key, k)
              /\ Queue(<<Piece("text", 0, [w \in {key} |-> LetOut(w, k)], Len(fed) + 1)>>)
  /\ UNCHANGED watermark

(* content_block_stop: the block's held text goes out before the stop.     *)
(* Like any event without text it is swept, if responses are.              *)
AnthropicStop(block) ==
  /\ Handles /\ shape = "anthropic"
  /\ LET keys == {<<0, ordinals[b]>> : b \in {block} \cap DOMAIN ordinals} \cap DOMAIN windows
         stop == [Bare("stop") EXCEPT !.choice = block]
     IN  /\ windows' \in {Drained(windows, keys), Drained(Borrowed, keys)}
         /\ Queue((IF \E w \in keys : windows[w] # <<>>
                     THEN <<Piece("text", 0, [w \in keys |-> windows[w]], Len(fed))>> ELSE <<>>)
                  \o <<stop>>)
  /\ UNCHANGED <<fed, ordinals, watermark>>

(* Mutant: the flush follows the [DONE]. *)
DoneThenFlush(spacing) ==
  /\ Handles
  /\ IF spacing = "spaced"
       THEN /\ \E order \in FlushOrders : Queue(Watermark \o <<Bare("done")>> \o FlushAll(order))
            /\ windows' = Drained(windows, DOMAIN windows)
            /\ watermark' = FALSE
       ELSE Queue(<<Bare("done")>>) /\ UNCHANGED <<windows, watermark>>
  /\ UNCHANGED <<fed, ordinals>>

(* Mutant: the watermark is not crossed off. *)
DoneKeepsWatermark(spacing) ==
  /\ Handles
  /\ \E order \in FlushOrders : Queue(FlushAll(order) \o Watermark \o <<Bare("done")>>)
  /\ windows' = Drained(windows, DOMAIN windows)
  /\ UNCHANGED <<fed, ordinals, watermark>>

(* data: [DONE].  Without its space it is no JSON, so no event, and not    *)
(* the line the flush waits for either: it is passed on.                   *)
Done(spacing) ==
  /\ Handles
  /\ IF spacing = "spaced"
       THEN /\ \E order \in FlushOrders : Queue(FlushAll(order) \o Watermark \o <<Bare("done")>>)
            /\ windows' = Drained(windows, DOMAIN windows)
            /\ watermark' = FALSE
       ELSE Queue(<<Bare("done")>>) /\ UNCHANGED <<windows, watermark>>
  /\ UNCHANGED <<fed, ordinals>>

(* The coalescer is drained when the chunk's last line is done. *)
ChunkEnds ==
  /\ status = "chunk"
  /\ Write(outgoing)
  /\ outgoing' = <<>>
  /\ status' = "reading"
  /\ UNCHANGED <<shape, fed, windows, ordinals, watermark, ending, events>>

-----------------------------------------------------------------------------
(* What is still to be written before the generator returns. *)
Close(why, last) ==
  /\ ending' = why
  /\ outgoing' = last
  /\ status' = "closing"

(* Mutant: the stream just stops. *)
AbortSilently ==
  /\ Close("aborted", outgoing)
  /\ UNCHANGED <<shape, fed, windows, ordinals, sent, client, watermark, events>>

Abort ==
  /\ Close("aborted", outgoing \o <<Bare("error"), Bare("done")>>)
  /\ UNCHANGED <<shape, fed, windows, ordinals, sent, client, watermark, events>>

(* A limit: too many windows or ordinals, a line or a restored piece too   *)
(* long.  No failure mode forgives it.                                     *)
CapacityBreach == status = "chunk" /\ Abort

(* Any other exception of the handler: SHIELD_FAILURE_MODE decides, a      *)
(* setting a stream reads once, here.                                      *)
FailClosed == status = "chunk" /\ Abort

(* The rest of the chunk, and every later chunk, is passed on as it is. *)
FailOpen ==
  /\ status = "chunk"
  /\ Write(Append(outgoing, Bare("raw")))
  /\ outgoing' = <<>>
  /\ status' = "open"
  /\ UNCHANGED <<shape, fed, windows, ordinals, watermark, ending, events>>

PassRaw ==
  /\ status = "open" /\ events < MaxEvents
  /\ Write(<<Bare("raw")>>)
  /\ events' = events + 1
  /\ UNCHANGED <<shape, fed, windows, ordinals, outgoing, watermark, status, ending>>

(* The canary is in the raw chunk, before any of its events, or in decoded *)
(* text, after some.                                                       *)
Canary ==
  /\ status = "chunk"
  /\ Close("canary", outgoing)
  /\ UNCHANGED <<shape, fed, windows, ordinals, sent, client, watermark, events>>

(* Mutant: the generator's finally block has no flush. *)
StopsUnflushed ==
  /\ status = "reading"
  /\ Close("complete", Watermark)
  /\ watermark' = FALSE
  /\ UNCHANGED <<shape, fed, windows, ordinals, sent, client, events>>

(* The upstream stops or fails, or a chunk comes while the pod drains: the *)
(* generator's finally block.                                              *)
Stops ==
  /\ status = "reading"
  /\ \E order \in FlushOrders : Close("complete", FlushAll(order) \o Watermark)
  /\ windows' = Drained(windows, DOMAIN windows)
  /\ watermark' = FALSE
  /\ UNCHANGED <<shape, fed, ordinals, sent, client, events>>

StopsOpen ==
  /\ status = "open"
  /\ Close("open", <<>>)
  /\ UNCHANGED <<shape, fed, windows, ordinals, sent, client, watermark, events>>

(* The last pieces are written one by one. *)
WriteLast ==
  /\ status = "closing"
  /\ IF outgoing = <<>>
       THEN status' = "ended" /\ UNCHANGED <<sent, client, outgoing>>
       ELSE /\ Write(<<Head(outgoing)>>)
            /\ outgoing' = Tail(outgoing)
            /\ UNCHANGED status
  /\ UNCHANGED <<shape, fed, windows, ordinals, watermark, ending, events>>

(* GeneratorExit or CancelledError: nothing more is written. *)
Disconnect ==
  /\ status # "ended"
  /\ status' = "ended" /\ ending' = "disconnected"
  /\ outgoing' = <<>>
  /\ UNCHANGED <<shape, fed, windows, ordinals, sent, client, watermark, events>>

Event ==
  \/ \E c \in Choice, finish \in BOOLEAN :
       \/ Plain(c, finish)
       \/ \E part \in Tool \cup {Prose} : Opens(c, part, finish) \/ Delta(c, part, finish)
  \/ \E b \in TextBlock : AnthropicText(b)
  \/ \E b \in ToolBlock : AnthropicToolStart(b) \/ AnthropicArguments(b) \/ AnthropicStop(b)
  \/ \E spacing \in Spacing : Done(spacing)

Next ==
  \/ ChunkArrives \/ Event \/ ChunkEnds
  \/ CapacityBreach \/ FailClosed \/ FailOpen \/ PassRaw \/ Canary
  \/ Stops \/ StopsOpen \/ WriteLast \/ Disconnect

Spec == Init /\ [][Next]_vars

-----------------------------------------------------------------------------
Output == sent \o outgoing
(* Whether all that had come for a channel when piece i was made is in the *)
(* output no later than that piece.                                        *)
ShownBy(i, key) ==
  {n \in 1 .. Output[i].asOf : fed[n] = key} \subseteq UNION {Range(TextOf(Output[j], key)) : j \in 1 .. i}

(* A choice whose finish the client sees has its tool calls' arguments (or *)
(* its legacy text) complete in that event or before it; a tool block that *)
(* stops has its own.                                                      *)
FinishIsComplete ==
  \A i \in DOMAIN Output :
    /\ Output[i].kind = "finish" =>
         \A key \in Finishing([k \in Key |-> <<>>], Output[i].choice) : ShownBy(i, key)
    /\ Output[i].kind = "stop" =>
         \A b \in {Output[i].choice} \cap DOMAIN ordinals : ShownBy(i, <<0, ordinals[b]>>)

(* Nothing that arrived before the upstream's [DONE] comes after it. *)
DoneIsComplete ==
  \A i \in DOMAIN Output :
    Output[i].kind = "done" /\ (i = 1 \/ Output[i - 1].kind # "error") =>
      \A key \in Key : ShownBy(i, key)

(* A reply cut off by a limit or a failure says so: the error, the [DONE], *)
(* and not a fragment after them.                                          *)
AbortEndsTheReply ==
  ending = "aborted" =>
    /\ Len(Output) >= 2
    /\ Output[Len(Output) - 1].kind = "error" /\ Output[Len(Output)].kind = "done"
    /\ \A i \in 1 .. Len(Output) - 2 : Output[i].kind \notin {"error", "raw"}

(* The watermark is written once at most, and before the [DONE] a complete *)
(* stream was given.                                                       *)
WatermarkOnce ==
  \A i, j \in DOMAIN Output : Output[i].kind = "watermark" =>
    /\ Output[j].kind = "watermark" => i = j
    /\ Output[j].kind = "done" => i < j

(* Whatever ends a choice, a block or the reply for the client follows all *)
(* the text it ends (streaming.py 1082-1168, 1206-1285).                   *)
EndsAreComplete == FinishIsComplete /\ DoneIsComplete /\ AbortEndsTheReply /\ WatermarkOnce

Relay == INSTANCE StreamRelay
  WITH shown  <- client,
       ending <- IF status # "ended" THEN "" ELSE IF ending = "complete" THEN ending ELSE "cut"

(* The loop implements StreamRelay: channels never mix, their text keeps   *)
(* its order, and a stream that ends of itself has shown all of it.        *)
ImplementsRelay == Relay!Spec
=============================================================================
