------------------------------ MODULE RequestWalk ------------------------------
(***************************************************************************)
(* Which values of a request body are masked, and how: the walk of         *)
(* engines/pii_engine.py over a JSON object (redact_payload and the walks  *)
(* by shape it hands parts to), one descent at a time.                     *)
(*                                                                         *)
(* The client owns the body, so any field may hold a value of any kind.    *)
(* The walk is at a value, with the rule it is about to apply to it; a     *)
(* step opens one field of it, and a leaf ends the walk.  The leaf is      *)
(* always an identifier a detector recognises: what matters is whether it  *)
(* is masked, restorably or one-way, or leaves as it came.                 *)
(***************************************************************************)
EXTENDS Naturals, Sequences, FiniteSets

CONSTANTS
  Options,       \* the settings a request may be walked under
  FieldsOf(_),     \* the fields a client may put into an object, by rule
  MaxDepth,      \* max_depth of redact_payload (20 in the code)
  MaxNested,     \* max_depth of _redact_nested_content (8 in the code)
  MaxPath        \* bound of the model: how deep a client nests

ASSUME WalkAssumption ==
  /\ Options \subseteq [deep : BOOLEAN, blobs : {"warn", "skip", "block"}]
  /\ {MaxDepth, MaxNested, MaxPath} \subseteq Nat \ {0}

VARIABLES
  options,   \* ENABLE_DEEP_PAYLOAD_REDACTION and UNMAPPED_BLOB_POLICY
  walker,    \* the rule about to be applied, and what it was called with
  kind,      \* the kind of the value it is about to be applied to
  path,      \* the fields opened so far, each with the shape of its value
  outcome    \* what became of the leaf

walkvars == <<options, walker, kind, path, outcome>>

Strings == {"text", "uri", "long"}      \* short; "data:" or http; past the ceiling
Kinds == Strings \cup {"number", "list", "object"}

(* The key sets of the walk, with "skip" for a key that the operator or the *)
(* caller's policy protects, and "other" for any key in none of them.       *)
BuiltIn == {"type", "role"}
Protected(which) ==
  CASE which = "all" -> BuiltIn \cup {"skip"}
    [] which = "explicit" -> {"skip"}
    [] OTHER -> {}
Setting(k, v) == k = "seed" /\ v = "number"
Opaque == {"id", "data", "name"}
Reference == {"id"}
Replayed == {"text", "reasoning"}
Media == {"image_url", "source", "file"}
Prose == {"description", "title"}
NameMaps == {"properties"}
SchemaValues == {"enum"}
NoNumbers == {"enum", "parameters"}
TokenIds == {"logit_bias"}
TextValued == {"role", "type", "text", "name", "id", "title", "context", "url"}
Targeted == {"messages", "prompt", "system", "input", "instructions", "tools"}

(* An identifier as the name of a field. *)
Identifier == "identifier"

-----------------------------------------------------------------------------
(* The walks: each with the depth and the flags its caller gives it *)

Walk(r, d, o) ==
  [rule |-> r, depth |-> d, oneWay |-> o, protects |-> "all", ceiling |-> TRUE,
   numbers |-> TRUE, names |-> FALSE, prose |-> FALSE, texts |-> FALSE, ids |-> FALSE]

Kept == Walk("kept", 0, FALSE)
TooDeep == Walk("refused", 0, FALSE)
RedactText(o) == Walk("text", 0, o)
Unexpected(d, o) == Walk("unexpected", d, o)
TokenPath(d, o) == [Unexpected(d, o) EXCEPT !.ids = TRUE]
ToolInput == [Walk("deep", 0, FALSE) EXCEPT !.protects = "none"]
ToolDefinition(d) ==
  [Walk("deep", d, FALSE) EXCEPT !.prose = TRUE, !.ceiling = FALSE, !.numbers = FALSE]

(* A string is scanned as text; anything else by the walk given. *)
TextOr(v, o, other) == IF v \in Strings THEN RedactText(o) ELSE other

IsMedia(k, v, shape) ==
  k \in Media /\ ((v = "object" /\ shape = "media") \/ (k = "image_url" /\ v = "uri"))

(* Mutant: a handled key is taken as done whatever its value is. *)
RemainingUnlessHandled(k, v, shape, handled, d, o) ==
  IF k \in Protected("all") \/ Setting(k, v) \/ k \in handled THEN Kept
  ELSE IF IsMedia(k, v, shape) THEN (IF k = "file" THEN Walk("file", 0, o) ELSE Kept)
  ELSE IF k \in Opaque /\ v \in Strings THEN Kept
  ELSE [Walk("deep", d + 1, o) EXCEPT !.texts = TRUE,
          !.ceiling = ~(k \in Replayed /\ v \in Strings), !.numbers = k \notin NoNumbers]

(* A field that the walk of its object did not handle by shape. *)
Remaining(k, v, shape, handled, d, o) ==
  IF k \in Protected("all") \/ Setting(k, v) THEN Kept
  ELSE IF k \in handled THEN
    (IF k \in TextValued /\ v \in {"list", "object"} THEN Unexpected(d + 1, o) ELSE Kept)
  ELSE IF IsMedia(k, v, shape) THEN (IF k = "file" THEN Walk("file", 0, o) ELSE Kept)
  ELSE IF k \in Opaque /\ v \in Strings THEN Kept
  ELSE [Walk("deep", d + 1, o) EXCEPT !.texts = TRUE,
          !.ceiling = ~(k \in Replayed /\ v \in Strings), !.numbers = k \notin NoNumbers]

(* A field of an object below all shapes. *)
Deep(w, k, v) ==
  LET asData == ~w.names /\ k \in SchemaValues
  IN IF \/ k \in Protected(w.protects) /\ ~w.names
        \/ w.texts /\ k \in Reference /\ v \in Strings
        \/ ~w.names /\ (k \in TokenIds \/ Setting(k, v))
     THEN Kept
     ELSE [w EXCEPT
             !.depth = @ + 1,
             !.protects = IF asData /\ @ = "all" THEN "explicit" ELSE @,
             !.ceiling = @ /\ ~(w.texts /\ k \in Replayed /\ v \in Strings),
             !.names = ~@ /\ k \in NameMaps,
             !.prose = @ /\ ~asData,
             !.oneWay = @ \/ (w.prose /\ ~w.names /\ k \in Prose),
             !.numbers = @ /\ (w.names \/ k \notin NoNumbers)]

(* The text blocks of a system prompt, an input item or a document. *)
TextBlock(v, o) == IF v = "object" THEN Walk("textblock", 0, o) ELSE Unexpected(0, o)
TextBlocks(v, o, other) ==
  CASE v \in Strings -> RedactText(o)
    [] v = "list" -> Walk("textblocks", 0, o)
    [] v = "object" -> Walk("textblock", 0, o)
    [] OTHER -> other

-----------------------------------------------------------------------------
(* One field of the object, or one item of the list, the walk is at *)

OfPayload(w, k, v, shape) ==
  LET deeper == w.depth + 1
  IN CASE k = "messages" -> IF v = "list" THEN Walk("messages", w.depth, FALSE) ELSE Unexpected(deeper, FALSE)
       [] k = "prompt" -> CASE v \in Strings -> RedactText(FALSE)
                            [] v = "list" -> Walk("prompts", deeper, FALSE)
                            [] v = "object" -> Walk("prompt", deeper, FALSE)
                            [] OTHER -> Kept
       [] k = "system" -> IF v = "list" THEN Walk("textblocks", 0, TRUE) ELSE TextOr(v, TRUE, Unexpected(deeper, TRUE))
       [] k = "instructions" -> IF v = "list" THEN Walk("items", 0, TRUE) ELSE TextOr(v, TRUE, Unexpected(deeper, TRUE))
       [] k = "input" -> CASE v = "list" -> Walk("items", 0, FALSE)
                           [] v = "object" -> Walk("item", 0, shape = "app")
                           [] OTHER -> TextOr(v, FALSE, Kept)
       [] k = "tools" -> ToolDefinition(deeper)
       [] k = "user" -> Walk("deep", deeper, TRUE)
       [] k = "extra_body" -> IF v = "object" THEN Walk("payload", deeper, FALSE) ELSE Kept
       [] OTHER -> IF ~options.deep \/ k \in Protected("all") \/ Setting(k, v) THEN Kept
                   ELSE [Walk("deep", deeper, FALSE) EXCEPT !.numbers = k \notin NoNumbers]

OfMessages(w, v, shape) ==
  CASE v = "object" /\ shape = "wrapper" -> Walk("payload", w.depth + 1, FALSE)
    [] v = "object" /\ shape # "wrapper" -> Walk("message", w.depth, shape = "app")
    [] OTHER -> Unexpected(w.depth + 1, FALSE)

MessageHandled == {"role", "content", "name", "tool_calls", "function_call", "messages"}
OfMessage(w, k, v, shape) ==
  LET o == w.oneWay
      deeper == w.depth + 2
  IN CASE k = "content" -> CASE v = "list" -> Walk("blocks", deeper, o)
                             [] v = "object" -> Walk("block", deeper, o)
                             [] OTHER -> TextOr(v, o, Unexpected(deeper, o))
       [] k = "name" /\ v \in Strings -> RedactText(o)
       [] k = "tool_calls" -> CASE v = "list" -> Walk("calls", deeper, FALSE)
                                [] v = "object" -> Walk("call", deeper, FALSE)
                                [] OTHER -> Unexpected(deeper, FALSE)
       [] k = "function_call" -> IF v = "object" THEN Walk("function", deeper, FALSE) ELSE Unexpected(deeper, FALSE)
       [] OTHER -> Remaining(k, v, shape, MessageHandled, w.depth + 1, o)

OfToolCall(w, k, v, shape) ==
  CASE k = "function" -> IF v = "object" THEN Walk("function", w.depth + 1, FALSE) ELSE Unexpected(w.depth + 1, FALSE)
    [] k = "custom" -> IF v = "object" THEN Walk("custom", w.depth + 1, FALSE) ELSE Unexpected(w.depth + 1, FALSE)
    [] OTHER -> Remaining(k, v, shape, {"id", "type", "function", "custom"}, w.depth, FALSE)

(* A function's arguments, a custom call's input. *)
OfFunction(w, k, v, shape) ==
  LET text == IF w.rule = "custom" THEN "input" ELSE "arguments"
  IN IF k = text THEN TextOr(v, FALSE, Unexpected(w.depth + 1, FALSE))
     ELSE Remaining(k, v, shape, {"name", text}, w.depth, FALSE)

IsDocument == path # <<>> /\ path[Len(path)].shape = "document"
BlockHandled ==
  {"type", "text", "input", "content"} \cup (IF IsDocument THEN {"title", "context", "source"} ELSE {})

OfDocument(k, v, shape, o) ==
  CASE k = "source" -> CASE v = "object" /\ shape = "media" -> Kept
                         [] v = "object" /\ shape # "media" -> Walk("source", 1, o)
                         [] OTHER -> Unexpected(1, o)
    [] OTHER -> RedactText(o)

OfBlock(w, k, v, shape) ==
  LET d == IF w.rule = "block" THEN w.depth ELSE 0
  IN CASE k = "text" /\ v \in Strings -> RedactText(w.oneWay)
       [] IsDocument /\ (k = "source" \/ (k \in {"title", "context"} /\ v \in Strings)) ->
            OfDocument(k, v, shape, w.oneWay)
       [] k = "input" -> ToolInput
       [] k = "content" -> CASE v = "list" -> Walk("nested", 0, w.oneWay)
                             [] v = "object" -> Walk("nestedblock", 0, w.oneWay)
                             [] OTHER -> TextOr(v, w.oneWay, Unexpected(0, w.oneWay))
       [] OTHER -> Remaining(k, v, shape, BlockHandled, d, w.oneWay)

(* A tool result's blocks: one level deeper with each content. *)
OfNestedBlock(w, k, v, shape) ==
  IF k = "content"
  THEN IF v \notin {"list", "object"} THEN TextOr(v, w.oneWay, Kept)
       ELSE IF w.depth + 1 >= MaxNested THEN TooDeep
       ELSE Walk(IF v = "list" THEN "nested" ELSE "nestedblock", w.depth + 1, w.oneWay)
  ELSE OfBlock(w, k, v, shape)

OfSource(w, k, v, shape) ==
  CASE k = "data" -> TextOr(v, w.oneWay, Unexpected(2, w.oneWay))
    [] k = "content" -> TextBlocks(v, w.oneWay, Kept)
    [] OTHER -> Remaining(k, v, shape, {"type", "media_type", "data", "content"}, 1, w.oneWay)

ItemHandled == {"role", "type", "content", "summary", "arguments", "output", "input", "code", "outputs"}

(* Mutant: the remaining fields of an item forget whose item it is. *)
OfItemRestorably(w, k, v, shape) ==
  LET o == w.oneWay
  IN CASE k = "content" -> TextBlocks(v, o, Kept)
       [] k = "summary" -> IF v = "list" THEN Walk("textblocks", 0, o) ELSE Unexpected(0, o)
       [] k = "output" /\ v = "list" -> Walk("textblocks", 0, o)
       [] k \in {"arguments", "input", "code"} \/ (k = "output" /\ v # "list") ->
            TextOr(v, o, Unexpected(0, o))
       [] k = "outputs" -> IF v = "list" THEN Walk("printouts", 0, o) ELSE Unexpected(0, o)
       [] OTHER -> Remaining(k, v, shape, ItemHandled, 0, FALSE)

OfItem(w, k, v, shape) ==
  LET o == w.oneWay
  IN CASE k = "content" -> TextBlocks(v, o, Kept)
       [] k = "summary" -> IF v = "list" THEN Walk("textblocks", 0, o) ELSE Unexpected(0, o)
       [] k = "output" /\ v = "list" -> Walk("textblocks", 0, o)
       [] k \in {"arguments", "input", "code"} \/ (k = "output" /\ v # "list") ->
            TextOr(v, o, Unexpected(0, o))
       [] k = "outputs" -> IF v = "list" THEN Walk("printouts", 0, o) ELSE Unexpected(0, o)
       [] OTHER -> Remaining(k, v, shape, ItemHandled, 0, o)

OfPrintout(w, k, v, shape) ==
  IF k = "logs" THEN TextOr(v, w.oneWay, Unexpected(1, w.oneWay))
  ELSE Remaining(k, v, shape, {"type", "logs", "url"}, 0, w.oneWay)

(* A prompt object: of its fields only the caller's variables are gone into. *)
OfPrompt(w, k, v) ==
  CASE k # "variables" -> Kept
    [] k = "variables" /\ v = "object" -> Walk("variables", w.depth + 1, FALSE)
    [] OTHER -> Unexpected(w.depth + 1, FALSE)

OfFile(k, v, o) == IF k = "filename" /\ v \in Strings THEN RedactText(o) ELSE Kept

OfUnexpected(w, k, v, shape) ==
  Remaining(k, v, shape, {}, w.depth, w.oneWay)

OfObject(w, k, v, shape) ==
  CASE w.rule = "payload" -> OfPayload(w, k, v, shape)
    [] w.rule = "message" -> OfMessage(w, k, v, shape)
    [] w.rule = "call" -> OfToolCall(w, k, v, shape)
    [] w.rule \in {"function", "custom"} -> OfFunction(w, k, v, shape)
    [] w.rule = "block" -> OfBlock(w, k, v, shape)
    [] w.rule = "nestedblock" -> OfNestedBlock(w, k, v, shape)
    [] w.rule = "source" -> OfSource(w, k, v, shape)
    [] w.rule = "textblock" ->
         IF k = "text" /\ v \in Strings THEN RedactText(w.oneWay)
         ELSE Remaining(k, v, shape, {"type", "text"}, 0, w.oneWay)
    [] w.rule = "item" -> OfItem(w, k, v, shape)
    [] w.rule = "printout" -> OfPrintout(w, k, v, shape)
    [] w.rule = "prompt" -> OfPrompt(w, k, v)
    [] w.rule = "variables" -> TextOr(v, FALSE, Unexpected(w.depth + 1, FALSE))
    [] w.rule = "file" -> OfFile(k, v, w.oneWay)
    [] w.rule = "unexpected" -> OfUnexpected(w, k, v, shape)
    [] OTHER -> Deep(w, k, v)

OfList(w, v, shape) ==
  LET one(rule, other) == IF v = "object" THEN Walk(rule, w.depth, w.oneWay) ELSE other
  IN CASE w.rule = "messages" -> OfMessages(w, v, shape)
       [] w.rule = "prompts" -> TextOr(v, FALSE, TokenPath(w.depth, FALSE))
       [] w.rule = "textblocks" -> TextBlock(v, w.oneWay)
       [] w.rule = "items" ->
            IF v = "object" THEN Walk("item", 0, w.oneWay \/ shape = "app")
            ELSE TextOr(v, w.oneWay, TokenPath(0, w.oneWay))
       [] w.rule = "printouts" -> one("printout", Unexpected(0, w.oneWay))
       [] w.rule = "blocks" -> one("block", Unexpected(w.depth, w.oneWay))
       [] w.rule = "nested" -> one("nestedblock", Unexpected(0, w.oneWay))
       [] w.rule = "calls" -> one("call", Unexpected(w.depth, FALSE))
       [] w.rule = "unexpected" -> [w EXCEPT !.depth = @ + 1]
       [] OTHER -> [w EXCEPT !.depth = @ + 1, !.names = FALSE]

-----------------------------------------------------------------------------

Shapes(w, k) ==
  CASE w.rule \in {"messages", "items"} \/ (w.rule = "payload" /\ k = "input") -> {"plain", "app", "wrapper"}
    [] w.rule \in {"blocks", "nested"} \/ k = "content" -> {"plain", "document"}
    [] k \in Media -> {"plain", "media"}
    [] OTHER -> {"plain"}

RWInit ==
  /\ options \in Options
  /\ walker = Walk("payload", 0, FALSE)
  /\ kind = "object" /\ path = <<>> /\ outcome = "-"

Checked(w) == w.rule \in {"payload", "unexpected", "deep"}
Walks == outcome = "-" /\ ~(Checked(walker) /\ walker.depth > MaxDepth) /\ walker.rule \notin {"kept", "refused"}

(* One field of an object, one item of a list, is gone into. *)
OpensField ==
  /\ Walks /\ Len(path) < MaxPath /\ kind \in {"object", "list"}
  /\ \E k \in (IF kind = "object" THEN FieldsOf(walker.rule) ELSE {"[]"}), v \in Kinds,
        shape \in {"plain", "app", "wrapper", "document", "media"} :
       /\ shape \in Shapes(walker, k) /\ (v # "object" => shape = "plain")
       /\ walker' = IF kind = "object" THEN OfObject(walker, k, v, shape) ELSE OfList(walker, v, shape)
       /\ kind' = v
       /\ path' = Append(path, [key |-> k, shape |-> shape])
  /\ UNCHANGED <<options, outcome>>

WalkEnds(how) == outcome' = how /\ UNCHANGED <<options, walker, kind, path>>
Masks(w) == WalkEnds(IF w.oneWay THEN "oneway" ELSE "restorable")

(* A string is scanned whole: redact_text. *)
ScansText ==
  /\ Walks /\ kind \in Strings
  /\ \/ walker.rule \in {"text", "unexpected"}
     \/ walker.rule = "deep" /\ (kind = "text" \/ ~walker.ceiling)
  /\ Masks(walker)

(* A string past the blob ceiling, or a data URI, in a field of no shape. *)
HandlesBlob ==
  /\ Walks /\ walker.rule = "deep" /\ walker.ceiling /\ kind \in {"uri", "long"}
  /\ CASE options.blobs = "block" -> WalkEnds("refused")
       [] options.blobs = "skip" \/ (options.blobs # "block" /\ kind = "uri") -> WalkEnds("kept")
       [] OTHER -> \E edge \in {"marker", "kept"} : WalkEnds(edge)   \* at an edge, or inside

ScansNumber ==
  /\ Walks /\ kind = "number" /\ walker.rule \in {"unexpected", "deep"}
  /\ IF walker.numbers /\ ~walker.ids THEN Masks(walker) ELSE WalkEnds("kept")

(* An identifier used as the name of a field. *)
ScansKey ==
  /\ Walks /\ kind = "object" /\ Len(path) < MaxPath
  /\ path' = Append(path, [key |-> Identifier, shape |-> "plain"])
  /\ outcome' = IF walker.rule \in {"prompt", "variables", "file"} \/ (walker.rule = "payload" /\ ~options.deep)
                THEN "kept" ELSE IF walker.oneWay THEN "oneway" ELSE "restorable"
  /\ UNCHANGED <<options, walker, kind>>

PassesOn == outcome = "-" /\ walker.rule = "kept" /\ WalkEnds("kept")
RefusesDepth ==
  /\ outcome = "-" /\ (walker.rule = "refused" \/ (Checked(walker) /\ walker.depth > MaxDepth))
  /\ WalkEnds("refused")

RWNext == OpensField \/ ScansText \/ HandlesBlob \/ ScansNumber \/ ScansKey \/ PassesOn \/ RefusesDepth
RWSpec == RWInit /\ [][RWNext]_walkvars

-----------------------------------------------------------------------------
(* What the walk promises, in terms of the path alone *)

Key(i) == path[i].key
Positions == 1 .. Len(path)

(* Position i opens a field of a request, the outer one or one within it. *)
RequestLevel[i \in Nat] ==
  \/ i = 1
  \/ i > 1 /\ i <= Len(path) /\ RequestLevel[i - 1] /\ Key(i - 1) = "extra_body"
  \/ i > 2 /\ i <= Len(path) /\ RequestLevel[i - 2] /\ path[i - 1].shape = "wrapper"

(* Position i opens a property a schema names, which is no keyword. *)
NamesProperty[i \in Nat] == i > 1 /\ Key(i - 1) \in NameMaps /\ ~NamesProperty[i - 1]
InSchemaData(i) == \E j \in 1 .. i - 1 : Key(j) \in SchemaValues /\ ~NamesProperty[j]

ReplaysCall(i) == Key(i) \in {"tool_calls", "function_call", "input"}

(* Text the application writes and not its user: it may not come back. *)
WrittenByApplication ==
  \E i \in Positions :
    /\ RequestLevel[i]
    /\ \/ Key(i) \in {"system", "instructions", "user"}
       \/ /\ Key(i) \in {"messages", "input"}
          /\ \E j \in {i, i + 1} \cap Positions :
               path[j].shape = "app" /\ \A k \in j + 1 .. Len(path) : Key(i) = "messages" => ~ReplaysCall(k)
       \/ /\ Key(i) = "tools"
          /\ \E j \in i + 1 .. Len(path) : Key(j) \in Prose /\ ~NamesProperty[j] /\ ~InSchemaData(j)

(* A value the application wrote is never replaced by a token that a reply *)
(* brings back: system and instructions, developer turns and items, the    *)
(* end user's id, and the prose of tool definitions, however deep the      *)
(* value and whatever the kinds of the fields around it (pii_engine.py     *)
(* 438-447, 530-547, 1265-1458).                                           *)
AppTextStaysOneWay == outcome = "restorable" => ~WrittenByApplication

(* The reasons for which a short text may leave as it came. *)
InToolInput(i) ==
  \E m \in Positions, j \in 1 .. i - 1 :
    /\ RequestLevel[m] /\ Key(m) = "messages" /\ m < j /\ Key(j) = "input" /\ ~RequestLevel[j]
    /\ \A k \in m + 1 .. j - 1 : Key(k) \in {"[]", "content"}
ProtectedAt(i) ==
  /\ Key(i) = "skip" \/ (Key(i) \in BuiltIn /\ ~InSchemaData(i))
  /\ ~NamesProperty[i] /\ ~InToolInput(i)
LeftToSwitch == ~options.deep /\ \E i \in Positions :
  RequestLevel[i] /\ Key(i) \notin Targeted \cup {"user", "extra_body"}
OfStoredPrompt == \E i \in 1 .. Len(path) - 1 :
  RequestLevel[i] /\ Key(i) = "prompt" /\ Key(i + 1) \notin {"variables", "[]"}
MayStay ==
  \/ Key(Len(path)) \in Opaque /\ ~InToolInput(Len(path))
  \/ Key(Len(path)) \in {"extra_body", "url"}
  \/ LeftToSwitch \/ OfStoredPrompt
  \/ \E i \in Positions : ProtectedAt(i) \/ path[i].shape = "media" \/ Key(i) \in TokenIds

(* A number is left where it is a token id or a schema's constraint, and   *)
(* where the walk of a shape looks for a string and finds none.            *)
NumberMayStay ==
  \/ Key(1) = "tools" \/ \E i \in Positions : Key(i) \in NoNumbers \/ Key(i) = "tools"
  \/ \E i \in Positions : Key(i) \in {"prompt", "input", "instructions"} /\ \A j \in i + 1 .. Len(path) : Key(j) = "[]"
  \/ Key(Len(path)) \in {"seed", "content"} \cup TextValued

(* Every identifier in a request is scanned, whatever the kinds of the     *)
(* fields it lies in: a short text leaves as it came only under a key that *)
(* is protected there, as an id, in a media payload, or in a field that    *)
(* deep redaction was switched off for; a longer one, or a data URI, only  *)
(* where the blob policy lets it; a number only where none is looked for   *)
(* (pii_engine.py 1489-1538, 1602-1643, 1754-1983).                        *)
EveryValueIsScanned ==
  (outcome = "kept" /\ Key(Len(path)) # Identifier) =>
    \/ MayStay
    \/ kind = "number" /\ NumberMayStay
    \/ kind = "uri" /\ Key(Len(path)) = "image_url"
    \/ kind \in {"uri", "long"} /\ options.blobs # "block" /\ Key(1) # "tools"

(* Every value is scanned, the application's one way only                  *)
(* (pii_engine.py:1236-1487, 1754-1930).                                   *)
ValuesAreWalked == EveryValueIsScanned /\ AppTextStaysOneWay
=============================================================================
