------------------------------- MODULE MCRequest -------------------------------
(***************************************************************************)
(* What becomes of one request, part by part: its admission, its way       *)
(* through the MCP gateway, the walk over its fields, the spans of one     *)
(* text, the stateless branch, and its reply when that is not streamed.    *)
(* Each part takes what the one before leaves as any value it may have, so *)
(* they share no state: a behaviour moves one and leaves the others as     *)
(* they start.                                                             *)
(***************************************************************************)
EXTENDS Admission, McpGateway, RequestWalk, SpanSelection, StatelessEngine, RestReply

VARIABLE part

(* The shape checker on and off; a blob passed over, and refused. *)
WalkOptions == {[deep |-> TRUE, blobs |-> "warn"], [deep |-> FALSE, blobs |-> "block"]}

(* Fields of every kind the walk tells apart. *)
FieldsIn(rule) ==
  CASE rule = "payload" -> {"messages", "prompt", "system", "input", "instructions", "tools",
                            "user", "extra_body", "seed", "other"}
    [] rule = "message" -> {"content", "name", "tool_calls", "function_call", "reasoning", "other"}
    [] rule = "call" -> {"function", "custom", "id"}
    [] rule = "function" -> {"name", "arguments"}
    [] rule = "custom" -> {"input", "other"}
    [] rule \in {"block", "nestedblock"} ->
         {"text", "input", "content", "title", "source", "image_url", "other"}
    [] rule = "source" -> {"data", "content", "other"}
    [] rule = "textblock" -> {"text", "id"}
    [] rule = "item" -> {"content", "summary", "output", "arguments", "outputs", "other"}
    [] rule = "printout" -> {"logs", "url"}
    [] rule = "prompt" -> {"id", "variables"}
    [] rule = "variables" -> {"other"}
    [] rule = "file" -> {"filename", "data"}
    [] rule = "unexpected" -> {"other", "file", "type"}
    [] OTHER -> {"other", "type", "skip", "text", "description", "properties", "enum"}

(* Digits, separators, letters and blanks: runs that a span ends in, runs  *)
(* longer than what is inspected, blobs with framing and without.          *)
SampleTexts ==
  {<<"d", "d", "-", "d", " ", "d">>, <<"b", "d", "d", "d", "b", " ", "d">>,
   <<"d", "-", "-", "d", "d">>, <<"b", "b", "b", "b", "b", "d", "d">>,
   <<" ", "d", "-", "d", "-", "d", "b">>, <<"b", "b", "d", "d", "d", "d">>,
   <<"d", "d", "d", "d", "d", "d", "d", "d">>}

SampleContents ==
  {<<>>, <<"plain">>, <<"pii">>, <<"own">>, <<"canary">>, <<"key">>,
   <<"own", "pii">>, <<"own", "own">>, <<"key", "pii">>}

(* A part that does not move has not begun. *)
Idle == [at |-> "idle"]
MCInit ==
  /\ part \in {"admission", "gateway", "walk", "spans", "stateless", "reply"}
  /\ IF part = "admission" THEN AInit
     ELSE settings = Idle /\ gen = 0 /\ offer = Idle /\ r = Idle
  /\ IF part = "gateway" THEN RInit
     ELSE gate = Idle /\ records = Idle /\ moves = 0 /\ rpc = Idle /\ dialled = {} /\ looked = {}
  /\ IF part = "walk" THEN RWInit
     ELSE options = Idle /\ walker = Idle /\ kind = "idle" /\ path = <<>> /\ outcome = "idle"
  /\ IF part = "spans" THEN SPInit
     ELSE source = <<>> /\ raw = {} /\ spans = <<>> /\ result = <<>> /\ phase = "idle"
  /\ IF part = "stateless" THEN EInit
     ELSE maxDepth = 0 /\ document = Idle /\ tree = Idle /\ stack = {} /\ stage = "idle"
  /\ IF part = "reply" THEN RPInit
     ELSE /\ switches = Idle /\ route = "idle" /\ form = "idle" /\ reply = <<>> /\ text = <<>>
          /\ unscanned = {} /\ todo = {} /\ budget = 0 /\ at = "idle"

AdmissionStep ==
  part = "admission" /\ ANext /\ UNCHANGED <<rvars, walkvars, spanvars, evars, pageVars>>
GatewayStep ==
  part = "gateway" /\ RNext /\ UNCHANGED <<avars, walkvars, spanvars, evars, pageVars>>
WalkStep ==
  part = "walk" /\ RWNext /\ UNCHANGED <<avars, rvars, spanvars, evars, pageVars>>
SpanStep ==
  part = "spans" /\ SPNext /\ UNCHANGED <<avars, rvars, walkvars, evars, pageVars>>
StatelessStep ==
  part = "stateless" /\ ENext /\ UNCHANGED <<avars, rvars, walkvars, spanvars, pageVars>>
ReplyStep ==
  part = "reply" /\ RPNext /\ UNCHANGED <<avars, rvars, walkvars, spanvars, evars>>

MCNext ==
  /\ \/ AdmissionStep \/ GatewayStep \/ WalkStep
     \/ SpanStep \/ StatelessStep \/ ReplyStep
  /\ UNCHANGED part

MCSpec == MCInit /\ [][MCNext]_<<avars, rvars, walkvars, spanvars, evars, pageVars, part>>
=============================================================================
