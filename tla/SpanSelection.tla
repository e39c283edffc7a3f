----------------------------- MODULE SpanSelection -----------------------------
(***************************************************************************)
(* How the spans the detectors report become one masked text               *)
(* (engines/pii_engine.py: detect_spans, redact_text): which parts of the  *)
(* text the patterns read at all, which of the overlapping spans are kept, *)
(* how a span grows over the digits that follow it, and the replacement,   *)
(* from the last span to the first.                                        *)
(*                                                                         *)
(* What a pattern matches is external: any span of a part that is read may *)
(* be reported, and any encoded run whose decoded text has a match.  (The   *)
(* tier that names people runs only with a model installed and is not      *)
(* modelled.)                                                              *)
(***************************************************************************)
EXTENDS Naturals, SequencesExt

CONSTANTS
  Texts,         \* sequences of "d" digit, "-" separator, "b" letter, " " other
  MaxSpans,      \* bound of the model: spans reported of one text
  MaxInspected,  \* MAX_BASE64_INSPECTION_CHARS
  Guard,         \* BASE64_BOUNDARY_SCAN_CHARS
  Framing        \* 4 characters of base64 are one unit of the bytes

Character == {"d", "-", "b", " "}

ASSUME SpanAssumption ==
  /\ Texts \subseteq Seq(Character)
  /\ MaxSpans \in Nat /\ Guard \in Nat \ {0} /\ Framing \in Nat \ {0}
  /\ MaxInspected \in Nat /\ 2 * Guard <= MaxInspected

VARIABLES source, raw, spans, result, phase
spanvars == <<source, raw, spans, result, phase>>

(* A span is <<first, past>>: it covers first .. past - 1, from 1. *)
Span(t) == {s \in (1 .. Len(t)) \X (2 .. Len(t) + 1) : s[1] < s[2]}
Chars(s) == s[1] .. s[2] - 1
Encodable(t, i) == i \in DOMAIN t /\ t[i] \in {"b", "d"}

(* The runs that may be base64, and what of an oversized one is not read. *)
Runs(t) ==
  {s \in Span(t) : /\ \A i \in Chars(s) : Encodable(t, i)
                   /\ ~Encodable(t, s[1] - 1) /\ ~Encodable(t, s[2])}
Oversized(s) == s[2] - s[1] > MaxInspected
Interiors(t) == {<<s[1] + Guard, s[2] - Guard>> : s \in {r \in Runs(t) : Oversized(r)}}
TailGuard(s) == LET offset == (s[2] - s[1]) - Guard IN s[1] + (offset - (offset % Framing))
Encoded(t) ==
  {s \in Runs(t) : ~Oversized(s)}
    \cup UNION {{<<s[1], s[1] + Guard>>, <<TailGuard(s), s[2]>>} : s \in {r \in Runs(t) : Oversized(r)}}

(* The segments between the interiors, which the patterns read one by one. *)
Read(t, s) == \A h \in Interiors(t) : Chars(s) \cap Chars(h) = {}

(* The runs between blanks, which may hold percent or entity escapes. *)
Escaped(t) ==
  {s \in Span(t) : /\ \A i \in Chars(s) : t[i] # " "
                   /\ \A i \in {s[1] - 1, s[2]} \cap DOMAIN t : t[i] = " "}

Reported(t) == {s \in Span(t) : Read(t, s)} \cup Encoded(t) \cup Escaped(t)

Before(s, r) == s[1] < r[1] \/ (s[1] = r[1] /\ s[2] >= r[2])
Sorted(found) ==
  {order \in [1 .. Cardinality(found) -> found] :
     /\ \A s \in found : \E k \in DOMAIN order : order[k] = s
     /\ \A k, l \in DOMAIN order : k < l => Before(order[k], order[l])}

(* The earliest first, then the longest; whatever begins in one is dropped. *)
NonOverlapping(order) ==
  LET kept[k \in 0 .. Len(order)] ==
        IF k = 0 THEN <<>>
        ELSE IF kept[k - 1] = <<>> \/ order[k][1] >= Last(kept[k - 1])[2] THEN Append(kept[k - 1], order[k])
        ELSE kept[k - 1]
  IN kept[Len(order)]

IsDigit(t, i) == i \in DOMAIN t /\ t[i] = "d"

(* Mutant: a separator ends the run. *)
ExtendOverDigits(t, past, limit) ==
  CHOOSE e \in past .. limit :
    /\ \A i \in past .. e - 1 : t[i] = "d"
    /\ e < limit => t[e] # "d"

(* From past on, over digits, and over a separator with a digit behind it. *)
ExtendSpanOverDigitRun(t, past, limit) ==
  CHOOSE e \in past .. limit :
    /\ \A i \in past .. e - 1 : t[i] = "d" \/ (t[i] = "-" /\ i + 1 < e /\ IsDigit(t, i + 1))
    /\ e < limit => t[e] # "d" /\ ~(t[e] = "-" /\ e + 1 < limit /\ IsDigit(t, e + 1))

Completed(t, chosen) ==
  [k \in DOMAIN chosen |->
     LET s == chosen[k]
         limit == IF k < Len(chosen) THEN chosen[k + 1][1] ELSE Len(t) + 1
     IN IF IsDigit(t, s[2] - 1) THEN <<s[1], ExtendSpanOverDigitRun(t, s[2], limit)>> ELSE s]

Token(s) == <<[token |-> s, half |-> 1], [token |-> s, half |-> 2]>>
Put(t, s) == SubSeq(t, 1, s[1] - 1) \o Token(s) \o SubSeq(t, s[2], Len(t))

(* Mutant: from the first span to the last. *)
RedactTextForwards(t, chosen) == FoldLeft(LAMBDA r, s : Put(r, s), t, chosen)
RedactTextBackwards(t, chosen) ==
  LET after[k \in 0 .. Len(chosen)] ==
        IF k = 0 THEN t ELSE Put(after[k - 1], chosen[Len(chosen) + 1 - k])
  IN after[Len(chosen)]

-----------------------------------------------------------------------------

SPInit ==
  /\ source \in Texts /\ raw = {} /\ spans = <<>> /\ result = source /\ phase = "detects"

(* A detector of any tier reports one more span. *)
Reports ==
  /\ phase = "detects" /\ Cardinality(raw) < MaxSpans
  /\ \E s \in Reported(source) \ raw : raw' = raw \cup {s}
  /\ UNCHANGED <<source, spans, result, phase>>

DetectSpans ==
  /\ phase = "detects"
  /\ \E order \in Sorted(raw) : spans' = Completed(source, NonOverlapping(order))
  /\ phase' = "replaces"
  /\ UNCHANGED <<source, raw, result>>

ReplacesSpans ==
  /\ phase = "replaces"
  /\ result' = RedactTextBackwards(source, spans) /\ phase' = "done"
  /\ UNCHANGED <<source, raw, spans>>

SPNext == Reports \/ DetectSpans \/ ReplacesSpans
SPSpec == SPInit /\ [][SPNext]_spanvars

-----------------------------------------------------------------------------

MaskedChars == UNION {Chars(spans[k]) : k \in DOMAIN spans}

(* The text in the order it was written, each span once as its token. *)
Piece(i) ==
  IF \E k \in DOMAIN spans : spans[k][1] = i
  THEN Token(spans[CHOOSE k \in DOMAIN spans : spans[k][1] = i])
  ELSE IF i \in MaskedChars THEN <<>> ELSE <<source[i]>>
ReferenceText == FlattenSeq([i \in DOMAIN source |-> Piece(i)])

(* No reported identifier leaves without its first character masked, none  *)
(* leaves a digit of its run behind the token, the spans replaced do not   *)
(* overlap, and the text around them is the caller's, in its order         *)
(* (pii_engine.py 350-370, 1193-1234, 1168-1191).                          *)
EverySpanIsMasked ==
  phase = "done" =>
    /\ \A s \in raw : s[1] \in MaskedChars
    /\ \A k, l \in DOMAIN spans : k < l => spans[k][2] <= spans[l][1]
    /\ \A k \in DOMAIN spans :
         LET past == spans[k][2] IN
         IsDigit(source, past - 1) =>
           /\ IsDigit(source, past) => past \in MaskedChars
           /\ (past \in DOMAIN source /\ source[past] = "-" /\ IsDigit(source, past + 1)) =>
                past \in MaskedChars \/ past + 1 \in MaskedChars
    /\ result = ReferenceText
=============================================================================
