----------------------------- MODULE SiblingScan -----------------------------
(***************************************************************************)
(* The fields of a streamed event other than its ordered text              *)
(* (_redact_sibling_strings, _SiblingPathTails and _redact_across_join in  *)
(* streaming/streaming.py).  They are not held back: what each JSON path   *)
(* emitted last is remembered, for a number of paths, and a fragment that  *)
(* completes a value the detectors know is cut as it goes out.             *)
(*                                                                         *)
(* A value is the word 1, 2 .. ValueLength, which a detector finds whole   *)
(* or not at all; a piece of it out of place is as good as any other text, *)
(* and Mark is a redaction.                                                *)
(***************************************************************************)
EXTENDS Integers, Sequences, FiniteSets

CONSTANTS
  Paths,         \* JSON paths over which the upstream may cut the value
  OtherPaths,    \* and paths that say something else
  MaxPaths,      \* MAX_SIBLING_PATHS
  ValueLength,
  Window         \* RESPONSE_PII_SCAN_WINDOW

ASSUME SiblingAssumption ==
  MaxPaths \in Nat \ {0} /\ ValueLength \in Nat \ {0} /\ Window \in Nat

Mark == 0

(* Pieces of the value, and an empty field. *)
Fragments ==
  {<<>>} \cup {[i \in 1 .. to - from + 1 |-> from + i - 1] : from \in 1 .. ValueLength,
                                                          to \in 1 .. ValueLength}

VARIABLES
  tails,      \* _tails, least recently seen first: <<path, text>>
  joined,     \* the end of what the client joined up on each path not evicted
  leaked,     \* the paths on which it has the value
  evicted     \* the paths whose memory was dropped

tvars == <<tails, joined, leaked, evicted>>

TInit == tails = <<>> /\ joined = [p \in Paths \cup OtherPaths |-> <<>>] /\ leaked = {} /\ evicted = {}

-----------------------------------------------------------------------------
Ending(text, n) == IF Len(text) > n THEN SubSeq(text, Len(text) - n + 1, Len(text)) ELSE text
Beginning(text, n) == IF Len(text) > n THEN SubSeq(text, 1, n) ELSE text

(* detect_spans: where the value starts in a text. *)
Starts(text) ==
  {i \in 1 .. Len(text) - ValueLength + 1 : \A k \in 1 .. ValueLength : text[i + k - 1] = k}

(* Chunk-local: a fragment is at most the whole value. *)
RedactModelOriginated(fragment) == IF Starts(fragment) # {} THEN <<Mark>> ELSE fragment

(* Of the spans that straddle the join, the one that reaches furthest: its *)
(* part in the fragment is replaced.                                       *)
RedactAcrossJoin(tail, fragment) ==
  LET head == Ending(tail, Window)
      probe == head \o Beginning(fragment, Window)
      straddling == {i + ValueLength - 1 : i \in {s \in Starts(probe) :
                       s <= Len(head) /\ s + ValueLength - 1 > Len(head)}}
  IN  IF tail = <<>> \/ fragment = <<>> \/ straddling = {} THEN fragment
      ELSE LET end == CHOOSE e \in straddling : \A f \in straddling : f <= e
           IN  <<Mark>> \o SubSeq(fragment, end - Len(head) + 1, Len(fragment))

Tracked(p) == {i \in 1 .. Len(tails) : tails[i][1] = p}
Previous(p) == IF Tracked(p) = {} THEN <<>> ELSE tails[CHOOSE i \in Tracked(p) : TRUE][2]

(* Mutant: the tail is the last fragment, not what was joined. *)
RemembersLastOnly(p, out) == Ending(out, Window)

Remembers(p, out) == Ending(Previous(p) \o out, Window)

Others(p) ==
  IF Tracked(p) = {} THEN tails
  ELSE LET i == CHOOSE i \in Tracked(p) : TRUE
       IN  SubSeq(tails, 1, i - 1) \o SubSeq(tails, i + 1, Len(tails))

(* The path moves to the recent end; one path too many drops the oldest. *)
Recorded(p, text) == Append(Others(p), <<p, text>>)

Scans(p, fragment) ==
  LET own == RedactModelOriginated(fragment)
      out == RedactAcrossJoin(Previous(p), own)
      kept == Recorded(p, Remembers(p, out))
      full == Len(kept) > MaxPaths
      lost == IF fragment # <<>> /\ full THEN evicted \cup {kept[1][1]} ELSE evicted
  IN  /\ tails' = IF fragment = <<>> THEN tails ELSE IF full THEN Tail(kept) ELSE kept
      /\ evicted' = lost
      /\ leaked' = IF Starts(joined[p] \o out) # {} THEN leaked \cup {p} ELSE leaked
      /\ joined' = [q \in DOMAIN joined |->
                     IF q \in lost THEN <<>>
                     ELSE IF q = p THEN Ending(joined[p] \o out, ValueLength - 1) ELSE joined[q]]

TNext == \/ \E p \in Paths, f \in Fragments : Scans(p, f)
         \/ \E p \in OtherPaths : Scans(p, <<ValueLength>>)

TSpec == TInit /\ [][TNext]_tvars

-----------------------------------------------------------------------------
(* However a value is cut over the events of a field, and whatever other   *)
(* fields come between, the client cannot join it up, unless the stream    *)
(* used more fields than are remembered (streaming.py:237-284, 319-343).   *)
SplitValuesStayApart == leaked \subseteq evicted
=============================================================================
