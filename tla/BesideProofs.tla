---------------------------- MODULE BesideProofs ----------------------------
(***************************************************************************)
(* Proofs about what runs beside the proxy: the check of an MCP server     *)
(* (ServerCheck), the results wall (ResultsWall), the LiteLLM guardrail    *)
(* (LiteLLMGuardrail) and the benchmark's two profiles (PartitionRun and   *)
(* CaptureRun).                                                            *)
(***************************************************************************)
EXTENDS MCBeside, SequenceLemmas, FiniteSetTheorems, TLAPS

(***************************************************************************)
(* A run of mcp-ssrf-check (ServerCheck).  A label is probed once, so what *)
(* the run noted of it is what its row says; what arrived was dialled; and *)
(* a check fails exactly when something of it was honoured.                *)
(***************************************************************************)
ProbeLabels == Spelled \cup {"redirect-target", "redirect"}
Results == {Untried, "pass", "fail", "inconclusive", "skip"}
Rows == {Untried, "reached", "unclear", "refused", "transport-error", "not-exercised"}
Before == {"open", "host", "origin", "session", "second", "reuse", "wiring"}
Probing == {"control", "call", "await"}

CheckTypes ==
  /\ step \in Before \cup Probing \cup {"over"}
  /\ probes \in Seq(ProbeLabels)
  /\ matrix \in [Spelled \cup {"redirect"} -> Rows]
  /\ statuses \in [Checks -> Results]

(* No label comes twice, nor was one looked at that is still to come.      *)
ProbesAreNew ==
  /\ \A i, j \in 1 .. Len(probes) : probes[i] = probes[j] => i = j
  /\ \A i \in 1 .. Len(probes) :
       LET l == probes[i] IN
       /\ l \in Spelled => matrix[l] = Untried /\ l \notin proven
       /\ l \notin Spelled => matrix["redirect"] = Untried /\ "redirect-target" \notin proven
  /\ step = "await" => probes # <<>>

NothingProbed ==
  proven = {} /\ ~wiringError /\ \A l \in Spelled \cup {"redirect"} : matrix[l] = Untried

RowsAreFounded ==
  /\ hits \subseteq dialled
  /\ \A l \in Spelled : (l \in proven => matrix[l] = "reached")
                        /\ (matrix[l] = "reached" => <<l, 0>> \in dialled)
  /\ matrix["redirect"] = "reached" => <<"redirect", 1>> \in dialled /\ "redirect-target" \notin proven
  /\ step \in Before => expected = {}
  /\ step = "await" => expected # {}
  /\ expected = {} => NothingProbed

(* The checks of headers and sessions. *)
ChecksAreFounded ==
  /\ honoured \subseteq {"host", "origin", "made up", "ended"}
  /\ \A h \in {"host", "origin"} : h \in honoured <=> statuses[h] = "fail"
  /\ honoured \cap {"made up", "ended"} = failures
  /\ step = "reuse" => second = "ended"
  /\ step \notin Before \ {"wiring"} /\ failures # {} => statuses["session"] \in {"fail", "inconclusive"}
  /\ statuses["session"] = "fail" => failures # {}
  /\ step \in {"open", "host", "origin", "session"} => failures = {}
  /\ statuses["baseline"] # "fail" /\ statuses["tool-wiring"] # "fail"
  /\ step = "open" => statuses["host"] = Untried
  /\ step \in {"open", "host"} => statuses["host"] = Untried
  /\ step \in {"open", "host", "origin"} => statuses["origin"] = Untried

SsrfIsFounded ==
  /\ statuses["ssrf"] = "fail" => step = "over" /\ Outcomes("reached") # {}
  /\ step = "over" /\ Outcomes("reached") # {} => statuses["ssrf"] = "fail"
  /\ statuses["ssrf"] = "inconclusive" => step = "over"
  /\ MissingToolIsMissing

CheckInv ==
  CheckTypes /\ ProbesAreNew /\ RowsAreFounded /\ ChecksAreFounded /\ SsrfIsFounded

LEMMA SpelledIsString == Spelled \subseteq STRING /\ Spellings \in Seq(Spelled)
BY CheckAssumption DEF Spelled

LEMMA ExitIsOne == ExitCode = 1 <=> \E c \in Checks : statuses[c] = "fail"
BY DEF ExitCode

LEMMA ExitIsZero ==
  ExitCode = 0 <=> \A c \in Checks : statuses[c] \notin {"fail", "inconclusive"}
BY DEF ExitCode

LEMMA CheckInit == MInit => CheckInv
<1> SUFFICES ASSUME MInit PROVE CheckInv
  OBVIOUS
<1> USE DEF MInit
<1>1. CheckTypes
  BY DEF CheckTypes, Results, Rows, Before
<1>2. ProbesAreNew
  BY DEF ProbesAreNew
<1>3. RowsAreFounded
  BY CheckAssumption DEF RowsAreFounded, NothingProbed, Untried, Before
<1>4. ChecksAreFounded
  BY DEF ChecksAreFounded, Untried, Before, Checks
<1>5. SsrfIsFounded
  <2>1. \A c \in Checks : statuses[c] = Untried
    BY DEF Checks
  <2>2. Outcomes("reached") = {} /\ step = "open" /\ statuses["ssrf"] = Untried
    BY <2>1 DEF Outcomes, Untried, Checks
  <2> QED  BY <2>2 DEF SsrfIsFounded, MissingToolIsMissing, Untried
<1> QED  BY <1>1, <1>2, <1>3, <1>4, <1>5 DEF CheckInv

(* What a check's result is once it has one. *)
LEMMA StatusIsSet ==
  ASSUME CheckTypes, NEW c \in Checks, NEW v \in Results,
         NEW n \in Before \cup Probing \cup {"over"}, Is(c, v, n)
  PROVE  /\ statuses' \in [Checks -> Results] /\ step' = n /\ statuses'[c] = v
         /\ \A d \in Checks : d # c => statuses'[d] = statuses[d]
BY DEF CheckTypes, Is

(* The steps before the first probe leave the probes and rows alone. *)
Aside == <<options, server, probes, expected, dialled, hits, matrix, wiringError, proven>>

LEMMA RowsStay ==
  ASSUME CheckInv, UNCHANGED Aside, step' # "await", step' \in Before => step \in Before
  PROVE  ProbesAreNew' /\ RowsAreFounded' /\ (expected = {} => NothingProbed)
<1>1. ProbesAreNew'
  BY DEF CheckInv, ProbesAreNew, Aside
<1>2. RowsAreFounded'
  BY DEF CheckInv, RowsAreFounded, NothingProbed, Aside
<1> QED  BY <1>1, <1>2 DEF CheckInv, RowsAreFounded

LEMMA NothingReached ==
  ASSUME NothingProbed, CheckTypes
  PROVE  Outcomes("reached") = {} /\ Outcomes("unclear") = {} /\ ~wiringError
BY DEF NothingProbed, CheckTypes, Outcomes, Untried

(* A step before the first probe that settles no check of URLs. *)
LEMMA SsrfStays ==
  ASSUME CheckInv, UNCHANGED Aside, step \in Before, step' # "await",
         statuses'["ssrf"] = statuses["ssrf"]
  PROVE  SsrfIsFounded'
<1>1. Outcomes("reached") = {}
  BY NothingReached DEF CheckInv, RowsAreFounded
<1>2. Outcomes("reached")' = {}
  BY <1>1 DEF Outcomes, Aside
<1>3. statuses["ssrf"] \notin {"fail", "inconclusive"}
  BY <1>1 DEF CheckInv, SsrfIsFounded, Before
<1> QED  BY <1>2, <1>3 DEF SsrfIsFounded, MissingToolIsMissing

LEMMA OpensStep == CheckInv /\ Opens => CheckInv'
<1> SUFFICES ASSUME CheckInv, Opens PROVE CheckInv'
  OBVIOUS
<1>1. PICK v \in {"pass", "inconclusive"}, n \in {"host", "over"} : Is("baseline", v, n)
  BY DEF Opens
<1>2. /\ statuses' \in [Checks -> Results] /\ step' = n /\ statuses'["baseline"] = v
      /\ \A d \in Checks : d # "baseline" => statuses'[d] = statuses[d]
  <2>1. v \in Results /\ n \in Before \cup Probing \cup {"over"} /\ "baseline" \in Checks
    BY DEF Results, Before, Checks
  <2> QED  BY <1>1, <2>1, StatusIsSet DEF CheckInv
<1>3. UNCHANGED <<failures, honoured, second>> /\ UNCHANGED Aside /\ step = "open"
  BY DEF Opens, Aside
<1>4. ProbesAreNew' /\ RowsAreFounded'
  BY <1>2, <1>3, RowsStay DEF Before
<1>5. SsrfIsFounded'
  BY <1>2, <1>3, SsrfStays DEF Before, Checks
<1>6. CheckTypes'
  BY <1>2, <1>3 DEF CheckInv, CheckTypes, Aside, Before
<1>7. ChecksAreFounded'
  BY <1>2, <1>3 DEF CheckInv, ChecksAreFounded, Checks, Before, Untried
<1> QED  BY <1>4, <1>5, <1>6, <1>7 DEF CheckInv

LEMMA HeaderStep ==
  ASSUME CheckInv, NEW header, NEW next, ChecksHeader(header, next),
         <<header, next>> \in {<<"host", "origin">>, <<"origin", "session">>}
  PROVE  CheckInv'
<1>1. PICK v \in {"skip", "fail", "pass", "inconclusive"} :
        /\ Is(header, v, next)
        /\ honoured' = IF v = "fail" THEN honoured \cup {header} ELSE honoured
  BY DEF ChecksHeader, HeaderVerdict
<1>2. /\ statuses' \in [Checks -> Results] /\ step' = next /\ statuses'[header] = v
      /\ \A d \in Checks : d # header => statuses'[d] = statuses[d]
  <2>1. v \in Results /\ next \in Before \cup Probing \cup {"over"} /\ header \in Checks
    BY DEF Results, Before, Checks
  <2> QED  BY <1>1, <2>1, StatusIsSet DEF CheckInv
<1>3. UNCHANGED <<failures, second>> /\ UNCHANGED Aside /\ step = header
  BY DEF ChecksHeader, Aside
<1>4. ProbesAreNew' /\ RowsAreFounded'
  BY <1>2, <1>3, RowsStay DEF Before
<1>5. SsrfIsFounded'
  BY <1>2, <1>3, SsrfStays DEF Before, Checks
<1>6. CheckTypes'
  BY <1>2, <1>3 DEF CheckInv, CheckTypes, Aside, Before
<1>7. ChecksAreFounded'
  BY <1>1, <1>2, <1>3 DEF CheckInv, ChecksAreFounded, Checks, Before, Untried
<1> QED  BY <1>4, <1>5, <1>6, <1>7 DEF CheckInv

(* check_session_binding: the result is a failure when something was       *)
(* honoured, whatever else came on the way.                                *)
SessionSteps == SkipsSession \/ TriesMadeUp \/ OpensSecond \/ ReusesEnded

LEMMA SessionMoves ==
  ASSUME CheckInv, SessionSteps
  PROVE  /\ UNCHANGED Aside /\ step \in {"session", "second", "reuse"}
         /\ \/ step' \in {"second", "reuse"} /\ statuses' = statuses
            \/ \E v \in Results : Is("session", v, "wiring")
BY DEF SessionSteps, SkipsSession, TriesMadeUp, OpensSecond, ReusesEnded, Deletes, SessionVerdict,
       Aside, Results

LEMMA SessionFounded ==
  ASSUME CheckInv, SessionSteps
  PROVE  /\ honoured' \subseteq {"host", "origin", "made up", "ended"}
         /\ honoured' \cap {"host", "origin"} = honoured \cap {"host", "origin"}
         /\ honoured' \cap {"made up", "ended"} = failures'
         /\ step' = "reuse" => second' = "ended"
         /\ step' = "wiring" /\ failures' # {} => statuses'["session"] \in {"fail", "inconclusive"}
         /\ statuses'["session"] = "fail" => failures' # {}
<1>0. statuses \in [Checks -> Results] /\ "session" \in Checks
  BY DEF CheckInv, CheckTypes, Checks
<1>1. CASE SkipsSession
  BY <1>0, <1>1 DEF SkipsSession, Is, CheckInv, ChecksAreFounded, Before
<1>2. CASE TriesMadeUp
  BY <1>0, <1>2 DEF TriesMadeUp, Is, CheckInv, ChecksAreFounded, Before
<1>3. CASE OpensSecond
  BY <1>0, <1>3 DEF OpensSecond, Deletes, SessionVerdict, Is, CheckInv, ChecksAreFounded, Before
<1>4. CASE ReusesEnded
  BY <1>0, <1>4 DEF ReusesEnded, SessionVerdict, Is, CheckInv, ChecksAreFounded, Before
<1> QED  BY <1>1, <1>2, <1>3, <1>4 DEF SessionSteps

LEMMA SessionStep == CheckInv /\ SessionSteps => CheckInv'
<1> SUFFICES ASSUME CheckInv, SessionSteps PROVE CheckInv'
  OBVIOUS
<1>1. /\ statuses' \in [Checks -> Results] /\ step' \in {"second", "reuse", "wiring"}
      /\ \A d \in Checks : d # "session" => statuses'[d] = statuses[d]
  <2>1. CASE step' \in {"second", "reuse"} /\ statuses' = statuses
    BY <2>1 DEF CheckInv, CheckTypes
  <2>2. CASE \E v \in Results : Is("session", v, "wiring")
    <3>1. PICK v \in Results : Is("session", v, "wiring")
      BY <2>2
    <3>2. "wiring" \in Before /\ "session" \in Checks
      BY DEF Before, Checks
    <3> QED  BY <3>1, <3>2, StatusIsSet DEF CheckInv
  <2> QED  BY <2>1, <2>2, SessionMoves
<1>2. UNCHANGED Aside /\ step \in {"session", "second", "reuse"}
  BY SessionMoves
<1>3. ProbesAreNew' /\ RowsAreFounded'
  BY <1>1, <1>2, RowsStay DEF Before
<1>4. SsrfIsFounded'
  BY <1>1, <1>2, SsrfStays DEF Before, Checks
<1>5. CheckTypes'
  BY <1>1, <1>2 DEF CheckInv, CheckTypes, Aside, Before
<1>6. ChecksAreFounded'
  BY <1>1, <1>2, SessionFounded, ZenonT(60) DEF CheckInv, ChecksAreFounded, Checks, Before
<1> QED  BY <1>3, <1>4, <1>5, <1>6 DEF CheckInv

(* What is after the sessions leaves their checks alone. *)
LEMMA ChecksStay ==
  ASSUME CheckInv, UNCHANGED <<honoured, failures, second>>, step' \notin Before,
         step \notin Before \ {"wiring"},
         \A c \in {"baseline", "host", "origin", "session"} : statuses'[c] = statuses[c],
         statuses'["tool-wiring"] # "fail"
  PROVE  ChecksAreFounded'
BY DEF CheckInv, ChecksAreFounded, Before

(* check_tool_url_ssrf *)
LEMMA ProbesToCome ==
  ASSUME NEW both \in BOOLEAN,
         NEW ps, ps = Spellings \o IF both THEN <<"redirect-target", "redirect">> ELSE <<>>
  PROVE  ps \in Seq(ProbeLabels) /\ \A i, j \in 1 .. Len(ps) : ps[i] = ps[j] => i = j
<1>1. Spellings \in Seq(ProbeLabels) /\ \A i \in 1 .. Len(Spellings) : Spellings[i] \in Spelled
  BY SpelledIsString DEF ProbeLabels
<1>2. CASE both
  <2>1. ps = Spellings \o <<"redirect-target", "redirect">>
    BY <1>2
  <2>2. /\ ps \in Seq(ProbeLabels) /\ Len(ps) = Len(Spellings) + 2
        /\ \A i \in 1 .. Len(Spellings) : ps[i] = Spellings[i]
        /\ ps[Len(Spellings) + 1] = "redirect-target" /\ ps[Len(Spellings) + 2] = "redirect"
    <3> DEFINE two == <<"redirect-target", "redirect">>
    <3>1. two \in Seq(ProbeLabels) /\ Len(two) = 2 /\ two[1] = "redirect-target" /\ two[2] = "redirect"
      BY DEF ProbeLabels
    <3>2. ps = Spellings \o two
      BY <2>1
    <3> HIDE DEF two
    <3>3. Spellings \in Seq(ProbeLabels) /\ two \in Seq(ProbeLabels)
      BY <1>1, <3>1
    <3>4. /\ Spellings \o two \in Seq(ProbeLabels)
          /\ Len(Spellings \o two) = Len(Spellings) + Len(two)
          /\ \A i \in 1 .. Len(Spellings) + Len(two) :
               (Spellings \o two)[i] =
                 IF i <= Len(Spellings) THEN Spellings[i] ELSE two[i - Len(Spellings)]
      BY ONLY <3>3, ConcatProperties, Zenon
    <3>5. Len(Spellings) \in Nat
      BY <1>1
    <3> QED  BY <3>1, <3>2, <3>4, <3>5
  <2>3. Len(Spellings) \in Nat /\ DOMAIN Spellings = 1 .. Len(Spellings)
    BY <1>1
  <2>4. \A i \in 1 .. Len(ps) :
          i \in 1 .. Len(Spellings) \/ i = Len(Spellings) + 1 \/ i = Len(Spellings) + 2
    BY <2>2, <2>3
  <2>5. \A i, j \in 1 .. Len(ps) : ps[i] = ps[j] => i = j
    BY <1>1, <2>2, <2>3, <2>4, CheckAssumption
  <2> QED  BY <2>2, <2>5
<1>3. CASE ~both
  BY <1>1, <1>3, CheckAssumption
<1> QED  BY <1>2, <1>3

LEMMA WiringStep == CheckInv /\ ChecksWiring => CheckInv'
<1> SUFFICES ASSUME CheckInv, ChecksWiring PROVE CheckInv'
  OBVIOUS
<1>1. /\ step = "wiring" /\ UNCHANGED <<honoured, failures, second>>
      /\ UNCHANGED <<server, expected, dialled, hits, matrix, wiringError, proven>>
  BY DEF ChecksWiring
<1>2. /\ expected = {} /\ NothingProbed /\ Outcomes("reached") = {}
      /\ statuses["ssrf"] \notin {"fail", "inconclusive"}
  <2>1. expected = {} /\ NothingProbed
    BY <1>1 DEF CheckInv, RowsAreFounded, Before
  <2> QED  BY <1>1, <2>1, NothingReached DEF CheckInv, SsrfIsFounded
<1>3. Outcomes("reached")' = {} /\ NothingProbed' /\ RowsAreFounded'
  BY <1>1, <1>2 DEF Outcomes, NothingProbed, ChecksWiring, Is, CheckInv, RowsAreFounded, Before
<1>4. CASE \E v \in {"skip", "inconclusive"} :
             /\ Is("ssrf", v, "over") /\ UNCHANGED probes
             /\ v = "inconclusive" => server.tool = 0 \/ ~server.takes
  <2>1. PICK v \in {"skip", "inconclusive"} :
             /\ Is("ssrf", v, "over") /\ UNCHANGED probes
             /\ v = "inconclusive" => server.tool = 0 \/ ~server.takes
    BY <1>4
  <2>2. /\ statuses' \in [Checks -> Results] /\ step' = "over" /\ statuses'["ssrf"] = v
        /\ \A d \in Checks : d # "ssrf" => statuses'[d] = statuses[d]
    <3>1. v \in Results /\ "ssrf" \in Checks
      BY DEF Results, Checks
    <3> QED  BY <2>1, <3>1, StatusIsSet DEF CheckInv
  <2>3. CheckTypes' /\ ProbesAreNew'
    BY <1>1, <2>1, <2>2 DEF CheckInv, CheckTypes, ProbesAreNew
  <2>4. statuses'["tool-wiring"] # "fail"
    BY <2>2 DEF CheckInv, ChecksAreFounded, Checks
  <2>5. ChecksAreFounded'
    BY <1>1, <2>2, <2>4, ChecksStay DEF Before, Checks
  <2>6. SsrfIsFounded'
    BY <1>1, <1>2, <1>3, <2>1, <2>2 DEF SsrfIsFounded, MissingToolIsMissing
  <2> QED  BY <1>3, <2>3, <2>5, <2>6 DEF CheckInv
<1>5. CASE /\ probes' = Spellings \o IF options.redirect THEN <<"redirect-target", "redirect">> ELSE <<>>
           /\ step' = "control" /\ UNCHANGED statuses
  <2>1. probes' \in Seq(ProbeLabels) /\ \A i, j \in 1 .. Len(probes') : probes'[i] = probes'[j] => i = j
    <3>1. PICK both \in BOOLEAN : probes' = Spellings \o IF both THEN <<"redirect-target", "redirect">> ELSE <<>>
      <4>1. CASE options.redirect
        BY <1>5, <4>1
      <4>2. CASE ~options.redirect
        BY <1>5, <4>2
      <4> QED  BY <4>1, <4>2
    <3> QED  BY <3>1, ProbesToCome
  <2>2. CheckTypes'
    BY <1>1, <1>5, <2>1 DEF CheckInv, CheckTypes, Probing
  <2>3. ProbesAreNew'
    <3>1. \A l : l \in Spelled \cup {"redirect"} => matrix'[l] = Untried /\ l \notin proven'
      BY <1>3 DEF NothingProbed
    <3>2. "redirect-target" \notin proven'
      BY <1>3 DEF NothingProbed
    <3> QED  BY <1>5, <2>1, <3>1, <3>2 DEF ProbesAreNew
  <2>4. ChecksAreFounded'
    BY <1>1, <1>5, ChecksStay DEF Before, CheckInv, ChecksAreFounded
  <2>5. SsrfIsFounded'
    BY <1>1, <1>2, <1>3, <1>5 DEF SsrfIsFounded, MissingToolIsMissing
  <2> QED  BY <1>3, <2>2, <2>3, <2>4, <2>5 DEF CheckInv
<1> QED  BY <1>4, <1>5 DEF ChecksWiring, NamesNoTool

LEMMA ControlStep == CheckInv /\ FetchesControl => CheckInv'
<1> SUFFICES ASSUME CheckInv, FetchesControl PROVE CheckInv'
  OBVIOUS
<1>1. /\ step = "control" /\ step' = "call" /\ UNCHANGED <<honoured, failures, second>>
      /\ UNCHANGED Aside
  BY DEF FetchesControl, Aside, Is
<1>2. /\ statuses' \in [Checks -> Results] /\ statuses'["tool-wiring"] # "fail"
      /\ \A d \in Checks : d # "tool-wiring" => statuses'[d] = statuses[d]
  <2>1. CASE UNCHANGED statuses
    BY <2>1 DEF CheckInv, CheckTypes, ChecksAreFounded
  <2>2. CASE \E v \in {"pass", "inconclusive"} : Is("tool-wiring", v, "call")
    <3>1. PICK v \in {"pass", "inconclusive"} : Is("tool-wiring", v, "call")
      BY <2>2
    <3>2. v \in Results /\ "tool-wiring" \in Checks /\ "call" \in Probing
      BY DEF Results, Checks, Probing
    <3> QED  BY <3>1, <3>2, StatusIsSet DEF CheckInv
  <2> QED  BY <2>1, <2>2 DEF FetchesControl
<1>3. ProbesAreNew' /\ RowsAreFounded'
  BY <1>1, RowsStay DEF Before
<1>4. CheckTypes'
  BY <1>1, <1>2 DEF CheckInv, CheckTypes, Aside, Probing
<1>5. ChecksAreFounded'
  BY <1>1, <1>2, ChecksStay DEF Before, Checks
<1>6. SsrfIsFounded'
  BY <1>1, <1>2 DEF CheckInv, SsrfIsFounded, MissingToolIsMissing, Aside, Checks
<1> QED  BY <1>3, <1>4, <1>5, <1>6 DEF CheckInv

(* While it probes, no check has its result changed. *)
Recorded == <<server, second, statuses, failures, honoured>>

LEMMA ProbingStays ==
  ASSUME CheckInv, UNCHANGED Recorded, step' # "over", step \in Probing, step' \in Probing
  PROVE  ChecksAreFounded' /\ SsrfIsFounded'
<1>1. ChecksAreFounded'
  BY ChecksStay DEF CheckInv, ChecksAreFounded, Recorded, Probing, Before
<1>2. SsrfIsFounded'
  BY DEF CheckInv, SsrfIsFounded, MissingToolIsMissing, Recorded, Probing
<1> QED  BY <1>1, <1>2

LEMMA CallsStep == CheckInv /\ Calls => CheckInv'
<1> SUFFICES ASSUME CheckInv, Calls PROVE CheckInv'
  OBVIOUS
<1>1. ChecksAreFounded' /\ SsrfIsFounded'
  BY ProbingStays DEF Calls, Recorded, Probing
<1>2. CheckTypes' /\ ProbesAreNew'
  BY DEF CheckInv, CheckTypes, ProbesAreNew, Calls, Probing
<1>3. RowsAreFounded'
  <2>1. expected' # {}
    BY DEF Calls
  <2> QED  BY <2>1 DEF CheckInv, RowsAreFounded, Calls, Before
<1> QED  BY <1>1, <1>2, <1>3 DEF CheckInv

(* The fetches of the tool, whenever they come. *)
LEMMA FetchStep ==
  ASSUME CheckInv, NEW label, \/ Dials(label)
                             \/ Arrives(label, 0) \/ Arrives(label, 1)
  PROVE  CheckInv'
<1>1. /\ hits' \subseteq dialled' /\ dialled \subseteq dialled'
      /\ UNCHANGED <<step, second, probes, expected, matrix, wiringError, statuses, failures,
                     honoured, proven, server>>
  <2>1. CASE Dials(label)
    BY <2>1 DEF Dials, CheckInv, RowsAreFounded
  <2>2. CASE Arrives(label, 0)
    BY <2>2 DEF Arrives, CheckInv, RowsAreFounded, Token
  <2>3. CASE Arrives(label, 1)
    BY <2>3 DEF Arrives, CheckInv, RowsAreFounded, Token, Redirected
  <2> QED  BY <2>1, <2>2, <2>3
<1>2. CheckTypes' /\ ProbesAreNew'
  BY <1>1 DEF CheckInv, CheckTypes, ProbesAreNew
<1>3. RowsAreFounded'
  BY <1>1 DEF CheckInv, RowsAreFounded, NothingProbed
<1>4. ChecksAreFounded' /\ SsrfIsFounded'
  BY <1>1 DEF CheckInv, ChecksAreFounded, SsrfIsFounded, MissingToolIsMissing, Outcomes
<1> QED  BY <1>2, <1>3, <1>4 DEF CheckInv

LEMMA ConcludesStep == CheckInv /\ Concludes => CheckInv'
<1> SUFFICES ASSUME CheckInv, Concludes PROVE CheckInv'
  OBVIOUS
<1>1. /\ step = "call" /\ UNCHANGED <<honoured, failures, second>> /\ UNCHANGED Aside
      /\ Is("ssrf", SsrfVerdict, "over")
  BY DEF Concludes, Aside
<1>2. /\ statuses' \in [Checks -> Results] /\ step' = "over" /\ statuses'["ssrf"] = SsrfVerdict
      /\ \A d \in Checks : d # "ssrf" => statuses'[d] = statuses[d]
  <2>1. SsrfVerdict \in Results /\ "ssrf" \in Checks
    BY DEF SsrfVerdict, Results, Checks
  <2> QED  BY <1>1, <2>1, StatusIsSet DEF CheckInv
<1>3. ProbesAreNew' /\ RowsAreFounded'
  BY <1>1, <1>2, RowsStay DEF Before
<1>4. CheckTypes'
  BY <1>1, <1>2 DEF CheckInv, CheckTypes, Aside
<1>5. ChecksAreFounded'
  BY <1>1, <1>2, ChecksStay DEF Before, Checks, CheckInv, ChecksAreFounded
<1>6. SsrfIsFounded'
  <2>1. Outcomes("reached")' = Outcomes("reached") /\ expected' = expected
    BY <1>1 DEF Outcomes, Aside
  <2>2. SsrfVerdict = "fail" <=> Outcomes("reached") # {}
    BY DEF SsrfVerdict
  <2>3. expected = {} => SsrfVerdict # "inconclusive"
    BY NothingReached DEF SsrfVerdict, CheckInv, RowsAreFounded
  <2> QED  BY <1>2, <2>1, <2>2, <2>3 DEF SsrfIsFounded, MissingToolIsMissing
<1> QED  BY <1>3, <1>4, <1>5, <1>6 DEF CheckInv

(* The first label is settled, whatever its row: the others are as new.    *)
LEMMA ProbesAdvance ==
  ASSUME CheckInv, step = "await", probes' = Tail(probes), step' = "call",
         \A l \in Spelled : l # Probe => matrix'[l] = matrix[l] /\ (l \in proven' => l \in proven),
         matrix'["redirect"] = matrix["redirect"],
         "redirect-target" \in proven' => "redirect-target" \in proven
  PROVE  probes' \in Seq(ProbeLabels) /\ ProbesAreNew'
<1>1. probes \in Seq(ProbeLabels) /\ probes # <<>>
  BY DEF CheckInv, CheckTypes, ProbesAreNew
<1>2. /\ Tail(probes) \in Seq(ProbeLabels) /\ Len(Tail(probes)) = Len(probes) - 1
      /\ \A i \in 1 .. Len(probes) - 1 : Tail(probes)[i] = probes[i + 1]
      /\ Len(probes) \in Nat \ {0} /\ Probe = probes[1]
  BY <1>1 DEF Probe
<1>3. \A i \in 1 .. Len(probes') :
        i + 1 \in 1 .. Len(probes) /\ probes'[i] = probes[i + 1] /\ probes'[i] # Probe
  BY <1>2 DEF CheckInv, ProbesAreNew
<1>4. \A i, j \in 1 .. Len(probes') : probes'[i] = probes'[j] => i = j
  BY <1>2, <1>3 DEF CheckInv, ProbesAreNew
<1>5. \A i \in 1 .. Len(probes') :
        /\ probes'[i] \in Spelled => matrix'[probes'[i]] = Untried /\ probes'[i] \notin proven'
        /\ probes'[i] \notin Spelled => matrix'["redirect"] = Untried /\ "redirect-target" \notin proven'
  BY <1>3 DEF CheckInv, ProbesAreNew
<1> QED  BY <1>2, <1>4, <1>5 DEF ProbesAreNew

LEMMA ProbeIsNew ==
  ASSUME CheckInv, step = "await"
  PROVE  /\ Probe \in ProbeLabels
         /\ Probe \in Spelled => matrix[Probe] = Untried /\ Probe \notin proven
         /\ Probe \notin Spelled => matrix["redirect"] = Untried /\ "redirect-target" \notin proven
<1>1. probes \in Seq(ProbeLabels) /\ probes # <<>>
  BY DEF CheckInv, CheckTypes, ProbesAreNew
<1>2. 1 \in 1 .. Len(probes) /\ Probe = probes[1] /\ Probe \in ProbeLabels
  BY <1>1 DEF Probe
<1> QED  BY <1>2 DEF CheckInv, ProbesAreNew

LEMMA RowIsSet ==
  ASSUME CheckTypes, NEW l \in Spelled \cup {"redirect"}, NEW v \in Rows, IsOutcome(l, v)
  PROVE  /\ matrix' \in [Spelled \cup {"redirect"} -> Rows] /\ matrix'[l] = v
         /\ \A k \in Spelled \cup {"redirect"} : k # l => matrix'[k] = matrix[k]
BY DEF CheckTypes, IsOutcome

LEMMA RedirectIsNotSpelled == "redirect" \notin Spelled /\ "redirect-target" \notin Spelled
BY CheckAssumption

(* What every end of a probe has in common. *)
LEMMA ProbeEnds ==
  ASSUME CheckInv, step = "await", step' = "call", UNCHANGED Recorded,
         UNCHANGED <<expected, dialled, hits>>,
         probes' \in Seq(ProbeLabels), ProbesAreNew',
         matrix' \in [Spelled \cup {"redirect"} -> Rows],
         \A l \in Spelled : l \in proven' => matrix'[l] = "reached",
         \A l \in Spelled : matrix'[l] = "reached" => <<l, 0>> \in dialled,
         matrix'["redirect"] = "reached" => <<"redirect", 1>> \in dialled /\ "redirect-target" \notin proven'
  PROVE  CheckInv'
<1>1. ChecksAreFounded' /\ SsrfIsFounded'
  BY ProbingStays DEF Probing
<1>2. CheckTypes'
  BY DEF CheckInv, CheckTypes, Probing, Recorded
<1>3. RowsAreFounded'
  BY DEF CheckInv, RowsAreFounded, Before
<1> QED  BY <1>1, <1>2, <1>3 DEF CheckInv

LEMMA SettlesStep == CheckInv /\ Settles => CheckInv'
<1> SUFFICES ASSUME CheckInv, Settles PROVE CheckInv'
  OBVIOUS
<1>1. PICK answer \in ToolAnswers : IsOutcome(Probe, Classify(answer, Token(Probe) \in hits))
  BY DEF Settles
<1> DEFINE outcome == Classify(answer, Token(Probe) \in hits)
<1>2. /\ outcome \in Rows /\ (outcome = "reached" <=> <<Probe, 0>> \in hits)
      /\ Probe \in Spelled /\ step = "await" /\ step' = "call" /\ probes' = Tail(probes)
      /\ UNCHANGED Recorded /\ UNCHANGED <<expected, dialled, hits>>
      /\ proven' = IF <<Probe, 0>> \in hits THEN proven \cup {Probe} ELSE proven
  BY DEF Settles, Classify, Rows, Token, Recorded, Notes
<1> HIDE DEF outcome
<1>3. /\ matrix' \in [Spelled \cup {"redirect"} -> Rows] /\ matrix'[Probe] = outcome
      /\ \A k \in Spelled \cup {"redirect"} : k # Probe => matrix'[k] = matrix[k]
  BY <1>1, <1>2, RowIsSet DEF CheckInv, outcome
<1>4. probes' \in Seq(ProbeLabels) /\ ProbesAreNew'
  BY <1>2, <1>3, ProbesAdvance, RedirectIsNotSpelled
<1>5. \A l \in Spelled : /\ l \in proven' => matrix'[l] = "reached"
                         /\ matrix'[l] = "reached" => <<l, 0>> \in dialled
  BY <1>2, <1>3, ProbeIsNew DEF CheckInv, RowsAreFounded
<1>6. matrix'["redirect"] = "reached" => <<"redirect", 1>> \in dialled /\ "redirect-target" \notin proven'
  BY <1>2, <1>3, RedirectIsNotSpelled DEF CheckInv, RowsAreFounded
<1> QED  BY <1>2, <1>3, <1>4, <1>5, <1>6, ProbeEnds

LEMMA LosesStep == CheckInv /\ LosesCall => CheckInv'
<1> SUFFICES ASSUME CheckInv, LosesCall PROVE CheckInv'
  OBVIOUS
<1>1. /\ step = "await" /\ step' = "call" /\ UNCHANGED Recorded
      /\ UNCHANGED <<expected, dialled, hits, proven>>
  BY DEF LosesCall, RedirectIs, Recorded
<1>2. PICK l \in Spelled \cup {"redirect"} :
        /\ IsOutcome(l, "transport-error")
        /\ IF l = "redirect" THEN probes' = <<>> ELSE probes' = Tail(probes) /\ l = Probe
  BY ProbeIsNew, RedirectIsNotSpelled DEF LosesCall, RedirectIs, ProbeLabels
<1>3. /\ matrix' \in [Spelled \cup {"redirect"} -> Rows] /\ matrix'[l] = "transport-error"
      /\ \A k \in Spelled \cup {"redirect"} : k # l => matrix'[k] = matrix[k]
  BY <1>2, RowIsSet DEF CheckInv, Rows
<1>4. probes' \in Seq(ProbeLabels) /\ ProbesAreNew'
  <2>1. CASE l = "redirect"
    BY <1>1, <1>2, <2>1 DEF ProbesAreNew
  <2>2. CASE l # "redirect"
    BY <1>1, <1>2, <1>3, <2>2, ProbesAdvance
  <2> QED  BY <2>1, <2>2
<1>5. \A k \in Spelled : /\ k \in proven' => matrix'[k] = "reached"
                         /\ matrix'[k] = "reached" => <<k, 0>> \in dialled
  BY <1>1, <1>2, <1>3, ProbeIsNew, RedirectIsNotSpelled DEF CheckInv, RowsAreFounded
<1>6. matrix'["redirect"] = "reached" => <<"redirect", 1>> \in dialled /\ "redirect-target" \notin proven'
  BY <1>1, <1>3 DEF CheckInv, RowsAreFounded
<1> QED  BY <1>1, <1>3, <1>4, <1>5, <1>6, ProbeEnds

LEMMA RedirectStep == CheckInv /\ ProbesRedirect => CheckInv'
<1> SUFFICES ASSUME CheckInv, ProbesRedirect PROVE CheckInv'
  OBVIOUS
<1>1. /\ step = "await" /\ step' = "call" /\ UNCHANGED Recorded
      /\ UNCHANGED <<expected, dialled, hits>> /\ Probe \in {"redirect-target", "redirect"}
      /\ proven' = IF <<Probe, 0>> \in hits THEN proven \cup {Probe} ELSE proven
      /\ "redirect-target" \notin proven /\ matrix["redirect"] = Untried
  BY ProbeIsNew DEF ProbesRedirect, AsksForTarget, FollowsRedirect, RedirectIs, Recorded, Notes,
                    Token, ProbeLabels
<1>2. CASE \E v \in Rows : /\ RedirectIs(v)
                           /\ v = "reached" => Probe = "redirect" /\ <<"redirect", 1>> \in hits
  <2>1. PICK v \in Rows : /\ RedirectIs(v)
                          /\ v = "reached" => Probe = "redirect" /\ <<"redirect", 1>> \in hits
    BY <1>2
  <2>2. /\ matrix' \in [Spelled \cup {"redirect"} -> Rows] /\ matrix'["redirect"] = v
        /\ \A k \in Spelled : matrix'[k] = matrix[k]
    BY <2>1, RowIsSet, RedirectIsNotSpelled DEF CheckInv, RedirectIs
  <2>3. probes' \in Seq(ProbeLabels) /\ ProbesAreNew'
    BY <1>1, <2>1 DEF RedirectIs, ProbesAreNew
  <2>4. \A k \in Spelled : /\ k \in proven' => matrix'[k] = "reached"
                           /\ matrix'[k] = "reached" => <<k, 0>> \in dialled
    BY <1>1, <2>2, RedirectIsNotSpelled DEF CheckInv, RowsAreFounded
  <2>5. matrix'["redirect"] = "reached" => <<"redirect", 1>> \in dialled /\ "redirect-target" \notin proven'
    BY <1>1, <2>1, <2>2 DEF CheckInv, RowsAreFounded
  <2> QED  BY <1>1, <2>2, <2>3, <2>4, <2>5, ProbeEnds
<1>3. CASE Probe = "redirect-target" /\ probes' = Tail(probes) /\ UNCHANGED matrix /\ <<Probe, 0>> \notin hits
  <2>1. probes' \in Seq(ProbeLabels) /\ ProbesAreNew'
    BY <1>1, <1>3, ProbesAdvance
  <2> QED  BY <1>1, <1>3, <2>1, ProbeEnds DEF CheckInv, CheckTypes, RowsAreFounded
<1>4. CASE Probe = "redirect-target"
  BY <1>2, <1>3, <1>4 DEF ProbesRedirect, AsksForTarget, Token, Rows
<1>5. CASE Probe = "redirect"
  BY <1>2, <1>5 DEF ProbesRedirect, FollowsRedirect, Token, Redirected, Rows
<1> QED  BY <1>1, <1>4, <1>5

(* The run's result is what the server did, whenever its tool's fetches    *)
(* come in (ServerVerdictIsSound), for every list of spellings, every      *)
(* invocation and every server (checks.py, listener.py, report.py:63).     *)
THEOREM ServerVerdictHolds == MSpec => []ServerVerdictIsSound
<1>1. MInit => CheckInv
  BY CheckInit
<1>2. CheckInv /\ [MNext]_mvars => CheckInv'
  <2> SUFFICES ASSUME CheckInv, [MNext]_mvars PROVE CheckInv'
    OBVIOUS
  <2>1. CASE UNCHANGED mvars
    <3>1. CheckTypes' /\ ProbesAreNew'
      BY <2>1 DEF mvars, CheckInv, CheckTypes, ProbesAreNew
    <3>2. RowsAreFounded' /\ ChecksAreFounded'
      BY <2>1 DEF mvars, CheckInv, RowsAreFounded, NothingProbed, ChecksAreFounded
    <3>3. SsrfIsFounded'
      BY <2>1 DEF mvars, CheckInv, SsrfIsFounded, Outcomes, MissingToolIsMissing
    <3> QED  BY <3>1, <3>2, <3>3 DEF CheckInv
  <2>2. CASE SessionSteps
    BY <2>2, SessionStep
  <2>3. CASE Opens \/ ChecksHeader("host", "origin") \/ ChecksHeader("origin", "session")
    BY <2>3, OpensStep, HeaderStep
  <2>4. CASE ChecksWiring \/ FetchesControl \/ Concludes
    BY <2>4, WiringStep, ControlStep, ConcludesStep
  <2>5. CASE Calls \/ Settles \/ LosesCall \/ ProbesRedirect
    BY <2>5, CallsStep, SettlesStep, LosesStep, RedirectStep
  <2>6. CASE \E label \in Spelled \cup {"redirect-target", "redirect"} :
               Dials(label) \/ \E n \in {0, 1} : Arrives(label, n)
    BY <2>6, FetchStep
  <2> QED  BY <2>1, <2>2, <2>3, <2>4, <2>5, <2>6 DEF MNext, SessionSteps
<1>3. CheckInv => ServerVerdictIsSound
  <2> SUFFICES ASSUME CheckInv PROVE ServerVerdictIsSound
    OBVIOUS
  <2>1. CleanExitIsEarned
    <3> SUFFICES ASSUME step = "over", ExitCode = 0
                 PROVE  honoured = {} /\ proven \cap Spelled = {}
      BY DEF CleanExitIsEarned
    <3>1. \A c \in Checks : statuses[c] \notin {"fail", "inconclusive"}
      BY ExitIsZero
    <3>2. honoured = {}
      BY <3>1 DEF CheckInv, ChecksAreFounded, Checks, Before
    <3>3. Outcomes("reached") = {}
      BY <3>1 DEF CheckInv, SsrfIsFounded, Checks
    <3>4. proven \cap Spelled = {}
      BY <3>3 DEF Outcomes, CheckInv, RowsAreFounded, CheckTypes
    <3> QED  BY <3>2, <3>4
  <2>2. FailureIsFounded
    <3>1. ASSUME step = "over", ExitCode = 1 PROVE honoured # {} \/ Outcomes("reached") # {}
      <4>1. PICK c \in Checks : statuses[c] = "fail"
        BY <3>1, ExitIsOne
      <4> QED  BY <4>1 DEF CheckInv, ChecksAreFounded, SsrfIsFounded, Checks
    <3> QED  BY <3>1 DEF FailureIsFounded, CheckInv, RowsAreFounded
  <2> QED  BY <2>1, <2>2 DEF ServerVerdictIsSound, CheckInv, SsrfIsFounded
<1> QED  BY <1>1, <1>2, <1>3, PTL DEF MSpec

-----------------------------------------------------------------------------
(***************************************************************************)
(* The results wall (ResultsWall).  A job waits until no pull request is   *)
(* open, so there is never more than one, and main stays what it was taken *)
(* from until it merges or is closed: what it brings is what the row was   *)
(* checked against.                                                        *)
(***************************************************************************)
WallRows == {Row(i, r) : i \in Issues, r \in Runs}
Pulls == [issue : Issues, before : SUBSET WallRows, after : SUBSET WallRows, auto : BOOLEAN]
Ahead == {"checking", "appended", "pushed"}
Written == {"appended", "pushed", "opened", "published"}
JobStates == {"idle", "reading", "linked", "read", "found", "collected", "waiting", "checking",
              "appended", "pushed", "opened", "published"}

OfAccount(rows, by) == {r \in rows : r.by = by}

(* What RowsAreTheirs says of main, of any rows. *)
Proper(rows) ==
  /\ IsFiniteSet(rows)
  /\ \A r, s \in rows : r # s => r.issue # s.issue /\ r.run # s.run
  /\ \A i \in Issues : Cardinality(OfAccount(rows, Author[i])) <= MaxRows

(* No account loses a row to another's. *)
Carries(before, after) ==
  \A r \in before : r \in after \/ \E s \in after : s.by = r.by

Lands(r) ==
  \/ r \in main \cup closed
  \/ \E s \in main : s.by = r.by
  \/ \E p \in pulls : r \in p.after /\ p.auto /\ p.before = main

WallTypes ==
  /\ pending \in WallRows \cup {Nothing}
  /\ job \in [at : JobStates, row : WallRows \cup {Nothing}, tree : SUBSET WallRows,
              base : SUBSET WallRows]
  /\ job.at # "idle" => job.row \in WallRows
  /\ main \in SUBSET WallRows
  /\ pulls \in SUBSET Pulls

RowsAreProper ==
  /\ Proper(main)
  /\ \A p \in pulls : Proper(p.after)
  /\ job.at \in Ahead \cup Written => Proper(job.tree)

OneAtATime ==
  /\ \A p, q \in pulls : p = q
  /\ \A p \in pulls : p.before = main /\ Carries(p.before, p.after)
  /\ job.at \in Ahead => pulls = {}
  /\ job.at = "opened" => pulls \subseteq {Pull(FALSE)}
  /\ job.at \in Ahead \cup {"opened"} => job.base = main
  /\ job.at = "checking" => job.tree = main
  /\ job.at \in Written => job.row \in job.tree /\ Carries(job.base, job.tree)

ToldLand == /\ \A r \in told : Lands(r)
            /\ job.at = "published" => Lands(job.row)

WallInv == WallTypes /\ RowsAreProper /\ OneAtATime /\ ToldLand

LEMMA RowFields ==
  ASSUME NEW r \in WallRows
  PROVE  r.issue \in Issues /\ r.run \in Runs /\ r.by = Author[r.issue]
BY DEF WallRows, Row

(* _same_row is of one account. *)
LEMMA ReplacedByItsOwn ==
  ASSUME NEW r \in WallRows, NEW row \in WallRows, SameRow(r, row)
  PROVE  r.by = row.by
BY RowFields DEF SameRow

LEMMA AddsOne ==
  ASSUME NEW S, IsFiniteSet(S), NEW x
  PROVE  /\ IsFiniteSet(S \cup {x}) /\ Cardinality(S \cup {x}) <= Cardinality(S) + 1
         /\ Cardinality(S) \in Nat /\ Cardinality(S \cup {x}) \in Nat
<1>1. IsFiniteSet(S \cup {x}) /\ (x \notin S => Cardinality(S \cup {x}) = Cardinality(S) + 1)
  BY FS_AddElement
<1>2. x \in S => S \cup {x} = S
  OBVIOUS
<1>3. Cardinality(S) \in Nat /\ Cardinality(S \cup {x}) \in Nat
  BY <1>1, FS_CardinalityType
<1> QED  BY <1>1, <1>2, <1>3

LEMMA EmptyIsProper == Proper({})
<1>1. \A i \in Issues : OfAccount({}, Author[i]) = {}
  BY DEF OfAccount
<1> QED  BY <1>1, FS_EmptySet, WallAssumption DEF Proper

(* A row that is not refused leaves one row for each issue and run, and no *)
(* account over the cap: it takes the place of one of its own, or there is *)
(* room for it.                                                            *)
LEMMA AppendIsProper ==
  ASSUME NEW rows \in SUBSET WallRows, NEW row \in WallRows, Proper(rows), ~Refused(row, rows)
  PROVE  /\ Proper((rows \ Replacing(row, rows)) \cup {row})
         /\ Carries(rows, (rows \ Replacing(row, rows)) \cup {row})
<1> DEFINE new == (rows \ Replacing(row, rows)) \cup {row}
<1>1. IsFiniteSet(rows) /\ IsFiniteSet(new)
  <2>1. IsFiniteSet(rows)
    BY DEF Proper
  <2>2. IsFiniteSet(rows \ Replacing(row, rows))
    BY <2>1, FS_Subset
  <2> QED  BY <2>1, <2>2, FS_AddElement
<1>2. \A r \in new \ {row} : r.issue # row.issue /\ r.run # row.run
  BY DEF Replacing, SameRow, Refused, ClaimedByOther
<1>3. \A r, s \in new : r # s => r.issue # s.issue /\ r.run # s.run
  BY <1>2 DEF Proper
<1>4. ASSUME NEW i \in Issues PROVE Cardinality(OfAccount(new, Author[i])) <= MaxRows
  <2> DEFINE had == OfAccount(rows, Author[i])
             has == OfAccount(new, Author[i])
  <2>1. /\ IsFiniteSet(had) /\ IsFiniteSet(has)
        /\ Cardinality(had) \in Nat /\ Cardinality(has) \in Nat /\ Cardinality(had) <= MaxRows
    <3>1. had \subseteq rows /\ has \subseteq new
      BY DEF OfAccount
    <3>2. IsFiniteSet(had) /\ IsFiniteSet(has)
      BY <1>1, <3>1, FS_Subset
    <3> QED  BY <3>2, FS_CardinalityType DEF Proper
  <2>2. CASE row.by # Author[i]
    <3>1. has \subseteq had
      BY <2>2 DEF OfAccount
    <3>2. Cardinality(has) <= Cardinality(had)
      BY <2>1, <3>1, FS_Subset
    <3> QED  BY <2>1, <3>2, WallAssumption
  <2>3. CASE row.by = Author[i] /\ Replacing(row, rows) = {}
    <3>1. ~(Cardinality(had) >= MaxRows)
      BY <2>3 DEF Refused, OfAccount
    <3>2. has = had \cup {row}
      BY <2>3 DEF OfAccount
    <3>3. Cardinality(has) <= Cardinality(had) + 1
      BY <2>1, <3>2, AddsOne
    <3> QED  BY <2>1, <3>1, <3>3, WallAssumption
  <2>4. CASE row.by = Author[i] /\ Replacing(row, rows) # {}
    <3>1. PICK q \in Replacing(row, rows) : TRUE
      BY <2>4
    <3>2. q \in had /\ q \notin (rows \ Replacing(row, rows))
      BY <2>4, <3>1, ReplacedByItsOwn DEF Replacing, OfAccount
    <3>3. has \subseteq (had \ {q}) \cup {row}
      BY <3>2 DEF OfAccount
    <3>4. IsFiniteSet(had \ {q}) /\ Cardinality(had \ {q}) = Cardinality(had) - 1
      BY <2>1, <3>2, FS_RemoveElement
    <3>5. /\ IsFiniteSet((had \ {q}) \cup {row})
          /\ Cardinality((had \ {q}) \cup {row}) <= Cardinality(had \ {q}) + 1
      BY <3>4, AddsOne
    <3>6. /\ Cardinality(has) <= Cardinality((had \ {q}) \cup {row})
          /\ Cardinality((had \ {q}) \cup {row}) \in Nat
      BY <3>3, <3>5, FS_Subset, FS_CardinalityType
    <3> QED  BY <2>1, <3>4, <3>5, <3>6, WallAssumption
  <2> QED  BY <2>2, <2>3, <2>4
<1>5. Carries(rows, new)
  BY ReplacedByItsOwn DEF Carries, Replacing
<1> QED  BY <1>1, <1>3, <1>4, <1>5 DEF Proper

LEMMA WallInit == WInit => WallInv
<1> SUFFICES ASSUME WInit PROVE WallInv
  OBVIOUS
<1> USE DEF WInit, Idle
<1>1. WallTypes
  BY DEF WallTypes, JobStates
<1>2. RowsAreProper
  BY EmptyIsProper DEF RowsAreProper, Ahead, Written
<1>3. OneAtATime /\ ToldLand
  BY DEF OneAtATime, ToldLand, Ahead, Written
<1> QED  BY <1>1, <1>2, <1>3 DEF WallInv

(* The steps of the job that write no row, branch or pull request. *)
Shared == <<main, pulls, told, closed>>
Reads ==
  \/ ReadsFields \/ ReadsRun \/ CollectsReports \/ NoRow \/ MakesRow
  \/ JobDies \/ WaitsTooLong \/ IsRefused \/ ArchiveFails \/ BuildFails

LEMMA JobMoves ==
  ASSUME WallTypes, NEW at \in JobStates, JobIsAt(at)
  PROVE  /\ job' \in [at : JobStates, row : WallRows \cup {Nothing}, tree : SUBSET WallRows,
                      base : SUBSET WallRows]
         /\ job'.at = at /\ job'.row = job.row /\ job'.tree = job.tree /\ job'.base = job.base
BY DEF WallTypes, JobIsAt

LEMMA IdleFields ==
  /\ Idle \in [at : JobStates, row : WallRows \cup {Nothing}, tree : SUBSET WallRows,
               base : SUBSET WallRows]
  /\ Idle.at = "idle" /\ Idle.row = Nothing /\ Idle.tree = {} /\ Idle.base = {}
BY DEF Idle, JobStates

(* A job that is ahead of its row, or over, holds nothing to account for.  *)
LEMMA JobIsBare ==
  ASSUME WallInv, UNCHANGED Shared, pending' \in WallRows \cup {Nothing},
         job' \in [at : JobStates, row : WallRows \cup {Nothing}, tree : SUBSET WallRows,
                  base : SUBSET WallRows],
         job'.at # "idle" => job'.row \in WallRows,
         job'.at \notin Ahead \cup Written
  PROVE  WallInv'
<1>1. WallTypes'
  BY DEF WallInv, WallTypes, Shared
<1>2. RowsAreProper'
  BY DEF WallInv, RowsAreProper, Shared
<1>3. OneAtATime'
  BY DEF WallInv, OneAtATime, Shared, Ahead, Written
<1>4. ToldLand'
  BY DEF WallInv, ToldLand, Lands, Shared, Written
<1> QED  BY <1>1, <1>2, <1>3, <1>4 DEF WallInv

LEMMA ReadsStep == WallInv /\ Reads => WallInv'
<1> SUFFICES ASSUME WallInv, Reads PROVE WallInv'
  OBVIOUS
<1>1. UNCHANGED Shared /\ UNCHANGED pending
  BY DEF Reads, ReadsFields, ReadsRun, CollectsReports, NoRow, MakesRow, JobDies, WaitsTooLong,
         IsRefused, ArchiveFails, BuildFails, WRest, Shared
<1>2. \/ job' = Idle
      \/ /\ job.at \in {"reading", "linked", "found", "collected"}
         /\ \E at \in {"linked", "read", "found", "collected", "waiting"} : JobIsAt(at)
  BY DEF Reads, ReadsFields, ReadsRun, CollectsReports, NoRow, MakesRow, JobDies, WaitsTooLong,
         IsRefused, ArchiveFails, BuildFails, JobEnds, JobIsAt
<1>3. CASE job' = Idle
  BY <1>1, <1>3, IdleFields, JobIsBare DEF WallInv, WallTypes, Ahead, Written
<1>4. CASE /\ job.at \in {"reading", "linked", "found", "collected"}
           /\ \E at \in {"linked", "read", "found", "collected", "waiting"} : JobIsAt(at)
  <2>1. PICK at \in {"linked", "read", "found", "collected", "waiting"} : JobIsAt(at)
    BY <1>4
  <2>2. /\ job' \in [at : JobStates, row : WallRows \cup {Nothing}, tree : SUBSET WallRows,
                     base : SUBSET WallRows]
        /\ job'.at = at /\ job'.row = job.row
    BY <2>1, JobMoves DEF JobStates, WallInv
  <2>3. job.row \in WallRows /\ at \notin Ahead \cup Written
    BY <1>4 DEF WallInv, WallTypes, Ahead, Written
  <2> QED  BY <1>1, <2>2, <2>3, JobIsBare DEF WallInv, WallTypes
<1> QED  BY <1>2, <1>3, <1>4

LEMMA StartsStep == WallInv /\ JobStarts => WallInv'
<1> SUFFICES ASSUME WallInv, JobStarts PROVE WallInv'
  OBVIOUS
<1>1. UNCHANGED Shared /\ pending' = Nothing /\ pending \in WallRows
  BY DEF JobStarts, Shared, WallInv, WallTypes
<1>2. /\ job' \in [at : JobStates, row : WallRows \cup {Nothing}, tree : SUBSET WallRows,
                   base : SUBSET WallRows]
      /\ job'.at = "reading" /\ job'.row = pending
  BY <1>1 DEF JobStarts, Idle, JobStates
<1> QED  BY <1>1, <1>2, JobIsBare DEF Ahead, Written

LEMMA PostsStep ==
  ASSUME WallInv, NEW i \in Issues, NEW r \in Runs, PostsIssue(i, r)
  PROVE  WallInv'
<1>1. /\ pending' \in WallRows /\ UNCHANGED Shared /\ UNCHANGED job
  BY DEF PostsIssue, WallRows, Shared
<1>2. WallTypes' /\ RowsAreProper'
  BY <1>1 DEF WallInv, WallTypes, RowsAreProper, Shared
<1>3. OneAtATime' /\ ToldLand'
  BY <1>1 DEF WallInv, OneAtATime, ToldLand, Lands, Shared, Pull
<1> QED  BY <1>2, <1>3 DEF WallInv

LEMMA CatchesUpStep == WallInv /\ CatchesUp => WallInv'
<1> SUFFICES ASSUME WallInv, CatchesUp PROVE WallInv'
  OBVIOUS
<1>1. /\ job' \in [at : JobStates, row : WallRows \cup {Nothing}, tree : SUBSET WallRows,
                   base : SUBSET WallRows]
      /\ job'.at = "checking" /\ job'.row = job.row /\ job'.tree = main /\ job'.base = main
      /\ job.row \in WallRows /\ pulls = {} /\ UNCHANGED Shared /\ UNCHANGED pending
  BY DEF CatchesUp, RowsLanded, WRest, Shared, WallInv, WallTypes, JobStates
<1>2. WallTypes' /\ RowsAreProper'
  BY <1>1 DEF WallInv, WallTypes, RowsAreProper, Shared
<1>3. OneAtATime' /\ ToldLand'
  BY <1>1 DEF WallInv, OneAtATime, ToldLand, Lands, Shared, Ahead, Written
<1> QED  BY <1>2, <1>3 DEF WallInv

LEMMA AppendStep == WallInv /\ AppendRow => WallInv'
<1> SUFFICES ASSUME WallInv, AppendRow PROVE WallInv'
  OBVIOUS
<1> DEFINE new == (job.tree \ Replacing(job.row, job.tree)) \cup {job.row}
<1>1. /\ job.row \in WallRows /\ job.tree \in SUBSET WallRows /\ job.tree = main /\ job.base = main
      /\ ~Refused(job.row, job.tree) /\ Proper(job.tree) /\ job.at = "checking" /\ pulls = {}
  BY DEF AppendRow, WallInv, WallTypes, OneAtATime, RowsAreProper, Ahead
<1>2. Proper(new) /\ Carries(job.tree, new) /\ job.row \in new
  BY <1>1, AppendIsProper
<1>3. new \in SUBSET WallRows
  BY <1>1
<1>4. job' = [job EXCEPT !.at = "appended", !.tree = new] /\ UNCHANGED Shared /\ UNCHANGED pending
  BY DEF AppendRow, WRest, Shared
<1> HIDE DEF new
<1>5. /\ job' \in [at : JobStates, row : WallRows \cup {Nothing}, tree : SUBSET WallRows,
                   base : SUBSET WallRows]
      /\ job'.at = "appended" /\ job'.row = job.row /\ job'.tree = new /\ job'.base = job.base
  BY <1>3, <1>4 DEF WallInv, WallTypes, JobStates
<1>6. UNCHANGED Shared /\ UNCHANGED pending
  BY <1>4
<1>7. WallTypes' /\ RowsAreProper'
  BY <1>1, <1>2, <1>5, <1>6 DEF WallInv, WallTypes, RowsAreProper, Shared
<1>8. OneAtATime' /\ ToldLand'
  BY <1>1, <1>2, <1>5, <1>6 DEF WallInv, OneAtATime, ToldLand, Lands, Shared, Ahead, Written
<1> QED  BY <1>7, <1>8 DEF WallInv

LEMMA PushesStep == WallInv /\ Pushes => WallInv'
<1> SUFFICES ASSUME WallInv, Pushes PROVE WallInv'
  OBVIOUS
<1>1. UNCHANGED Shared /\ UNCHANGED pending /\ job.at = "appended"
  BY DEF Pushes, Shared
<1>2. CASE job' = Idle
  BY <1>1, <1>2, IdleFields, JobIsBare DEF WallInv, WallTypes, Ahead, Written
<1>3. CASE JobIsAt("pushed")
  <2>1. /\ job' \in [at : JobStates, row : WallRows \cup {Nothing}, tree : SUBSET WallRows,
                     base : SUBSET WallRows]
        /\ job'.at = "pushed" /\ job'.row = job.row /\ job'.tree = job.tree /\ job'.base = job.base
    BY <1>3, JobMoves DEF JobStates, WallInv
  <2>2. WallTypes' /\ RowsAreProper'
    BY <1>1, <2>1 DEF WallInv, WallTypes, RowsAreProper, Shared, Ahead, Written
  <2>3. OneAtATime' /\ ToldLand'
    BY <1>1, <2>1 DEF WallInv, OneAtATime, ToldLand, Lands, Shared, Ahead, Written
  <2> QED  BY <2>2, <2>3 DEF WallInv
<1> QED  BY <1>2, <1>3 DEF Pushes, JobEnds

(* Of the pull request the job opens. *)
LEMMA PullFields ==
  ASSUME WallInv, job.at \in {"pushed", "opened"}, NEW auto \in BOOLEAN
  PROVE  /\ Pull(auto) \in Pulls /\ Pull(auto).before = main /\ Pull(auto).auto = auto
         /\ Pull(auto).after = job.tree /\ Proper(job.tree) /\ Carries(main, job.tree)
         /\ job.row \in job.tree
<1>1. /\ job.row \in WallRows /\ job.tree \in SUBSET WallRows /\ job.base \in SUBSET WallRows
      /\ job.base = main /\ Proper(job.tree) /\ Carries(main, job.tree) /\ job.row \in job.tree
  BY DEF WallInv, WallTypes, OneAtATime, RowsAreProper, Ahead, Written
<1>2. job.row.issue \in Issues
  BY <1>1, RowFields
<1> QED  BY <1>1, <1>2 DEF Pull, Pulls

LEMMA OpensPullStep == WallInv /\ OpensPull => WallInv'
<1> SUFFICES ASSUME WallInv, OpensPull PROVE WallInv'
  OBVIOUS
<1>1. /\ job' \in [at : JobStates, row : WallRows \cup {Nothing}, tree : SUBSET WallRows,
                   base : SUBSET WallRows]
      /\ job'.at = "opened" /\ job'.row = job.row /\ job'.tree = job.tree /\ job'.base = job.base
  BY JobMoves DEF OpensPull, JobStates, WallInv
<1>2. /\ job.at = "pushed" /\ pulls = {} /\ pulls' = {Pull(FALSE)} /\ job.row \in WallRows
      /\ UNCHANGED <<pending, main, told, closed>>
  BY DEF OpensPull, WallInv, OneAtATime, Ahead, WallTypes
<1>3. /\ Pull(FALSE) \in Pulls /\ Pull(FALSE).before = main /\ Pull(FALSE).auto = FALSE
      /\ Pull(FALSE).after = job.tree /\ Proper(job.tree) /\ Carries(main, job.tree)
  BY <1>2, PullFields
<1>4. Pull(FALSE)' = Pull(FALSE)
  BY <1>1 DEF Pull
<1>5. WallTypes' /\ RowsAreProper'
  BY <1>1, <1>2, <1>3 DEF WallInv, WallTypes, RowsAreProper
<1>6. OneAtATime'
  BY <1>1, <1>2, <1>3, <1>4 DEF WallInv, OneAtATime, Ahead, Written
<1>7. ToldLand'
  BY <1>1, <1>2 DEF WallInv, ToldLand, Lands
<1> QED  BY <1>5, <1>6, <1>7 DEF WallInv

LEMMA MergesStep == WallInv /\ MergesItself => WallInv'
<1> SUFFICES ASSUME WallInv, MergesItself PROVE WallInv'
  OBVIOUS
<1>1. /\ job' \in [at : JobStates, row : WallRows \cup {Nothing}, tree : SUBSET WallRows,
                   base : SUBSET WallRows]
      /\ job'.at = "published" /\ job'.row = job.row /\ job'.tree = job.tree /\ job'.base = job.base
  BY JobMoves DEF MergesItself, JobStates, WallInv
<1>2. /\ job.at = "opened" /\ pulls' = {Pull(TRUE)} /\ pulls \subseteq {Pull(FALSE)}
      /\ job.row \in WallRows /\ UNCHANGED <<pending, main, told, closed>>
  BY DEF MergesItself, WallInv, OneAtATime, Ahead, WallTypes
<1>3. /\ Pull(TRUE) \in Pulls /\ Pull(TRUE).before = main /\ Pull(TRUE).auto = TRUE
      /\ Pull(TRUE).after = job.tree /\ Proper(job.tree) /\ Carries(main, job.tree)
      /\ job.row \in job.tree /\ Pull(FALSE).auto = FALSE
  BY <1>2, PullFields
<1>4. WallTypes' /\ RowsAreProper'
  BY <1>1, <1>2, <1>3 DEF WallInv, WallTypes, RowsAreProper
<1>5. OneAtATime'
  BY <1>1, <1>2, <1>3 DEF WallInv, OneAtATime, Ahead, Written
<1>6. ToldLand'
  <2>1. \A r \in told : r \in main \cup closed \/ \E s \in main : s.by = r.by
    BY <1>2, <1>3 DEF WallInv, ToldLand, Lands
  <2>2. \A r \in told' : Lands(r)'
    BY <1>2, <2>1 DEF Lands
  <2>3. Lands(job.row)'
    BY <1>1, <1>2, <1>3 DEF Lands
  <2> QED  BY <2>2, <2>3 DEF ToldLand
<1> QED  BY <1>4, <1>5, <1>6 DEF WallInv

LEMMA FailsStep == WallInv /\ PublishFails => WallInv'
<1> SUFFICES ASSUME WallInv, PublishFails PROVE WallInv'
  OBVIOUS
<1>1. /\ job.at \in {"pushed", "opened"} /\ job' = Idle /\ pulls' \subseteq pulls
      /\ pulls \subseteq {Pull(FALSE)} /\ UNCHANGED <<pending, main, told, closed>>
  BY DEF PublishFails, JobEnds, WallInv, OneAtATime, Ahead
<1>2. Pull(FALSE).auto = FALSE
  BY DEF Pull
<1>3. WallTypes' /\ RowsAreProper'
  BY <1>1, IdleFields DEF WallInv, WallTypes, RowsAreProper, Ahead, Written
<1>4. OneAtATime'
  BY <1>1, IdleFields DEF WallInv, OneAtATime, Ahead, Written
<1>5. ToldLand'
  <2>1. \A r \in told : r \in main \cup closed \/ \E s \in main : s.by = r.by
    BY <1>1, <1>2 DEF WallInv, ToldLand, Lands
  <2>2. \A r \in told' : Lands(r)'
    BY <1>1, <2>1 DEF Lands
  <2> QED  BY <1>1, <2>2, IdleFields DEF ToldLand
<1> QED  BY <1>3, <1>4, <1>5 DEF WallInv

LEMMA TellsStep == WallInv /\ TellsPublished => WallInv'
<1> SUFFICES ASSUME WallInv, TellsPublished PROVE WallInv'
  OBVIOUS
<1>1. /\ job.at = "published" /\ job' = Idle /\ told' = told \cup {job.row}
      /\ UNCHANGED <<pending, main, pulls, closed>>
  BY DEF TellsPublished, JobEnds
<1>2. WallTypes' /\ RowsAreProper'
  BY <1>1, IdleFields DEF WallInv, WallTypes, RowsAreProper, Ahead, Written
<1>3. OneAtATime'
  BY <1>1, IdleFields DEF WallInv, OneAtATime, Ahead, Written
<1>4. ToldLand'
  <2>1. \A r \in told \cup {job.row} : Lands(r)
    BY <1>1 DEF WallInv, ToldLand
  <2> QED  BY <1>1, <2>1, IdleFields DEF ToldLand, Lands
<1> QED  BY <1>2, <1>3, <1>4 DEF WallInv

(* The pull request is the only one, and what it was made from is main: a  *)
(* row it drops was of an account that has a row in it.                    *)
LEMMA PullMergesStep ==
  ASSUME WallInv, NEW p \in pulls, PullMerges(p)
  PROVE  WallInv'
<1>1. /\ p \in Pulls /\ Proper(p.after) /\ p.before = main /\ p.auto /\ Carries(main, p.after)
      /\ pulls = {p} /\ pulls' = {} /\ main' = p.after /\ UNCHANGED <<pending, job, told, closed>>
  BY DEF PullMerges, WallInv, WallTypes, RowsAreProper, OneAtATime
<1>2. job.at \notin Ahead \cup {"opened"}
  <2>1. Pull(FALSE).auto = FALSE
    BY DEF Pull
  <2> QED  BY <1>1, <2>1 DEF WallInv, OneAtATime, Ahead
<1>3. WallTypes' /\ RowsAreProper'
  BY <1>1, EmptyIsProper DEF WallInv, WallTypes, RowsAreProper, Pulls
<1>4. OneAtATime'
  BY <1>1, <1>2 DEF WallInv, OneAtATime, Ahead, Written
<1>5. \A r : Lands(r) => Lands(r)'
  <2>1. \A r \in main : r \in main' \/ \E s \in main' : s.by = r.by
    BY <1>1 DEF Carries
  <2> QED  BY <1>1, <2>1 DEF Lands
<1>6. ToldLand'
  BY <1>1, <1>5 DEF WallInv, ToldLand
<1> QED  BY <1>3, <1>4, <1>6 DEF WallInv

LEMMA ClosesStep ==
  ASSUME WallInv, NEW p \in pulls, MaintainerCloses(p)
  PROVE  WallInv'
<1>1. /\ p.before = main /\ pulls = {p} /\ pulls' = {} /\ closed' = closed \cup (p.after \ main)
      /\ UNCHANGED <<pending, job, main, told>>
  BY DEF MaintainerCloses, WallInv, OneAtATime
<1>2. WallTypes' /\ RowsAreProper'
  BY <1>1 DEF WallInv, WallTypes, RowsAreProper
<1>3. OneAtATime'
  BY <1>1 DEF WallInv, OneAtATime, Pull
<1>4. \A r : Lands(r) => Lands(r)'
  BY <1>1 DEF Lands
<1>5. ToldLand'
  BY <1>1, <1>4 DEF WallInv, ToldLand
<1> QED  BY <1>2, <1>3, <1>5 DEF WallInv

(* However submissions and edits follow on each other, jobs die, pull      *)
(* requests are late or closed and branches are left behind, no account    *)
(* takes another's row or has more than its share, and what was called     *)
(* published is not lost to the next one                                   *)
(* (process_conformance_submission.py:797-831, 957-984, 1176-1245).        *)
THEOREM WallStaysSound == WSpec => []WallIsSound
<1>1. WInit => WallInv
  BY WallInit
<1>2. WallInv /\ [WNext]_wvars => WallInv'
  <2> SUFFICES ASSUME WallInv, [WNext]_wvars PROVE WallInv'
    OBVIOUS
  <2>1. CASE UNCHANGED wvars \/ \E i \in Issues : MaintainerTidies(i)
    <3>1. UNCHANGED <<pending, job, main, pulls, told, closed>>
      BY <2>1 DEF wvars, MaintainerTidies
    <3>2. WallTypes' /\ RowsAreProper'
      BY <3>1 DEF WallInv, WallTypes, RowsAreProper
    <3>3. OneAtATime' /\ ToldLand'
      BY <3>1 DEF WallInv, OneAtATime, ToldLand, Lands, Pull
    <3> QED  BY <3>2, <3>3 DEF WallInv
  <2>2. CASE Reads
    BY <2>2, ReadsStep
  <2>3. CASE JobStarts \/ CatchesUp \/ AppendRow
    BY <2>3, StartsStep, CatchesUpStep, AppendStep
  <2>4. CASE \E i \in Issues, r \in Runs : PostsIssue(i, r)
    BY <2>4, PostsStep
  <2>5. CASE Pushes \/ OpensPull \/ MergesItself \/ PublishFails \/ TellsPublished
    BY <2>5, PushesStep, OpensPullStep, MergesStep, FailsStep, TellsStep
  <2>6. CASE \E p \in pulls : PullMerges(p) \/ MaintainerCloses(p)
    BY <2>6, PullMergesStep, ClosesStep
  <2> QED  BY <2>1, <2>2, <2>3, <2>4, <2>5, <2>6 DEF WNext, Reads
<1>3. WallInv => WallIsSound
  <2> SUFFICES ASSUME WallInv PROVE WallIsSound
    OBVIOUS
  <2>1. RowsAreTheirs
    BY DEF RowsAreTheirs, WallInv, RowsAreProper, Proper, OfAccount
  <2>2. PublishedLands
    BY DEF PublishedLands, WallInv, ToldLand, Lands
  <2> QED  BY <2>1, <2>2 DEF WallIsSound
<1> QED  BY <1>1, <1>2, <1>3, PTL DEF WSpec

(***************************************************************************)
(* A chat through the LiteLLM guardrail (LiteLLMGuardrail).  What a        *)
(* channel was told is what the client got, what waits for the chunk and   *)
(* what its window holds, in this order, until a stream that was cut short *)
(* loses the last of it.                                                   *)
(***************************************************************************)
Fragment == [at : Nat, of : {"own", "hidden"}]
OwnOf(c) == "own of " \o c
ShownTo(c) == [at : Nat, of : {"own", "hidden"}, shown : {"as it came", OwnOf(c)}]
Underway == {"reading", "closing", "ending", "over", "blocked"}

ChatsOf(c) ==
  [at : {"new", "arrived", "minted", "redacted"} \cup Underway,
   raw : SUBSET {"own", "hidden"}, meta : {Unnamed, Elsewhere, Reply(c)},
   shape : {"whole"} \cup Streams,
   fed : [Channels -> Seq(Fragment)], held : [Channels -> Seq(Fragment)], open : SUBSET Channels,
   chunk : [Channels -> Seq(ShownTo(c))], got : [Channels -> Seq(ShownTo(c))],
   closing : SUBSET Channels, closed : SUBSET Channels,
   late : BOOLEAN, bare : BOOLEAN, lost : SUBSET Channels]

(* The numbers of the pieces of a text. *)
Ats(text) == [i \in 1 .. Len(text) |-> text[i].at]
Begins(s, t) == Len(s) <= Len(t) /\ s = SubSeq(t, 1, Len(s))

ChannelIsWhole(l, k) ==
  /\ k \in l.closed => l.held[k] = <<>>
  /\ k \in l.closing => l.at = "closing"
  /\ l.chunk[k] # <<>> => l.at = "closing" /\ k \in l.closing /\ l.held[k] = <<>>
  /\ k \in l.lost => l.at \in {"ending", "over"} /\ l.held[k] = <<>>
  /\ l.at = "over" => l.held[k] = <<>>
  /\ l.at = "blocked" \/ k \in l.lost => Begins(Ats(l.got[k]), Ats(l.fed[k]))
  /\ l.at # "blocked" /\ k \notin l.lost =>
       (Ats(l.got[k]) \o Ats(l.chunk[k])) \o Ats(l.held[k]) = Ats(l.fed[k])

IsFaithful(l) ==
  /\ l.at = "redacted" => l.raw = {}
  /\ ~l.late
  /\ l.at \notin Underway => l.shape = "whole"
  /\ l.shape = "whole" /\ l.at \notin {"over", "blocked"} =>
       l.fed = Silence /\ l.held = Silence /\ l.got = Silence /\ l.chunk = Silence
  /\ \A k \in Channels : ChannelIsWhole(l, k)

(* No vault is made under an id that is kept nowhere, and under the one a  *)
(* reply is restored with lies the caller's own value.                     *)
VaultsAreOwn ==
  \A c \in Chats :
    /\ Unused(c) \notin DOMAIN shield
    /\ Reply(c) \in DOMAIN shield => shield[Reply(c)] = OwnOf(c)

GuardrailInv ==
  /\ tagged \in BOOLEAN /\ provider = {} /\ said \in Nat /\ VaultsAreOwn
  /\ lite = [c \in Chats |-> lite[c]]
  /\ \A c \in Chats : lite[c] \in ChatsOf(c) /\ IsFaithful(lite[c])

-----------------------------------------------------------------------------
(* The numbers of a text *)

LEMMA AtsIs ==
  ASSUME NEW S, \A x \in S : x.at \in Nat, NEW s \in Seq(S)
  PROVE  /\ Ats(s) \in Seq(Nat) /\ Len(Ats(s)) = Len(s)
         /\ \A i \in 1 .. Len(s) : Ats(s)[i] = s[i].at
<1>. DEFINE n == Len(s)
<1>1. n \in Nat /\ \A i \in 1 .. n : s[i] \in S
  BY ElementOfSeq
<1>2. Ats(s) = [i \in 1 .. n |-> s[i].at]
  BY DEF Ats
<1>. HIDE DEF n
<1>3. Ats(s) \in [1 .. n -> Nat]
  BY <1>1, <1>2
<1>4. Ats(s) \in Seq(Nat) /\ Len(Ats(s)) = n
  BY <1>1, <1>3
<1>. QED
  BY <1>2, <1>4 DEF n

LEMMA AtsOfJoin ==
  ASSUME NEW S, \A x \in S : x.at \in Nat, NEW s \in Seq(S), NEW t \in Seq(S)
  PROVE  Ats(s \o t) = Ats(s) \o Ats(t)
<1>1. s \o t \in Seq(S) /\ Len(s \o t) = Len(s) + Len(t)
      /\ \A i \in 1 .. Len(s) + Len(t) : (s \o t)[i] = IF i <= Len(s) THEN s[i] ELSE t[i - Len(s)]
  BY ConcatProperties
<1>2. Ats(s \o t) \in Seq(Nat) /\ Len(Ats(s \o t)) = Len(s \o t)
      /\ \A i \in 1 .. Len(s \o t) : Ats(s \o t)[i] = (s \o t)[i].at
  BY <1>1, AtsIs
<1>3. Ats(s) \in Seq(Nat) /\ Len(Ats(s)) = Len(s) /\ \A i \in 1 .. Len(s) : Ats(s)[i] = s[i].at
  BY AtsIs
<1>4. Ats(t) \in Seq(Nat) /\ Len(Ats(t)) = Len(t) /\ \A i \in 1 .. Len(t) : Ats(t)[i] = t[i].at
  BY AtsIs
<1>. DEFINE u == Ats(s) \o Ats(t)
<1>5. u \in Seq(Nat) /\ Len(u) = Len(s) + Len(t)
      /\ \A i \in 1 .. Len(s) + Len(t) : u[i] = IF i <= Len(s) THEN Ats(s)[i] ELSE Ats(t)[i - Len(s)]
  BY <1>3, <1>4, ConcatProperties
<1>. HIDE DEF u
<1>6. ASSUME NEW i \in 1 .. Len(u) PROVE Ats(s \o t)[i] = u[i]
  <2>1. Len(s) \in Nat /\ Len(t) \in Nat
    OBVIOUS
  <2>2. CASE i <= Len(s)
    <3>1. i \in 1 .. Len(s)
      BY <1>5, <2>1, <2>2
    <3>. QED
      BY <1>1, <1>2, <1>3, <1>5, <2>1, <2>2, <3>1
  <2>3. CASE ~(i <= Len(s))
    <3>1. i - Len(s) \in 1 .. Len(t)
      BY <1>5, <2>1, <2>3
    <3>. QED
      BY <1>1, <1>2, <1>4, <1>5, <2>1, <2>3, <3>1
  <2>. QED
    BY <2>2, <2>3
<1>7. Len(Ats(s \o t)) = Len(u)
  BY <1>1, <1>2, <1>5
<1>. HIDE DEF Ats
<1>8. Ats(s \o t) = u
  BY ONLY SeqEqual, <1>2, <1>5, <1>6, <1>7
<1>. QED
  BY <1>8 DEF u

LEMMA JoinIsAssociative ==
  \A s, t, u \in Seq(Nat) : (s \o t) \o u = s \o (t \o u)
BY ConcatAssociative, SMTT(30)

LEMMA BeginningOfJoin ==
  ASSUME NEW s \in Seq(Nat), NEW t \in Seq(Nat)
  PROVE  Begins(s, s \o t)
<1>1. Len(s) \in Nat /\ Len(t) \in Nat /\ Len(s \o t) = Len(s) + Len(t)
  OBVIOUS
<1>2. CASE s = <<>>
  <2>1. SubSeq(s \o t, 1, 0) = <<>>
    BY SubSeqEmpty
  <2>. QED
    BY <1>1, <1>2, <2>1 DEF Begins
<1>3. CASE s # <<>>
  <2>1. 1 \in 1 .. Len(s) /\ Len(s) \in 1 .. Len(s)
    BY <1>1, <1>3
  <2>2. SubSeq(s \o t, 1, Len(s)) = SubSeq(s, 1, Len(s))
    BY <2>1, SubSeqOfConcat1
  <2>. QED
    BY <1>1, <2>2, SubSeqFull DEF Begins
<1>. QED
  BY <1>2, <1>3

LEMMA FragmentsAreNumbered ==
  /\ \A x \in Fragment : x.at \in Nat
  /\ \A c : \A x \in ShownTo(c) : x.at \in Nat
BY DEF Fragment, ShownTo

LEMMA RestoredIs ==
  ASSUME GuardrailInv, NEW c \in Chats, NEW text \in Seq(Fragment)
  PROVE  Restored(c, text) \in Seq(ShownTo(c)) /\ Ats(Restored(c, text)) = Ats(text)
<1>. DEFINE n == Len(text)
            r == Restored(c, text)
<1>1. n \in Nat /\ \A i \in 1 .. n : text[i] \in Fragment
  BY ElementOfSeq
<1>2. \A of \in {"own", "hidden"} : Shown(SessionId(c), of) \in {"as it came", OwnOf(c)}
  <2>1. SessionId(c) \in {Reply(c), Unused(c)}
    BY DEF SessionId
  <2>. QED
    BY <2>1, Zenon DEF GuardrailInv, VaultsAreOwn, Shown
<1>3. ASSUME NEW i \in 1 .. n
      PROVE [at |-> text[i].at, of |-> text[i].of, shown |-> Shown(SessionId(c), text[i].of)] \in ShownTo(c)
  <2>1. text[i].at \in Nat /\ text[i].of \in {"own", "hidden"}
    BY <1>1 DEF Fragment
  <2>2. Shown(SessionId(c), text[i].of) \in {"as it came", OwnOf(c)}
    BY <1>2, <2>1
  <2>. QED
    BY <2>1, <2>2, Zenon DEF ShownTo
<1>4. r = [i \in 1 .. n |-> [at |-> text[i].at, of |-> text[i].of, shown |-> Shown(SessionId(c), text[i].of)]]
  BY DEF Restored
<1>5. \A i \in 1 .. n : r[i].at = text[i].at
  BY <1>4
<1>. HIDE DEF n, r
<1>6. r \in [1 .. n -> ShownTo(c)]
  BY <1>3, <1>4
<1>7. r \in Seq(ShownTo(c)) /\ Len(r) = n
  BY <1>1, <1>6
<1>8. Ats(r) = Ats(text)
  BY <1>5, <1>7 DEF Ats, n
<1>. QED
  BY <1>7, <1>8 DEF r

-----------------------------------------------------------------------------
(* The steps of one chat *)

LEMMA OneChat ==
  ASSUME GuardrailInv, NEW c \in Chats, NEW l \in ChatsOf(c), IsFaithful(l),
         Chat(c, l), said' \in Nat, VaultsAreOwn', UNCHANGED <<tagged, provider>>
  PROVE  GuardrailInv'
<1>1. lite = [d \in Chats |-> lite[d]] /\ \A d \in Chats : lite[d] \in ChatsOf(d) /\ IsFaithful(lite[d])
  BY DEF GuardrailInv
<1>2. lite' = [lite EXCEPT ![c] = l]
  BY DEF Chat
<1>. HIDE DEF ChatsOf, IsFaithful
<1>3. lite'[c] = l /\ \A d \in Chats \ {c} : lite'[d] = lite[d]
  BY <1>1, <1>2
<1>4. lite' = [d \in Chats |-> lite'[d]]
  BY <1>1, <1>2
<1>5. \A d \in Chats : lite'[d] \in ChatsOf(d) /\ IsFaithful(lite'[d])
  BY <1>1, <1>3
<1>. QED
  BY <1>4, <1>5 DEF GuardrailInv

LEMMA SameVaults ==
  ASSUME GuardrailInv, UNCHANGED shield
  PROVE  VaultsAreOwn'
BY DEF GuardrailInv, VaultsAreOwn

LEMMA GotBegins ==
  ASSUME NEW c \in Chats, NEW l \in ChatsOf(c), NEW k \in Channels, ChannelIsWhole(l, k)
  PROVE  Begins(Ats(l.got[k]), Ats(l.fed[k]))
<1>1. CASE l.at = "blocked" \/ k \in l.lost
  BY <1>1 DEF ChannelIsWhole
<1>2. CASE ~(l.at = "blocked" \/ k \in l.lost)
  <2>1. l.got[k] \in Seq(ShownTo(c)) /\ l.chunk[k] \in Seq(ShownTo(c)) /\ l.held[k] \in Seq(Fragment)
    BY DEF ChatsOf
  <2>2. Ats(l.got[k]) \in Seq(Nat) /\ Ats(l.chunk[k]) \in Seq(Nat) /\ Ats(l.held[k]) \in Seq(Nat)
    BY <2>1, AtsIs, FragmentsAreNumbered
  <2>3. (Ats(l.got[k]) \o Ats(l.chunk[k])) \o Ats(l.held[k]) = Ats(l.fed[k])
    BY <1>2 DEF ChannelIsWhole
  <2>4. Ats(l.chunk[k]) \o Ats(l.held[k]) \in Seq(Nat)
    BY <2>2, ConcatProperties
  <2>5. (Ats(l.got[k]) \o Ats(l.chunk[k])) \o Ats(l.held[k]) = Ats(l.got[k]) \o (Ats(l.chunk[k]) \o Ats(l.held[k]))
    BY ONLY <2>2, JoinIsAssociative
  <2>. QED
    BY <2>2, <2>3, <2>4, <2>5, BeginningOfJoin
<1>. QED
  BY <1>1, <1>2

LEMMA BlockedChat ==
  ASSUME GuardrailInv, NEW c \in Chats, Blocks(c), UNCHANGED <<tagged, provider>>, VaultsAreOwn', said' \in Nat
  PROVE  GuardrailInv'
<1>. DEFINE l == [NewChat EXCEPT !.at = "blocked", !.fed = lite[c].fed, !.got = lite[c].got]
<1>1. lite[c] \in ChatsOf(c) /\ IsFaithful(lite[c])
  BY DEF GuardrailInv
<1>2. l \in ChatsOf(c)
  <2>1. lite[c].fed \in [Channels -> Seq(Fragment)] /\ lite[c].got \in [Channels -> Seq(ShownTo(c))]
    BY <1>1 DEF ChatsOf
  <2>2. Silence \in [Channels -> Seq(Fragment)] /\ Silence \in [Channels -> Seq(ShownTo(c))]
    BY DEF Silence
  <2>. QED
    BY <2>1, <2>2 DEF ChatsOf, NewChat, Underway
<1>3. /\ l.at = "blocked" /\ l.fed = lite[c].fed /\ l.got = lite[c].got /\ l.held = Silence /\ l.chunk = Silence
      /\ l.closed = {} /\ l.closing = {} /\ l.lost = {} /\ l.late = FALSE
  BY DEF NewChat
<1>. HIDE DEF l
<1>4. ASSUME NEW k \in Channels PROVE ChannelIsWhole(l, k)
  <2>1. Begins(Ats(lite[c].got[k]), Ats(lite[c].fed[k]))
    BY <1>1, GotBegins DEF IsFaithful
  <2>. QED
    BY <1>3, <2>1 DEF ChannelIsWhole, Silence
<1>5. IsFaithful(l)
  BY <1>3, <1>4 DEF IsFaithful, Underway
<1>6. Chat(c, l)
  BY DEF Blocks, l
<1>. QED
  BY <1>2, <1>5, <1>6, OneChat

LEMMA ChatIs ==
  ASSUME GuardrailInv, NEW c \in Chats
  PROVE  /\ lite[c] \in ChatsOf(c) /\ IsFaithful(lite[c])
         /\ lite[c].at # "closing" => lite[c].chunk = Silence /\ lite[c].closing = {}
         /\ lite[c].at \notin {"ending", "over"} => lite[c].lost = {}
<1>1. lite[c] \in ChatsOf(c) /\ IsFaithful(lite[c])
  BY DEF GuardrailInv
<1>2. lite[c].chunk \in [Channels -> Seq(ShownTo(c))] /\ lite[c].closing \subseteq Channels
      /\ lite[c].lost \subseteq Channels
  BY <1>1 DEF ChatsOf
<1>3. \A k \in Channels : ChannelIsWhole(lite[c], k)
  BY <1>1 DEF IsFaithful
<1>4. ASSUME lite[c].at # "closing" PROVE lite[c].chunk = Silence /\ lite[c].closing = {}
  <2>1. \A k \in Channels : lite[c].chunk[k] = <<>> /\ k \notin lite[c].closing
    BY <1>3, <1>4 DEF ChannelIsWhole
  <2>. QED
    BY <1>2, <2>1 DEF Silence
<1>5. ASSUME lite[c].at \notin {"ending", "over"} PROVE lite[c].lost = {}
  BY <1>2, <1>3, <1>5 DEF ChannelIsWhole
<1>. QED
  BY <1>1, <1>4, <1>5

(* What leaves the texts of a chat alone keeps it whole. *)
IsChat(m) ==
  m = [at |-> m.at, raw |-> m.raw, meta |-> m.meta, shape |-> m.shape,
       fed |-> m.fed, held |-> m.held, open |-> m.open, chunk |-> m.chunk, got |-> m.got,
       closing |-> m.closing, closed |-> m.closed, late |-> m.late, bare |-> m.bare, lost |-> m.lost]

SameTexts(l, m) ==
  /\ m.fed = l.fed /\ m.held = l.held /\ m.got = l.got /\ m.chunk = l.chunk
  /\ m.open = l.open /\ m.closed = l.closed /\ m.lost = l.lost /\ m.late = l.late

LEMMA TextsStay ==
  ASSUME GuardrailInv, NEW c \in Chats, NEW m, SameTexts(lite[c], m),
         lite[c].at \notin {"closing", "ending", "over", "blocked"},
         m.at \notin {"blocked", "over"}, m.at = "redacted" => m.raw = {},
         m.at \notin Underway => m.shape = "whole", m.shape = "whole" => lite[c].shape = "whole",
         m.closing # {} => m.at = "closing",
         m.at \in {"new", "arrived", "minted", "redacted"} \cup Underway,
         m.raw \in SUBSET {"own", "hidden"}, m.meta \in {Unnamed, Elsewhere, Reply(c)},
         m.shape \in {"whole"} \cup Streams, m.bare \in BOOLEAN, m.closing \subseteq Channels,
         IsChat(m),
         Chat(c, m), UNCHANGED <<tagged, provider, said>>, VaultsAreOwn'
  PROVE  GuardrailInv'
<1>. DEFINE l == lite[c]
<1>1. l \in ChatsOf(c) /\ IsFaithful(l) /\ l.chunk = Silence /\ l.closing = {} /\ l.lost = {}
  BY ChatIs
<1>2. l.at \notin {"closing", "ending", "over", "blocked"} /\ SameTexts(l, m) /\ (m.shape = "whole" => l.shape = "whole")
  OBVIOUS
<1>. HIDE DEF l
<1>3. m \in ChatsOf(c)
  <2>1. /\ l.fed \in [Channels -> Seq(Fragment)] /\ l.held \in [Channels -> Seq(Fragment)] /\ l.open \in SUBSET Channels
        /\ l.chunk \in [Channels -> Seq(ShownTo(c))] /\ l.got \in [Channels -> Seq(ShownTo(c))]
        /\ l.closed \in SUBSET Channels /\ l.late \in BOOLEAN /\ l.lost \in SUBSET Channels
    BY <1>1 DEF ChatsOf
  <2>2. /\ m.fed \in [Channels -> Seq(Fragment)] /\ m.held \in [Channels -> Seq(Fragment)] /\ m.open \in SUBSET Channels
        /\ m.chunk \in [Channels -> Seq(ShownTo(c))] /\ m.got \in [Channels -> Seq(ShownTo(c))]
        /\ m.closed \in SUBSET Channels /\ m.late \in BOOLEAN /\ m.lost \in SUBSET Channels
    BY <1>2, <2>1 DEF SameTexts
  <2>. QED
    BY <2>2 DEF ChatsOf, IsChat
<1>4. ASSUME NEW k \in Channels PROVE ChannelIsWhole(m, k)
  <2>1. ChannelIsWhole(l, k)
    BY <1>1 DEF IsFaithful
  <2>2. l.chunk[k] = <<>>
    BY <1>1 DEF Silence
  <2>. QED
    BY <1>1, <1>2, <2>1, <2>2 DEF ChannelIsWhole, SameTexts
<1>5. IsFaithful(m)
  BY <1>1, <1>2, <1>4 DEF IsFaithful, SameTexts
<1>. QED
  BY <1>3, <1>5, OneChat DEF GuardrailInv

(* Before the call *)

LEMMA OtherVaults ==
  ASSUME GuardrailInv, NEW c \in Chats,
         shield' = shield \/ shield' = Holding(Hidden(c), "hidden of " \o c) \/ shield' = Holding(Reply(c), OwnOf(c))
  PROVE  VaultsAreOwn'
<1>. SUFFICES ASSUME NEW d \in Chats
              PROVE  /\ Unused(d) \notin DOMAIN shield'
                     /\ Reply(d) \in DOMAIN shield' => shield'[Reply(d)] = OwnOf(d)
  BY DEF VaultsAreOwn
<1>1. Unused(d) \notin DOMAIN shield /\ (Reply(d) \in DOMAIN shield => shield[Reply(d)] = OwnOf(d))
  BY DEF GuardrailInv, VaultsAreOwn
<1>2. Unused(d) # Reply(c) /\ Unused(d) # Hidden(c) /\ Reply(d) # Hidden(c) /\ (Reply(d) = Reply(c) => d = c)
  BY DEF Unused, Reply, Hidden
<1>. QED
  BY <1>1, <1>2 DEF Holding

LEMMA BeforeTheCall ==
  ASSUME GuardrailInv, NEW c \in Chats,
         Posts(c) \/ Mints(c) \/ RedactsHidden(c) \/ RedactsOwn(c) \/ RedactsAll(c) \/ GoesOut(c)
  PROVE  GuardrailInv'
<1>1. /\ lite[c] \in ChatsOf(c) /\ IsFaithful(lite[c])
      /\ lite[c].at # "closing" => lite[c].closing = {}
  BY ChatIs
<1>2. CASE Posts(c)
  <2>1. PICK values \in SUBSET {"own", "hidden"}, meta \in {Unnamed, Elsewhere} :
          Chat(c, [lite[c] EXCEPT !.at = "arrived", !.raw = values, !.meta = meta])
    BY <1>2 DEF Posts
  <2>2. PICK m : m = [lite[c] EXCEPT !.at = "arrived", !.raw = values, !.meta = meta]
    OBVIOUS
  <2>3. lite[c].at = "new" /\ lite[c].shape = "whole" /\ lite[c].closing = {} /\ lite[c].bare \in BOOLEAN
    BY <1>1, <1>2 DEF Posts, IsFaithful, Underway, ChatsOf
  <2>4. SameTexts(lite[c], m) /\ IsChat(m) /\ m.at = "arrived" /\ m.raw = values /\ m.meta = meta /\ m.shape = "whole"
        /\ m.closing = {} /\ m.bare = lite[c].bare
    BY <1>1, <2>2, <2>3 DEF ChatsOf, SameTexts, IsChat
  <2>5. UNCHANGED <<tagged, provider, said>> /\ VaultsAreOwn'
    BY <1>2, OtherVaults DEF Posts
  <2>. QED
    BY <2>1, <2>2, <2>3, <2>4, <2>5, TextsStay DEF Underway
<1>3. CASE Mints(c)
  <2>1. lite[c].at = "arrived" /\ lite[c].shape = "whole" /\ lite[c].closing = {} /\ lite[c].bare \in BOOLEAN
        /\ lite[c].raw \in SUBSET {"own", "hidden"} /\ lite[c].meta \in {Unnamed, Elsewhere, Reply(c)}
    BY <1>1, <1>3 DEF Mints, IsFaithful, Underway, ChatsOf
  <2>2. UNCHANGED <<tagged, provider, said>> /\ VaultsAreOwn'
    BY <1>3, OtherVaults DEF Mints
  <2>3. CASE lite[c].raw = {}
    <3>1. PICK m : m = [lite[c] EXCEPT !.at = "redacted"]
      OBVIOUS
    <3>2. SameTexts(lite[c], m) /\ IsChat(m) /\ m.at = "redacted" /\ m.raw = {} /\ m.meta = lite[c].meta
          /\ m.shape = "whole" /\ m.closing = {} /\ m.bare = lite[c].bare
      BY <1>1, <2>1, <2>3, <3>1 DEF ChatsOf, SameTexts, IsChat
    <3>3. Chat(c, m)
      BY <1>3, <2>3, <3>1 DEF Mints, Gets
    <3>. QED
      BY <2>1, <2>2, <3>2, <3>3, TextsStay DEF Underway
  <2>4. CASE lite[c].raw # {}
    <3>1. PICK m : m = [lite[c] EXCEPT !.at = "minted", !.meta = Reply(c)]
      OBVIOUS
    <3>2. SameTexts(lite[c], m) /\ IsChat(m) /\ m.at = "minted" /\ m.raw = lite[c].raw /\ m.meta = Reply(c)
          /\ m.shape = "whole" /\ m.closing = {} /\ m.bare = lite[c].bare
      BY <1>1, <2>1, <3>1 DEF ChatsOf, SameTexts, IsChat
    <3>3. Chat(c, m)
      BY <1>3, <2>4, <3>1 DEF Mints
    <3>. QED
      BY <2>1, <2>2, <3>2, <3>3, TextsStay DEF Underway
  <2>. QED
    BY <2>3, <2>4
<1>4. CASE RedactsHidden(c) \/ RedactsOwn(c) \/ RedactsAll(c)
  <2>1. lite[c].at = "minted" /\ lite[c].shape = "whole" /\ lite[c].closing = {} /\ lite[c].bare \in BOOLEAN
        /\ lite[c].raw \in SUBSET {"own", "hidden"} /\ lite[c].meta \in {Unnamed, Elsewhere, Reply(c)}
    BY <1>1, <1>4 DEF RedactsHidden, RedactsOwn, RedactsAll, IsFaithful, Underway, ChatsOf
  <2>2. UNCHANGED <<tagged, provider, said>> /\ VaultsAreOwn'
    BY <1>4, OtherVaults DEF RedactsHidden, RedactsOwn, RedactsAll, OwnOf
  <2>3. PICK at \in {"minted", "redacted"}, values \in SUBSET lite[c].raw :
          /\ at = "redacted" => values = {}
          /\ Chat(c, [lite[c] EXCEPT !.at = at, !.raw = values])
    <3>1. CASE RedactsHidden(c)
      <4>1. [lite[c] EXCEPT !.raw = @ \ {"hidden"}] = [lite[c] EXCEPT !.at = "minted", !.raw = lite[c].raw \ {"hidden"}]
        BY <1>1, <2>1 DEF ChatsOf
      <4>. QED
        BY <3>1, <4>1 DEF RedactsHidden
    <3>2. CASE RedactsOwn(c)
      <4>1. [lite[c] EXCEPT !.raw = {}] = [lite[c] EXCEPT !.at = "minted", !.raw = {}]
        BY <1>1, <2>1 DEF ChatsOf
      <4>. QED
        BY <3>2, <4>1 DEF RedactsOwn
    <3>3. CASE RedactsAll(c)
      <4>1. [lite[c] EXCEPT !.at = "redacted"] = [lite[c] EXCEPT !.at = "redacted", !.raw = {}]
        BY <1>1, <3>3 DEF ChatsOf, RedactsAll
      <4>. QED
        BY <3>3, <4>1 DEF RedactsAll, Gets
    <3>. QED
      BY <1>4, <3>1, <3>2, <3>3
  <2>4. PICK m : m = [lite[c] EXCEPT !.at = at, !.raw = values]
    OBVIOUS
  <2>5. SameTexts(lite[c], m) /\ IsChat(m) /\ m.at = at /\ m.raw = values /\ m.meta = lite[c].meta
        /\ m.shape = "whole" /\ m.closing = {} /\ m.bare = lite[c].bare
    BY <1>1, <2>1, <2>4 DEF ChatsOf, SameTexts, IsChat
  <2>. QED
    BY <2>1, <2>2, <2>3, <2>4, <2>5, TextsStay DEF Underway
<1>5. CASE GoesOut(c)
  <2>1. PICK shape \in {"whole"} \cup Streams : Chat(c, [lite[c] EXCEPT !.at = "reading", !.shape = shape])
    BY <1>5 DEF GoesOut
  <2>2. PICK m : m = [lite[c] EXCEPT !.at = "reading", !.shape = shape]
    OBVIOUS
  <2>3. lite[c].at = "redacted" /\ lite[c].shape = "whole" /\ lite[c].closing = {} /\ lite[c].bare \in BOOLEAN
        /\ lite[c].raw = {} /\ lite[c].meta \in {Unnamed, Elsewhere, Reply(c)}
    BY <1>1, <1>5 DEF GoesOut, IsFaithful, Underway, ChatsOf
  <2>4. SameTexts(lite[c], m) /\ IsChat(m) /\ m.at = "reading" /\ m.raw = {} /\ m.meta = lite[c].meta
        /\ m.shape = shape /\ m.closing = {} /\ m.bare = lite[c].bare
    BY <1>1, <2>2, <2>3 DEF ChatsOf, SameTexts, IsChat
  <2>5. UNCHANGED <<tagged, provider, said>> /\ VaultsAreOwn'
    BY <1>5, <2>3, OtherVaults DEF GoesOut
  <2>. QED
    BY <2>1, <2>2, <2>3, <2>4, <2>5, TextsStay DEF Underway
<1>. QED
  BY <1>2, <1>3, <1>4, <1>5

-----------------------------------------------------------------------------
(* The reply *)

LEMMA StreamGoesOn ==
  ASSUME GuardrailInv, NEW c \in Chats, BareChunk(c) \/ Closes(c) \/ UpstreamEnds(c)
  PROVE  GuardrailInv'
<1>1. /\ lite[c] \in ChatsOf(c) /\ IsFaithful(lite[c])
      /\ lite[c].at # "closing" => lite[c].closing = {}
  BY ChatIs
<1>2. /\ lite[c].at = "reading" /\ lite[c].shape \in Streams /\ lite[c].closing = {} /\ lite[c].bare \in BOOLEAN
      /\ lite[c].raw \in SUBSET {"own", "hidden"} /\ lite[c].meta \in {Unnamed, Elsewhere, Reply(c)}
  BY <1>1 DEF BareChunk, Closes, UpstreamEnds, IsStreaming, ChatsOf
<1>3. "whole" \notin Streams
  BY DEF Streams
<1>4. UNCHANGED <<tagged, provider, said>> /\ VaultsAreOwn'
  BY OtherVaults DEF BareChunk, Closes, UpstreamEnds
<1>5. PICK at \in {"reading", "closing", "ending"}, ks \in SUBSET Channels, bare \in BOOLEAN :
        /\ ks # {} => at = "closing"
        /\ Chat(c, [lite[c] EXCEPT !.at = at, !.closing = ks, !.bare = bare])
  <2>1. CASE BareChunk(c)
    <3>1. [lite[c] EXCEPT !.bare = TRUE] = [lite[c] EXCEPT !.at = "reading", !.closing = {}, !.bare = TRUE]
      BY <1>1, <1>2 DEF ChatsOf
    <3>. QED
      BY <2>1, <3>1 DEF BareChunk
  <2>2. CASE Closes(c)
    <3>1. \A ks \in Ends(c) : ks \subseteq Channels
      BY <1>2 DEF Ends, Streams
    <3>. QED
      BY <2>2, <3>1 DEF Closes
  <2>3. CASE UpstreamEnds(c)
    <3>1. [lite[c] EXCEPT !.at = "ending"] = [lite[c] EXCEPT !.at = "ending", !.closing = {}, !.bare = lite[c].bare]
      BY <1>1, <1>2 DEF ChatsOf
    <3>. QED
      BY <1>2, <2>3, <3>1 DEF UpstreamEnds, Gets
  <2>. QED
    BY <2>1, <2>2, <2>3
<1>6. PICK m : m = [lite[c] EXCEPT !.at = at, !.closing = ks, !.bare = bare]
  OBVIOUS
<1>7. SameTexts(lite[c], m) /\ IsChat(m) /\ m.at = at /\ m.raw = lite[c].raw /\ m.meta = lite[c].meta
      /\ m.shape = lite[c].shape /\ m.closing = ks /\ m.bare = bare
  BY <1>1, <1>2, <1>6 DEF ChatsOf, SameTexts, IsChat
<1>. QED
  BY <1>2, <1>3, <1>4, <1>5, <1>6, <1>7, TextsStay, ZenonT(60) DEF Underway

LEMMA Forgotten ==
  ASSUME GuardrailInv, NEW c \in Chats, Forgets(c)
  PROVE  GuardrailInv'
<1>1. VaultsAreOwn'
  BY DEF GuardrailInv, VaultsAreOwn, Forgets
<1>. QED
  BY <1>1 DEF GuardrailInv, Forgets

LEMMA Fails ==
  ASSUME GuardrailInv, NEW c \in Chats, RedactFails(c) \/ ReplyFails(c)
  PROVE  GuardrailInv'
<1>1. VaultsAreOwn'
  BY OtherVaults DEF RedactFails, ReplyFails, OwnOf
<1>. QED
  BY <1>1, BlockedChat DEF RedactFails, ReplyFails, GuardrailInv

LEMMA SilenceIs ==
  /\ \A k \in Channels : Silence[k] = <<>>
  /\ \A S : Silence \in [Channels -> Seq(S)]
BY DEF Silence

LEMMA EmptyAts == Ats(<<>>) = <<>> /\ \A s \in Seq(Nat) : s \o <<>> = s /\ <<>> \o s = s
<1>1. Ats(<<>>) = <<>>
  BY DEF Ats
<1>. QED
  BY <1>1, ConcatEmptySeq

LEMMA RepliesWhole ==
  ASSUME GuardrailInv, NEW c \in Chats, NEW of \in {"own", "hidden"}, RestoresWhole(c, of)
  PROVE  GuardrailInv'
<1>1. /\ lite[c] \in ChatsOf(c) /\ IsFaithful(lite[c])
      /\ lite[c].chunk = Silence /\ lite[c].closing = {} /\ lite[c].lost = {}
  BY ChatIs DEF RestoresWhole
<1>2. lite[c].at = "reading" /\ lite[c].shape = "whole"
      /\ lite[c].fed = Silence /\ lite[c].held = Silence /\ lite[c].got = Silence
  BY <1>1 DEF RestoresWhole, IsFaithful
<1>. DEFINE text == <<[at |-> said, of |-> of]>>
<1>3. text \in Seq(Fragment) /\ said' \in Nat
  BY DEF GuardrailInv, Fragment, RestoresWhole
<1>4. Restored(c, text) \in Seq(ShownTo(c)) /\ Ats(Restored(c, text)) = Ats(text)
  BY <1>3, RestoredIs
<1>5. PICK m : m = [lite[c] EXCEPT !.at = "over", !.fed["prose"] = text, !.got["prose"] = Restored(c, text)]
  OBVIOUS
<1>6. Chat(c, m) /\ UNCHANGED <<tagged, shield, provider>>
  BY <1>5 DEF RestoresWhole
<1>7. Ats(text) \in Seq(Nat)
  BY <1>3, AtsIs, FragmentsAreNumbered
<1>. HIDE DEF text
<1>8. /\ m.fed = [lite[c].fed EXCEPT !["prose"] = text] /\ m.held = lite[c].held /\ m.chunk = lite[c].chunk
      /\ m.got = [lite[c].got EXCEPT !["prose"] = Restored(c, text)]
      /\ m.at = "over" /\ m.late = lite[c].late /\ m.closing = {} /\ m.lost = {}
  BY <1>1, <1>5 DEF ChatsOf
<1>9. m \in ChatsOf(c)
  BY <1>1, <1>3, <1>4, <1>5 DEF ChatsOf, Underway, Channels
<1>10. ASSUME NEW k \in Channels PROVE ChannelIsWhole(m, k)
  <2>1. m.held[k] = <<>> /\ m.chunk[k] = <<>>
    BY <1>1, <1>2, <1>8, SilenceIs
  <2>2. \/ m.got[k] = Restored(c, text) /\ m.fed[k] = text
        \/ m.got[k] = <<>> /\ m.fed[k] = <<>>
    BY <1>2, <1>8, SilenceIs
  <2>3. Ats(m.got[k]) = Ats(m.fed[k]) /\ Ats(m.fed[k]) \in Seq(Nat)
    <3>1. CASE m.got[k] = Restored(c, text) /\ m.fed[k] = text
      BY <1>4, <1>7, <3>1
    <3>2. CASE m.got[k] = <<>> /\ m.fed[k] = <<>>
      BY <3>2, EmptyAts, EmptySeq
    <3>. QED
      BY <2>2, <3>1, <3>2
  <2>. QED
    BY <1>8, <2>1, <2>3, EmptyAts DEF ChannelIsWhole
<1>11. IsFaithful(m)
  BY <1>1, <1>8, <1>10 DEF IsFaithful, Underway
<1>. QED
  BY <1>3, <1>6, <1>9, <1>11, OneChat, SameVaults

LEMMA PartsOfText ==
  ASSUME NEW text \in Seq(Fragment), NEW n \in 0 .. Len(text)
  PROVE  LET a == SubSeq(text, 1, n)
             b == SubSeq(text, n + 1, Len(text))
         IN  /\ a \in Seq(Fragment) /\ b \in Seq(Fragment) /\ a \o b = text
             /\ Ats(a) \o Ats(b) = Ats(text)
             /\ Ats(a) \in Seq(Nat) /\ Ats(b) \in Seq(Nat)
<1>. DEFINE a == SubSeq(text, 1, n)
            b == SubSeq(text, n + 1, Len(text))
<1>1. Len(text) \in Nat /\ n \in Nat /\ n <= Len(text) /\ \A i \in 1 .. Len(text) : text[i] \in Fragment
  BY ElementOfSeq
<1>2. a \in Seq(Fragment)
  <2>1. \A i \in 1 .. n : text[i] \in Fragment
    BY <1>1
  <2>. QED
    BY <1>1, <2>1, SubSeqProperties
<1>3. b \in Seq(Fragment)
  <2>1. \A i \in n + 1 .. Len(text) : text[i] \in Fragment
    BY <1>1
  <2>. QED
    BY <1>1, <2>1, SubSeqProperties
<1>4. a \o b = text
  <2>1. 1 \in 1 .. Len(text) + 1 /\ n \in 1 - 1 .. Len(text) /\ Len(text) \in n .. Len(text)
    BY <1>1
  <2>2. a \o b = SubSeq(text, 1, Len(text))
    BY <2>1, ConcatAdjacentSubSeq
  <2>. QED
    BY <2>2, SubSeqFull
<1>. HIDE DEF a, b
<1>5. Ats(a \o b) = Ats(a) \o Ats(b) /\ Ats(a) \in Seq(Nat) /\ Ats(b) \in Seq(Nat)
  BY <1>2, <1>3, AtsOfJoin, AtsIs, FragmentsAreNumbered
<1>. QED
  BY <1>2, <1>3, <1>4, <1>5 DEF a, b

LEMMA NumbersOf ==
  ASSUME NEW c \in Chats, NEW l \in ChatsOf(c), NEW k \in Channels
  PROVE  /\ l.fed[k] \in Seq(Fragment) /\ l.held[k] \in Seq(Fragment)
         /\ l.got[k] \in Seq(ShownTo(c)) /\ l.chunk[k] \in Seq(ShownTo(c))
         /\ Ats(l.fed[k]) \in Seq(Nat) /\ Ats(l.held[k]) \in Seq(Nat)
         /\ Ats(l.got[k]) \in Seq(Nat) /\ Ats(l.chunk[k]) \in Seq(Nat)
<1>1. /\ l.fed[k] \in Seq(Fragment) /\ l.held[k] \in Seq(Fragment)
      /\ l.got[k] \in Seq(ShownTo(c)) /\ l.chunk[k] \in Seq(ShownTo(c))
  BY DEF ChatsOf
<1>. QED
  BY <1>1, AtsIs, FragmentsAreNumbered

LEMMA DeltaRestored ==
  ASSUME GuardrailInv, NEW c \in Chats, NEW of \in {"own", "hidden"}, NEW key \in Channels,
         RestoresDelta(c, key, of)
  PROVE  GuardrailInv'
<1>1. /\ lite[c] \in ChatsOf(c) /\ IsFaithful(lite[c])
      /\ lite[c].chunk = Silence /\ lite[c].closing = {} /\ lite[c].lost = {}
  BY ChatIs DEF RestoresDelta, IsStreaming
<1>2. /\ lite[c].at = "reading" /\ lite[c].shape \in Streams /\ key \notin lite[c].closed
      /\ said \in Nat /\ said' \in Nat /\ UNCHANGED <<tagged, shield, provider>>
  <2>1. said \in Nat
    BY DEF GuardrailInv
  <2>2. /\ lite[c].at = "reading" /\ lite[c].shape \in Streams /\ key \notin lite[c].closed
        /\ said' = said + 1 /\ UNCHANGED <<tagged, shield, provider>>
    BY Zenon DEF RestoresDelta, IsStreaming
  <2>. QED
    BY <2>1, <2>2
<1>3. CASE key \notin lite[c].open /\ Cardinality(lite[c].open) >= MaxOpen
  <2>1. Blocks(c)
    BY <1>3 DEF RestoresDelta
  <2>. QED
    BY <1>2, <2>1, BlockedChat, SameVaults
<1>4. CASE ~(key \notin lite[c].open /\ Cardinality(lite[c].open) >= MaxOpen)
  <2>. DEFINE piece == [at |-> said, of |-> of]
              text == Append(lite[c].held[key], piece)
  <2>1. PICK n \in 0 .. Len(text) :
          Chat(c, [lite[c] EXCEPT
                  !.open = @ \cup {key}, !.bare = FALSE,
                  !.fed[key] = Append(@, piece),
                  !.got[key] = @ \o Restored(c, SubSeq(text, 1, n)),
                  !.held[key] = SubSeq(text, n + 1, Len(text))])
    BY <1>4, Zenon DEF RestoresDelta
  <2>2. PICK a, b : a = SubSeq(text, 1, n) /\ b = SubSeq(text, n + 1, Len(text))
    OBVIOUS
  <2>3. PICK m : m = [lite[c] EXCEPT
                  !.open = @ \cup {key}, !.bare = FALSE,
                  !.fed[key] = Append(@, piece),
                  !.got[key] = @ \o Restored(c, a),
                  !.held[key] = b]
    OBVIOUS
  <2>4. Chat(c, m)
    BY <2>1, <2>2, <2>3
  <2>5. piece \in Fragment
    BY <1>2 DEF Fragment
  <2>6. text \in Seq(Fragment) /\ text = lite[c].held[key] \o <<piece>> /\ <<piece>> \in Seq(Fragment)
        /\ Append(lite[c].fed[key], piece) = lite[c].fed[key] \o <<piece>>
    <3>1. lite[c].held[key] \in Seq(Fragment) /\ lite[c].fed[key] \in Seq(Fragment)
      BY <1>1, NumbersOf
    <3>. HIDE DEF piece
    <3>2. \A s \in Seq(Fragment) : Append(s, piece) \in Seq(Fragment) /\ Append(s, piece) = s \o <<piece>>
      BY <2>5, AppendProperties, AppendIsConcat
    <3>3. <<piece>> \in Seq(Fragment)
      BY <2>5
    <3>. QED
      BY <3>1, <3>2, <3>3
  <2>7. a \in Seq(Fragment) /\ b \in Seq(Fragment) /\ Ats(a) \o Ats(b) = Ats(text)
        /\ Ats(a) \in Seq(Nat) /\ Ats(b) \in Seq(Nat)
    BY <2>2, <2>6, PartsOfText
  <2>8. Restored(c, a) \in Seq(ShownTo(c)) /\ Ats(Restored(c, a)) = Ats(a)
    BY <2>7, RestoredIs
  <2>9. /\ Ats(<<piece>>) \in Seq(Nat)
        /\ Ats(text) = Ats(lite[c].held[key]) \o Ats(<<piece>>)
        /\ Ats(lite[c].fed[key] \o <<piece>>) = Ats(lite[c].fed[key]) \o Ats(<<piece>>)
    <3>1. lite[c].held[key] \in Seq(Fragment) /\ lite[c].fed[key] \in Seq(Fragment)
      BY <1>1, NumbersOf
    <3>. HIDE DEF piece
    <3>2. \A s \in Seq(Fragment) : Ats(s \o <<piece>>) = Ats(s) \o Ats(<<piece>>)
      BY <2>6, AtsOfJoin, FragmentsAreNumbered
    <3>3. Ats(<<piece>>) \in Seq(Nat)
      BY <2>6, AtsIs, FragmentsAreNumbered
    <3>. QED
      BY <2>6, <3>1, <3>2, <3>3
  <2>10. Ats(lite[c].got[key] \o Restored(c, a)) = Ats(lite[c].got[key]) \o Ats(a)
    <3>1. lite[c].got[key] \in Seq(ShownTo(c))
      BY <1>1, NumbersOf
    <3>2. \A s, t \in Seq(ShownTo(c)) : Ats(s \o t) = Ats(s) \o Ats(t)
      BY AtsOfJoin, FragmentsAreNumbered
    <3>. QED
      BY <2>8, <3>1, <3>2
  <2>. HIDE DEF piece, text
  <2>11. /\ lite[c].got[key] \o Restored(c, a) \in Seq(ShownTo(c))
         /\ lite[c].fed[key] \o <<piece>> \in Seq(Fragment)
    BY <1>1, <2>6, <2>8, NumbersOf, ConcatProperties
  <2>12. /\ m.fed = [lite[c].fed EXCEPT ![key] = lite[c].fed[key] \o <<piece>>]
         /\ m.got = [lite[c].got EXCEPT ![key] = lite[c].got[key] \o Restored(c, a)]
         /\ m.held = [lite[c].held EXCEPT ![key] = b]
         /\ m.chunk = lite[c].chunk /\ m.at = "reading" /\ m.shape = lite[c].shape /\ m.late = lite[c].late
         /\ m.closing = {} /\ m.lost = {} /\ m.closed = lite[c].closed
         /\ m.open = lite[c].open \cup {key} /\ m.bare = FALSE /\ m.raw = lite[c].raw /\ m.meta = lite[c].meta
         /\ IsChat(m)
    BY <1>1, <1>2, <2>3, <2>6 DEF ChatsOf, IsChat
  <2>13. m \in ChatsOf(c)
    <3>1. /\ m.fed \in [Channels -> Seq(Fragment)] /\ m.held \in [Channels -> Seq(Fragment)]
          /\ m.got \in [Channels -> Seq(ShownTo(c))]
      BY <1>1, <2>7, <2>11, <2>12, SMTT(30) DEF ChatsOf
    <3>2. /\ m.open \in SUBSET Channels /\ m.closed \in SUBSET Channels /\ m.late \in BOOLEAN
          /\ m.chunk \in [Channels -> Seq(ShownTo(c))] /\ m.shape \in {"whole"} \cup Streams
          /\ m.raw \in SUBSET {"own", "hidden"} /\ m.meta \in {Unnamed, Elsewhere, Reply(c)}
      BY <1>1, <2>12 DEF ChatsOf
    <3>. QED
      BY <2>12, <3>1, <3>2 DEF ChatsOf, IsChat, Underway
  <2>14. ASSUME NEW k \in Channels PROVE ChannelIsWhole(m, k)
    <3>1. ChannelIsWhole(lite[c], k) /\ lite[c].chunk[k] = <<>>
      BY <1>1, SilenceIs DEF IsFaithful
    <3>2. CASE k # key
      <4>1. m.fed[k] = lite[c].fed[k] /\ m.held[k] = lite[c].held[k] /\ m.got[k] = lite[c].got[k]
        BY <1>1, <2>12, <3>2 DEF ChatsOf
      <4>. QED
        BY <1>1, <1>2, <2>12, <3>1, <4>1 DEF ChannelIsWhole
    <3>3. CASE k = key
      <4>1. m.fed[k] = lite[c].fed[k] \o <<piece>> /\ m.held[k] = b /\ m.got[k] = lite[c].got[k] \o Restored(c, a)
        BY <1>1, <2>12, <3>3 DEF ChatsOf
      <4>2. Ats(lite[c].got[k]) \o Ats(lite[c].held[k]) = Ats(lite[c].fed[k])
        <5>1. (Ats(lite[c].got[k]) \o Ats(lite[c].chunk[k])) \o Ats(lite[c].held[k]) = Ats(lite[c].fed[k])
          BY <1>1, <1>2, <3>1 DEF ChannelIsWhole
        <5>2. Ats(lite[c].got[k]) \o Ats(lite[c].chunk[k]) = Ats(lite[c].got[k])
          BY <1>1, <3>1, EmptyAts, NumbersOf, SMTT(30)
        <5>. QED
          BY <5>1, <5>2
      <4>3. (Ats(lite[c].got[k]) \o Ats(a)) \o Ats(b) = (Ats(lite[c].got[k]) \o Ats(lite[c].held[k])) \o Ats(<<piece>>)
        <5>1. Ats(lite[c].got[k]) \in Seq(Nat) /\ Ats(lite[c].held[k]) \in Seq(Nat)
          BY <1>1, NumbersOf
        <5>2. Ats(lite[c].held[k]) \o Ats(<<piece>>) = Ats(a) \o Ats(b)
          BY <2>7, <2>9, <3>3
        <5>. QED
          <6>1. (Ats(lite[c].got[k]) \o Ats(a)) \o Ats(b) = Ats(lite[c].got[k]) \o (Ats(a) \o Ats(b))
            BY ONLY <2>7, <5>1, JoinIsAssociative
          <6>2. (Ats(lite[c].got[k]) \o Ats(lite[c].held[k])) \o Ats(<<piece>>)
                 = Ats(lite[c].got[k]) \o (Ats(lite[c].held[k]) \o Ats(<<piece>>))
            BY ONLY <2>9, <5>1, JoinIsAssociative
          <6>. QED
            BY ONLY <5>2, <6>1, <6>2, Zenon
      <4>4. Ats(m.got[k]) \o Ats(m.held[k]) = Ats(m.fed[k])
        BY <2>9, <2>10, <3>3, <4>1, <4>2, <4>3
      <4>5. m.chunk[k] = <<>> /\ Ats(m.got[k]) \o Ats(m.chunk[k]) = Ats(m.got[k])
        <5>1. Ats(m.got[k]) \in Seq(Nat)
          BY <2>13, NumbersOf
        <5>2. m.chunk[k] = <<>>
          BY <2>12, <3>1
        <5>. QED
          BY <5>1, <5>2, EmptyAts
      <4>. QED
        BY <1>2, <2>12, <3>3, <4>4, <4>5 DEF ChannelIsWhole
    <3>. QED
      BY <3>2, <3>3
  <2>15. IsFaithful(m)
    BY <1>1, <1>2, <2>12, <2>14 DEF IsFaithful, Underway, Streams
  <2>. QED
    BY <1>2, <2>4, <2>13, <2>15, OneChat, SameVaults
<1>. QED
  BY <1>3, <1>4

(* What a closing event makes a window give up waits for the chunk. *)
LEMMA FlushedIntoChunk ==
  ASSUME GuardrailInv, NEW c \in Chats, NEW key \in Channels, FlushesIntoChunk(c, key)
  PROVE  GuardrailInv'
<1>1. lite[c] \in ChatsOf(c) /\ IsFaithful(lite[c]) /\ lite[c].lost = {}
  BY ChatIs DEF FlushesIntoChunk
<1>2. /\ lite[c].at = "closing" /\ key \in lite[c].closing /\ lite[c].held[key] # <<>>
      /\ said' \in Nat /\ UNCHANGED <<tagged, shield, provider>>
  BY DEF FlushesIntoChunk, GuardrailInv
<1>3. lite[c].held[key] \in Seq(Fragment)
  BY <1>1, NumbersOf
<1>4. PICK r : r = Restored(c, lite[c].held[key])
  OBVIOUS
<1>5. r \in Seq(ShownTo(c)) /\ Ats(r) = Ats(lite[c].held[key])
  BY <1>3, <1>4, RestoredIs
<1>6. PICK m : m = [lite[c] EXCEPT !.chunk[key] = r, !.held[key] = <<>>]
  OBVIOUS
<1>7. Chat(c, m)
  BY <1>4, <1>6 DEF FlushesIntoChunk
<1>8. /\ m.fed = lite[c].fed /\ m.got = lite[c].got
      /\ m.chunk = [lite[c].chunk EXCEPT ![key] = r] /\ m.held = [lite[c].held EXCEPT ![key] = <<>>]
      /\ m.at = "closing" /\ m.shape = lite[c].shape /\ m.late = lite[c].late
      /\ m.closing = lite[c].closing /\ m.lost = {} /\ m.closed = lite[c].closed
      /\ m.open = lite[c].open /\ m.bare = lite[c].bare /\ m.raw = lite[c].raw /\ m.meta = lite[c].meta
      /\ IsChat(m)
  BY <1>1, <1>2, <1>6 DEF ChatsOf, IsChat
<1>9. m \in ChatsOf(c)
  <2>1. /\ m.fed \in [Channels -> Seq(Fragment)] /\ m.held \in [Channels -> Seq(Fragment)]
        /\ m.got \in [Channels -> Seq(ShownTo(c))] /\ m.chunk \in [Channels -> Seq(ShownTo(c))]
    BY <1>1, <1>5, <1>8, EmptySeq DEF ChatsOf
  <2>2. /\ m.open \in SUBSET Channels /\ m.closed \in SUBSET Channels /\ m.late \in BOOLEAN
        /\ m.closing \in SUBSET Channels /\ m.bare \in BOOLEAN /\ m.shape \in {"whole"} \cup Streams
        /\ m.raw \in SUBSET {"own", "hidden"} /\ m.meta \in {Unnamed, Elsewhere, Reply(c)}
    BY <1>1, <1>8 DEF ChatsOf
  <2>. QED
    BY <1>8, <2>1, <2>2 DEF ChatsOf, IsChat, Underway
<1>10. ASSUME NEW k \in Channels PROVE ChannelIsWhole(m, k)
  <2>1. ChannelIsWhole(lite[c], k)
    BY <1>1 DEF IsFaithful
  <2>2. CASE k # key
    <3>1. m.held[k] = lite[c].held[k] /\ m.chunk[k] = lite[c].chunk[k]
      BY <1>1, <1>8, <2>2 DEF ChatsOf
    <3>. QED
      BY <1>1, <1>2, <1>8, <2>1, <3>1 DEF ChannelIsWhole
  <2>3. CASE k = key
    <3>1. m.held[k] = <<>> /\ m.chunk[k] = r /\ lite[c].chunk[k] = <<>>
      BY <1>1, <1>2, <1>8, <2>1, <2>3 DEF ChatsOf, ChannelIsWhole
    <3>2. (Ats(lite[c].got[k]) \o Ats(lite[c].chunk[k])) \o Ats(lite[c].held[k]) = Ats(lite[c].fed[k])
      BY <1>1, <1>2, <2>1 DEF ChannelIsWhole
    <3>3. Ats(lite[c].got[k]) \in Seq(Nat) /\ Ats(lite[c].held[k]) \in Seq(Nat)
      BY <1>1, NumbersOf
    <3>4. Ats(lite[c].got[k]) \o Ats(lite[c].held[k]) = Ats(lite[c].fed[k])
      BY <3>1, <3>2, <3>3, EmptyAts
    <3>5. Ats(m.got[k]) \o Ats(m.chunk[k]) = Ats(m.fed[k])
      BY <1>5, <1>8, <2>3, <3>1, <3>4
    <3>6. (Ats(m.got[k]) \o Ats(m.chunk[k])) \o Ats(m.held[k]) = Ats(m.fed[k])
      <4>1. Ats(m.fed[k]) \in Seq(Nat)
        BY <1>9, NumbersOf
      <4>. QED
        BY <3>1, <3>5, <4>1, EmptyAts
    <3>. QED
      BY <1>2, <1>8, <2>3, <3>1, <3>6 DEF ChannelIsWhole
  <2>. QED
    BY <2>2, <2>3
<1>11. lite[c].shape # "whole"
  BY <1>1, <1>2, SilenceIs DEF IsFaithful
<1>12. IsFaithful(m)
  BY <1>1, <1>8, <1>10, <1>11 DEF IsFaithful, Underway
<1>. QED
  BY <1>2, <1>7, <1>9, <1>12, OneChat, SameVaults

LEMMA ChunkDelivered ==
  ASSUME GuardrailInv, NEW c \in Chats, DeliversChunk(c)
  PROVE  GuardrailInv'
<1>1. lite[c] \in ChatsOf(c) /\ IsFaithful(lite[c]) /\ lite[c].lost = {}
  BY ChatIs DEF DeliversChunk
<1>2. /\ lite[c].at = "closing" /\ \A k \in lite[c].closing : lite[c].held[k] = <<>>
      /\ said' \in Nat /\ UNCHANGED <<tagged, shield, provider>>
  BY DEF DeliversChunk, GuardrailInv
<1>3. PICK open : open = IF lite[c].shape = "chat" THEN lite[c].open ELSE lite[c].open \ lite[c].closing
  OBVIOUS
<1>4. PICK got : got = [k \in Channels |-> lite[c].got[k] \o lite[c].chunk[k]]
  OBVIOUS
<1>5. PICK m : m = [lite[c] EXCEPT
       !.at = "reading", !.closing = {}, !.chunk = Silence, !.got = got,
       !.closed = lite[c].closed \cup lite[c].closing, !.open = open]
  OBVIOUS
<1>6. Chat(c, m)
  BY <1>1, <1>3, <1>4, <1>5 DEF DeliversChunk, ChatsOf
<1>7. /\ m.fed = lite[c].fed /\ m.got = got /\ m.chunk = Silence /\ m.held = lite[c].held
      /\ m.at = "reading" /\ m.shape = lite[c].shape /\ m.late = lite[c].late
      /\ m.closing = {} /\ m.lost = {} /\ m.closed = lite[c].closed \cup lite[c].closing
      /\ m.open = open /\ m.bare = lite[c].bare /\ m.raw = lite[c].raw /\ m.meta = lite[c].meta
      /\ IsChat(m)
  BY <1>1, <1>5 DEF ChatsOf, IsChat
<1>8. m \in ChatsOf(c)
  <2>1. got \in [Channels -> Seq(ShownTo(c))]
    <3>1. \A k \in Channels : lite[c].got[k] \o lite[c].chunk[k] \in Seq(ShownTo(c))
      BY <1>1, NumbersOf, ConcatProperties
    <3>. QED
      BY <1>4, <3>1
  <2>2. /\ m.fed \in [Channels -> Seq(Fragment)] /\ m.held \in [Channels -> Seq(Fragment)]
        /\ m.got \in [Channels -> Seq(ShownTo(c))] /\ m.chunk \in [Channels -> Seq(ShownTo(c))]
    BY <1>1, <1>7, <2>1, SilenceIs DEF ChatsOf
  <2>3. /\ m.open \in SUBSET Channels /\ m.closed \in SUBSET Channels /\ m.late \in BOOLEAN
        /\ m.closing \in SUBSET Channels /\ m.bare \in BOOLEAN /\ m.shape \in {"whole"} \cup Streams
        /\ m.raw \in SUBSET {"own", "hidden"} /\ m.meta \in {Unnamed, Elsewhere, Reply(c)}
    BY <1>1, <1>3, <1>7 DEF ChatsOf
  <2>. QED
    BY <1>7, <2>2, <2>3 DEF ChatsOf, IsChat, Underway
<1>9. ASSUME NEW k \in Channels PROVE ChannelIsWhole(m, k)
  <2>1. ChannelIsWhole(lite[c], k)
    BY <1>1 DEF IsFaithful
  <2>2. m.chunk[k] = <<>> /\ m.got[k] = lite[c].got[k] \o lite[c].chunk[k]
    BY <1>4, <1>7, SilenceIs
  <2>3. Ats(m.got[k]) = Ats(lite[c].got[k]) \o Ats(lite[c].chunk[k])
    <3>1. lite[c].got[k] \in Seq(ShownTo(c)) /\ lite[c].chunk[k] \in Seq(ShownTo(c))
      BY <1>1, NumbersOf
    <3>2. \A s, t \in Seq(ShownTo(c)) : Ats(s \o t) = Ats(s) \o Ats(t)
      BY AtsOfJoin, FragmentsAreNumbered
    <3>. QED
      BY <2>2, <3>1, <3>2
  <2>4. (Ats(lite[c].got[k]) \o Ats(lite[c].chunk[k])) \o Ats(lite[c].held[k]) = Ats(lite[c].fed[k])
    BY <1>1, <1>2, <2>1 DEF ChannelIsWhole
  <2>5. Ats(m.got[k]) \in Seq(Nat)
    BY <1>8, NumbersOf
  <2>6. (Ats(m.got[k]) \o Ats(m.chunk[k])) \o Ats(m.held[k]) = Ats(m.fed[k])
    BY <1>7, <2>2, <2>3, <2>4, <2>5, EmptyAts
  <2>. QED
    BY <1>1, <1>2, <1>7, <2>1, <2>2, <2>6 DEF ChannelIsWhole
<1>10. lite[c].shape = "whole" => m.fed = Silence /\ m.held = Silence /\ m.got = Silence
  <2>1. ASSUME lite[c].shape = "whole" PROVE got = Silence
    <3>1. lite[c].got = Silence /\ lite[c].chunk = Silence
      BY <1>1, <1>2, <2>1 DEF IsFaithful
    <3>2. \A k \in Channels : lite[c].got[k] \o lite[c].chunk[k] = <<>>
      BY <3>1, SilenceIs
    <3>. QED
      BY <1>4, <3>2 DEF Silence
  <2>. QED
    BY <1>1, <1>2, <1>7, <2>1 DEF IsFaithful
<1>11. IsFaithful(m)
  BY <1>1, <1>7, <1>9, <1>10 DEF IsFaithful, Underway
<1>. QED
  BY <1>2, <1>6, <1>8, <1>11, OneChat, SameVaults

(* The net below: the rest of a window, or its loss. *)
LEMMA TrailingFlushed ==
  ASSUME GuardrailInv, NEW c \in Chats, NEW key \in Channels, FlushesTrailing(c, key)
  PROVE  GuardrailInv'
<1>1. lite[c] \in ChatsOf(c) /\ IsFaithful(lite[c]) /\ lite[c].chunk = Silence /\ lite[c].closing = {}
  BY ChatIs DEF FlushesTrailing
<1>2. /\ lite[c].at = "ending" /\ lite[c].held[key] # <<>>
      /\ said' \in Nat /\ UNCHANGED <<tagged, shield, provider>>
  BY DEF FlushesTrailing, GuardrailInv
<1>3. lite[c].held[key] \in Seq(Fragment) /\ lite[c].got[key] \in Seq(ShownTo(c))
  BY <1>1, NumbersOf
<1>4. PICK r : r = Restored(c, lite[c].held[key])
  OBVIOUS
<1>5. r \in Seq(ShownTo(c)) /\ Ats(r) = Ats(lite[c].held[key])
  BY <1>3, <1>4, RestoredIs
<1>6. \A k \in Channels : ChannelIsWhole(lite[c], k)
  BY <1>1 DEF IsFaithful
<1>7. key \notin lite[c].closed /\ key \notin lite[c].lost
  BY <1>2, <1>6 DEF ChannelIsWhole
<1>8. PICK got \in {lite[c].got[key], lite[c].got[key] \o r}, lost \in {lite[c].lost, lite[c].lost \cup {key}} :
        /\ \/ got = lite[c].got[key] \o r /\ lost = lite[c].lost
           \/ got = lite[c].got[key] /\ lost = lite[c].lost \cup {key}
        /\ Chat(c, [lite[c] EXCEPT !.held[key] = <<>>, !.got[key] = got, !.lost = lost])
  <2>1. CASE lite[c].bare
    <3>1. [lite[c] EXCEPT !.held[key] = <<>>, !.lost = @ \cup {key}]
           = [lite[c] EXCEPT !.held[key] = <<>>, !.got[key] = lite[c].got[key], !.lost = lite[c].lost \cup {key}]
      BY <1>1 DEF ChatsOf
    <3>. QED
      BY <2>1, <3>1 DEF FlushesTrailing
  <2>2. CASE ~lite[c].bare
    <3>1. lite[c].late = FALSE /\ (lite[c].late \/ key \in lite[c].closed) = FALSE
      BY <1>1, <1>7 DEF IsFaithful, ChatsOf
    <3>2. [lite[c] EXCEPT !.held[key] = <<>>, !.got[key] = @ \o r, !.late = @ \/ key \in lite[c].closed]
           = [lite[c] EXCEPT !.held[key] = <<>>, !.got[key] = lite[c].got[key] \o r, !.lost = lite[c].lost]
      BY <1>1, <3>1 DEF ChatsOf
    <3>3. Chat(c, [lite[c] EXCEPT !.held[key] = <<>>, !.got[key] = @ \o Restored(c, lite[c].held[key]),
                                  !.late = @ \/ key \in lite[c].closed])
      BY <2>2, Zenon DEF FlushesTrailing
    <3>4. Chat(c, [lite[c] EXCEPT !.held[key] = <<>>, !.got[key] = lite[c].got[key] \o r, !.lost = lite[c].lost])
      BY <1>4, <3>2, <3>3
    <3>. QED
      BY <3>4
  <2>. QED
    BY <2>1, <2>2
<1>9. PICK m : m = [lite[c] EXCEPT !.held[key] = <<>>, !.got[key] = got, !.lost = lost]
  OBVIOUS
<1>10. /\ m.fed = lite[c].fed /\ m.chunk = Silence
       /\ m.got = [lite[c].got EXCEPT ![key] = got] /\ m.held = [lite[c].held EXCEPT ![key] = <<>>]
       /\ m.at = "ending" /\ m.shape = lite[c].shape /\ m.late = lite[c].late
       /\ m.closing = {} /\ m.lost = lost /\ m.closed = lite[c].closed
       /\ m.open = lite[c].open /\ m.bare = lite[c].bare /\ m.raw = lite[c].raw /\ m.meta = lite[c].meta
       /\ IsChat(m)
  BY <1>1, <1>2, <1>9 DEF ChatsOf, IsChat
<1>11. m \in ChatsOf(c)
  <2>1. got \in Seq(ShownTo(c))
    <3>1. lite[c].got[key] \o r \in Seq(ShownTo(c))
      BY <1>3, <1>5, ConcatProperties
    <3>. QED
      BY <1>3, <1>8, <3>1
  <2>2. /\ m.fed \in [Channels -> Seq(Fragment)] /\ m.held \in [Channels -> Seq(Fragment)]
        /\ m.got \in [Channels -> Seq(ShownTo(c))] /\ m.chunk \in [Channels -> Seq(ShownTo(c))]
    BY <1>1, <1>10, <2>1, SilenceIs, EmptySeq DEF ChatsOf
  <2>3. /\ m.open \in SUBSET Channels /\ m.closed \in SUBSET Channels /\ m.late \in BOOLEAN
        /\ m.closing \in SUBSET Channels /\ m.bare \in BOOLEAN /\ m.shape \in {"whole"} \cup Streams
        /\ m.raw \in SUBSET {"own", "hidden"} /\ m.meta \in {Unnamed, Elsewhere, Reply(c)}
        /\ m.lost \in SUBSET Channels
    BY <1>1, <1>8, <1>10, ZenonT(60) DEF ChatsOf
  <2>. QED
    BY <1>10, <2>2, <2>3 DEF ChatsOf, IsChat, Underway
<1>12. ASSUME NEW k \in Channels PROVE ChannelIsWhole(m, k)
  <2>1. ChannelIsWhole(lite[c], k)
    BY <1>6
  <2>2. CASE k # key
    <3>1. m.held[k] = lite[c].held[k] /\ m.got[k] = lite[c].got[k] /\ (k \in m.lost <=> k \in lite[c].lost)
      BY <1>1, <1>8, <1>10, <2>2 DEF ChatsOf
    <3>. QED
      BY <1>1, <1>2, <1>10, <2>1, <3>1 DEF ChannelIsWhole
  <2>3. CASE k = key
    <3>1. m.held[k] = <<>> /\ m.chunk[k] = <<>> /\ lite[c].chunk[k] = <<>> /\ m.got[k] = got
      BY <1>1, <1>10, <2>3, SilenceIs DEF ChatsOf
    <3>2. (Ats(lite[c].got[k]) \o Ats(lite[c].chunk[k])) \o Ats(lite[c].held[k]) = Ats(lite[c].fed[k])
      BY <1>2, <1>7, <2>1, <2>3 DEF ChannelIsWhole
    <3>3. Ats(lite[c].got[k]) \in Seq(Nat) /\ Ats(lite[c].held[k]) \in Seq(Nat) /\ Ats(m.fed[k]) \in Seq(Nat)
      BY <1>1, <1>11, NumbersOf
    <3>4. Ats(lite[c].got[k]) \o Ats(lite[c].held[k]) = Ats(m.fed[k])
      <4>1. Ats(lite[c].got[k]) \o Ats(lite[c].chunk[k]) = Ats(lite[c].got[k])
        BY <3>1, <3>3, EmptyAts
      <4>. QED
        BY <1>10, <3>2, <4>1
    <3>5. CASE got = lite[c].got[key] \o r /\ lost = lite[c].lost
      <4>1. \A s, t \in Seq(ShownTo(c)) : Ats(s \o t) = Ats(s) \o Ats(t)
        BY AtsOfJoin, FragmentsAreNumbered
      <4>2. Ats(m.got[k]) = Ats(m.fed[k])
        BY <1>3, <1>5, <2>3, <3>1, <3>4, <3>5, <4>1
      <4>3. (Ats(m.got[k]) \o Ats(m.chunk[k])) \o Ats(m.held[k]) = Ats(m.fed[k])
        BY <3>1, <3>3, <4>2, EmptyAts
      <4>. QED
        BY <1>7, <1>10, <2>3, <3>1, <3>5, <4>3 DEF ChannelIsWhole
    <3>6. CASE got = lite[c].got[key] /\ lost = lite[c].lost \cup {key}
      <4>1. Begins(Ats(m.got[k]), Ats(m.fed[k]))
        BY <2>3, <3>1, <3>3, <3>4, <3>6, BeginningOfJoin
      <4>. QED
        BY <1>10, <2>3, <3>1, <3>6, <4>1 DEF ChannelIsWhole
    <3>. QED
      BY <1>8, <3>5, <3>6
  <2>. QED
    BY <2>2, <2>3
<1>13. lite[c].shape # "whole"
  BY <1>1, <1>2, SilenceIs DEF IsFaithful
<1>14. IsFaithful(m)
  BY <1>1, <1>10, <1>12, <1>13 DEF IsFaithful, Underway
<1>. QED
  BY <1>2, <1>8, <1>9, <1>11, <1>14, OneChat, SameVaults

LEMMA ReplyDone ==
  ASSUME GuardrailInv, NEW c \in Chats, IsDone(c)
  PROVE  GuardrailInv'
<1>1. lite[c] \in ChatsOf(c) /\ IsFaithful(lite[c]) /\ lite[c].chunk = Silence /\ lite[c].closing = {}
  BY ChatIs DEF IsDone
<1>2. /\ lite[c].at = "ending" /\ lite[c].held = Silence
      /\ said' \in Nat /\ UNCHANGED <<tagged, shield, provider>>
  BY DEF IsDone, GuardrailInv
<1>3. PICK m : m = [lite[c] EXCEPT !.at = "over"]
  OBVIOUS
<1>4. Chat(c, m)
  BY <1>3 DEF IsDone, Gets
<1>5. /\ SameTexts(lite[c], m) /\ m.at = "over" /\ m.shape = lite[c].shape /\ m.closing = {}
      /\ m.bare = lite[c].bare /\ m.raw = lite[c].raw /\ m.meta = lite[c].meta /\ IsChat(m)
  BY <1>1, <1>3 DEF ChatsOf, IsChat, SameTexts
<1>6. m \in ChatsOf(c)
  BY <1>1, <1>3 DEF ChatsOf, Underway
<1>7. ASSUME NEW k \in Channels PROVE ChannelIsWhole(m, k)
  <2>1. ChannelIsWhole(lite[c], k) /\ m.held[k] = <<>> /\ m.chunk[k] = <<>>
    BY <1>1, <1>2, <1>5, SilenceIs DEF IsFaithful, SameTexts
  <2>. QED
    BY <1>2, <1>5, <2>1 DEF ChannelIsWhole, SameTexts
<1>8. IsFaithful(m)
  BY <1>1, <1>5, <1>7 DEF IsFaithful, Underway, SameTexts
<1>. QED
  BY <1>2, <1>4, <1>6, <1>8, OneChat, SameVaults

-----------------------------------------------------------------------------
LEMMA GuardrailBegins == LInit => GuardrailInv
<1>. SUFFICES ASSUME LInit PROVE GuardrailInv
  OBVIOUS
<1>1. VaultsAreOwn
  BY GuardrailAssumption DEF LInit, VaultsAreOwn, Unused, Reply, Elsewhere
<1>2. lite = [c \in Chats |-> NewChat]
  BY DEF LInit
<1>3. ASSUME NEW c \in Chats PROVE NewChat \in ChatsOf(c)
  BY SilenceIs DEF NewChat, ChatsOf
<1>4. ASSUME NEW k \in Channels PROVE ChannelIsWhole(NewChat, k)
  <2>1. NewChat.held[k] = <<>> /\ NewChat.chunk[k] = <<>> /\ NewChat.got[k] = <<>> /\ NewChat.fed[k] = <<>>
    BY SilenceIs DEF NewChat
  <2>2. (Ats(<<>>) \o Ats(<<>>)) \o Ats(<<>>) = Ats(<<>>)
    BY EmptyAts, EmptySeq
  <2>. QED
    BY <2>1, <2>2 DEF ChannelIsWhole, NewChat
<1>5. IsFaithful(NewChat)
  BY <1>4 DEF IsFaithful, NewChat
<1>. QED
  BY <1>1, <1>2, <1>3, <1>5 DEF GuardrailInv, LInit

LEMMA GuardrailGoesOn == GuardrailInv /\ [LNext]_lvars => GuardrailInv'
<1>. SUFFICES ASSUME GuardrailInv, [LNext]_lvars PROVE GuardrailInv'
  OBVIOUS
<1>1. CASE UNCHANGED lvars
  BY <1>1 DEF lvars, GuardrailInv, VaultsAreOwn
<1>2. ASSUME NEW c \in Chats,
             Posts(c) \/ Mints(c) \/ RedactsHidden(c) \/ RedactsOwn(c) \/ RedactsAll(c) \/ GoesOut(c)
      PROVE  GuardrailInv'
  BY <1>2, BeforeTheCall
<1>3. ASSUME NEW c \in Chats, BareChunk(c) \/ Closes(c) \/ UpstreamEnds(c) PROVE GuardrailInv'
  BY <1>3, StreamGoesOn
<1>4. ASSUME NEW c \in Chats, RedactFails(c) \/ ReplyFails(c) PROVE GuardrailInv'
  BY <1>4, Fails
<1>. QED
  BY <1>1, <1>2, <1>3, <1>4, Forgotten, RepliesWhole, DeltaRestored, FlushedIntoChunk, ChunkDelivered,
     TrailingFlushed, ReplyDone DEF LNext

LEMMA GuardrailInvSuffices == GuardrailInv => GuardrailIsFaithful
<1>. SUFFICES ASSUME GuardrailInv PROVE GuardrailIsFaithful
  OBVIOUS
<1>1. ASSUME NEW c \in Chats, NEW k \in Channels, NEW i \in 1 .. Len(lite[c].got[k])
      PROVE  lite[c].got[k][i].shown \in {"as it came", "own of " \o c}
  <2>1. lite[c].got[k] \in Seq(ShownTo(c))
    BY ChatIs, NumbersOf
  <2>2. lite[c].got[k][i] \in ShownTo(c)
    BY <2>1, ElementOfSeq
  <2>. QED
    BY <2>2 DEF ShownTo, OwnOf
<1>2. ASSUME NEW c \in Chats, NEW k \in Channels
      PROVE  /\ ~lite[c].late
             /\ k \in lite[c].closed => lite[c].held[k] = <<>>
             /\ Begins(Received(c, k), Told(c, k))
             /\ lite[c].at = "over" /\ k \notin lite[c].lost => Received(c, k) = Told(c, k)
  <2>1. lite[c] \in ChatsOf(c) /\ ChannelIsWhole(lite[c], k) /\ ~lite[c].late
    BY ChatIs DEF IsFaithful
  <2>2. Received(c, k) = Ats(lite[c].got[k]) /\ Told(c, k) = Ats(lite[c].fed[k])
    BY DEF Received, Told, Ats
  <2>3. Begins(Received(c, k), Told(c, k))
    BY <2>1, <2>2, GotBegins
  <2>4. ASSUME lite[c].at = "over", k \notin lite[c].lost PROVE Received(c, k) = Told(c, k)
    <3>1. lite[c].held[k] = <<>> /\ lite[c].chunk[k] = <<>>
      BY <2>1, <2>4 DEF ChannelIsWhole
    <3>2. (Ats(lite[c].got[k]) \o Ats(lite[c].chunk[k])) \o Ats(lite[c].held[k]) = Ats(lite[c].fed[k])
      BY <2>1, <2>4 DEF ChannelIsWhole
    <3>3. Ats(lite[c].got[k]) \in Seq(Nat)
      BY <2>1, NumbersOf
    <3>. QED
      BY <2>2, <3>1, <3>2, <3>3, EmptyAts
  <2>. QED
    BY <2>1, <2>3, <2>4 DEF ChannelIsWhole
<1>3. ValuesComeHome
  BY <1>1 DEF GuardrailInv, ValuesComeHome
<1>4. RepliesAreWhole
  BY <1>2 DEF RepliesAreWhole, Begins, Channels
<1>. QED
  BY <1>3, <1>4 DEF GuardrailIsFaithful

(* However many chats run beside one another, whatever ids their callers   *)
(* supply and vaults are forgotten, no raw value reaches the provider, a   *)
(* caller is shown its own values only, and each channel of a reply is     *)
(* restored whole and in order before the event that ends it.              *)
THEOREM GuardrailStaysFaithful == LSpec => []GuardrailIsFaithful
<1>. QED
  BY GuardrailBegins, GuardrailGoesOn, GuardrailInvSuffices, PTL DEF LSpec

(***************************************************************************)
(* A run of the streaming profile of the benchmark (PartitionRun).  The    *)
(* partitions of a case are answered one by one from the first, its tally  *)
(* leaks exactly when an answer to it showed the value, and what is kept   *)
(* of a case that is over says the same of it.                             *)
(***************************************************************************)
CaseOf == [arm : {"single_chunk", "adversarial"}, length : Nat \ {0}]
Leaks == [Labels -> Nat]

ResultTypes ==
  [arm : {"single_chunk", "adversarial"}, inconclusive : BOOLEAN, leaked : Leaks, injectionLeaked : BOOLEAN,
   attempted : SUBSET Families, capped : SUBSET Families, observable : BOOLEAN, restored : BOOLEAN,
   tried : Nat, answered : Nat, recorded : Nat]

RunTypes ==
  /\ oracle \in Oracles /\ bodies \in Nat
  /\ case \in Nat \ {0} /\ point \in Nat \ {0} /\ case <= Len(Cases) + 1
  /\ turn \in {"probe", "attempt", "aborted", "report", "done"}
  /\ tally \in [leaked : Leaks, error : BOOLEAN, site : BOOLEAN, restored : BOOLEAN, answered : Nat]
  /\ results \in Seq(ResultTypes) /\ Len(results) = case - 1

PartitionsInOrder ==
  /\ turn = "probe" => point = 1 /\ tally.answered = 0
  /\ turn = "attempt" =>
       case <= Len(Cases) /\ point <= Len(Points) + 1 /\ tally.answered = point - 1

LeaksWereSeen ==
  /\ \A s \in seen : s[1] \in 1 .. case
  /\ (\E f \in Labels : tally.leaked[f] > 0) <=> HasShown(case)

ResultsAreTrue ==
  \A k \in 1 .. Len(results) :
    /\ ~results[k].inconclusive => results[k].answered = results[k].tried /\ results[k].recorded > 0
    /\ results[k].injectionLeaked <=> \E f \in Labels : results[k].leaked[f] > 0
    /\ results[k].injectionLeaked <=> HasShown(k)
    /\ results[k].tried = Len(InjectionPartitions(Cases[k]))
    /\ results[k].attempted = {f \in Families : Attempted(Cases[k], f) > 0}

ReportIsOfResults ==
  turn = "done" =>
    /\ report.outcome = DeriveOutcome(\E k \in Applicable : results[k].injectionLeaked)
    /\ report.worst = WorstCase

PartitionInv == RunTypes /\ PartitionsInOrder /\ LeaksWereSeen /\ ResultsAreTrue /\ ReportIsOfResults

-----------------------------------------------------------------------------
LEMMA SizeOfFamily ==
  ASSUME NEW c \in CaseOf, NEW f \in Families
  PROVE  FamilySize(c, f) \in Nat
<1>1. c.length \in Nat /\ c.length >= 1
  BY DEF CaseOf
<1>2. CASE f = "exhaustive-2-part"
  BY <1>1, <1>2 DEF FamilySize
<1>3. CASE f # "exhaustive-2-part"
  <2>. DEFINE n == c.length
  <2>1. CASE n = 1
    BY <1>3, <2>1 DEF FamilySize
  <2>2. CASE n >= 2
    <3>1. \A a, b \in Nat : a * b \in Nat
      OBVIOUS
    <3>2. n - 1 \in Nat /\ n - 2 \in Nat
      BY <1>1, <2>2
    <3>3. (n - 1) * (n - 2) \in Nat
      BY <3>1, <3>2
    <3>4. \A p \in Nat : p \div 2 \in Nat
      OBVIOUS
    <3>. QED
      BY <1>3, <3>3, <3>4 DEF FamilySize
  <2>. QED
    BY <1>1, <2>1, <2>2
<1>. QED
  BY <1>2, <1>3

LEMMA RepeatedIs ==
  ASSUME NEW n \in Nat, NEW f \in Labels
  PROVE  Repeated(n, f) \in Seq(Labels) /\ Len(Repeated(n, f)) = n
<1>1. Repeated(n, f) \in [1 .. n -> Labels]
  BY DEF Repeated
<1>. QED
  BY <1>1

(* A family that was tried was tried whole. *)
LEMMA PartitionsAre ==
  ASSUME NEW c \in CaseOf
  PROVE  /\ InjectionPartitions(c) \in Seq(Labels)
         /\ \A f \in Families :
              Attempted(c, f) > 0 => Len(InjectionPartitions(c)) >= FamilySize(c, f)
<1>1. CASE c.arm = "single_chunk"
  <2>1. InjectionPartitions(c) = <<"uncut">>
    BY <1>1 DEF InjectionPartitions
  <2>2. "uncut" \in Labels
    BY DEF Labels
  <2>3. \A f \in Families : Attempted(c, f) = 0
    BY <1>1 DEF Attempted
  <2>. QED
    BY <2>1, <2>2, <2>3
<1>2. CASE c.arm # "single_chunk"
  <2>. DEFINE a == Attempted(c, "midpoint")
              b == Attempted(c, "exhaustive-2-part")
              d == Attempted(c, "exhaustive-3-part")
              u == Repeated(a, "midpoint")
              v == Repeated(b, "exhaustive-2-part")
              w == Repeated(d, "exhaustive-3-part")
  <2>1. \A f \in Families : Attempted(c, f) \in {0, FamilySize(c, f)} /\ FamilySize(c, f) \in Nat
    BY SizeOfFamily DEF Attempted, Families
  <2>2. a \in Nat /\ b \in Nat /\ d \in Nat
    <3>1. a \in {0, 1}
      BY DEF Attempted
    <3>. QED
      BY <2>1, <3>1 DEF Families
  <2>3. "midpoint" \in Labels /\ "exhaustive-2-part" \in Labels /\ "exhaustive-3-part" \in Labels
    BY DEF Labels, Families
  <2>4. u \in Seq(Labels) /\ v \in Seq(Labels) /\ w \in Seq(Labels) /\ Len(u) = a /\ Len(v) = b /\ Len(w) = d
    BY <2>2, <2>3, RepeatedIs
  <2>5. InjectionPartitions(c) = (u \o v) \o w
    BY <1>2 DEF InjectionPartitions
  <2>. HIDE DEF u, v, w
  <2>6. u \o v \in Seq(Labels) /\ Len(u \o v) = a + b
    BY <2>4, ConcatProperties
  <2>7. (u \o v) \o w \in Seq(Labels) /\ Len((u \o v) \o w) = (a + b) + d
    <3>1. PICK x : x = u \o v
      OBVIOUS
    <3>2. x \in Seq(Labels) /\ Len(x) = a + b
      BY <2>6, <3>1
    <3>3. x \o w \in Seq(Labels) /\ Len(x \o w) = Len(x) + Len(w)
      BY <2>4, <3>2, ConcatProperties
    <3>. QED
      BY <2>4, <3>1, <3>2, <3>3
  <2>. HIDE DEF a, b, d
  <2>8. ASSUME NEW f \in Families, Attempted(c, f) > 0 PROVE (a + b) + d >= FamilySize(c, f)
    <3>1. Attempted(c, f) = FamilySize(c, f) /\ Attempted(c, f) \in {b, d}
      BY <2>1, <2>8 DEF Families, b, d
    <3>. QED
      BY <2>2, <3>1
  <2>. QED
    BY <2>5, <2>7, <2>8
<1>. QED
  BY <1>1, <1>2

LEMMA PointsAre ==
  ASSUME RunTypes, case <= Len(Cases)
  PROVE  Cases[case] \in CaseOf /\ Points \in Seq(Labels)
<1>1. Cases[case] \in CaseOf
  <2>1. Cases \in Seq(CaseOf)
    BY PartitionAssumption DEF CaseOf
  <2>2. Len(Cases) \in Nat /\ case \in 1 .. Len(Cases)
    BY <2>1 DEF RunTypes
  <2>. QED
    BY <2>1, <2>2, ElementOfSeq
<1>. QED
  BY <1>1, PartitionsAre DEF Points

LEMMA PartitionsBegin == PRInit => PartitionInv
<1>. SUFFICES ASSUME PRInit PROVE PartitionInv
  OBVIOUS
<1>1. Len(Cases) \in Nat
  BY PartitionAssumption
<1>2. NoTally \in [leaked : Leaks, error : BOOLEAN, site : BOOLEAN, restored : BOOLEAN, answered : Nat]
      /\ NoTally.answered = 0 /\ \A f \in Labels : NoTally.leaked[f] = 0
  BY DEF NoTally, Leaks
<1>3. RunTypes
  BY <1>1, <1>2 DEF PRInit, RunTypes
<1>. QED
  BY <1>2, <1>3 DEF PRInit, PartitionInv, PartitionsInOrder, LeaksWereSeen, ResultsAreTrue, ReportIsOfResults, HasShown

(* A step within a case. *)
LEMMA WithinCase ==
  ASSUME PartitionInv, UNCHANGED <<oracle, case, results>>, turn' # "done", RunTypes', PartitionsInOrder',
         UNCHANGED seen \/ seen' = seen \cup {<<case, point>>}, LeaksWereSeen'
  PROVE  PartitionInv'
<1>1. ReportIsOfResults'
  BY DEF ReportIsOfResults
<1>2. ASSUME NEW k \in 1 .. Len(results) PROVE HasShown(k)' <=> HasShown(k)
  <2>1. k # case
    BY DEF PartitionInv, RunTypes
  <2>. QED
    BY <2>1 DEF HasShown
<1>3. \A k \in 1 .. Len(results) : \A f : (Attempted(Cases[k], f))' = Attempted(Cases[k], f)
  BY DEF Attempted, Wanted, Capped
<1>4. \A k \in 1 .. Len(results) : (InjectionPartitions(Cases[k]))' = InjectionPartitions(Cases[k])
  BY <1>3 DEF InjectionPartitions
<1>5. ResultsAreTrue'
  BY <1>2, <1>3, <1>4 DEF PartitionInv, ResultsAreTrue
<1>. QED
  BY <1>1, <1>5 DEF PartitionInv

LEMMA ProbeStep ==
  ASSUME PartitionInv, SelfProbe
  PROVE  PartitionInv'
<1>1. /\ turn = "probe" /\ case <= Len(Cases) /\ turn' \in {"attempt", "aborted"} /\ bodies' = 0
      /\ UNCHANGED <<oracle, case, point, tally, results, seen>>
  BY DEF SelfProbe, Run
<1>2. RunTypes'
  BY <1>1 DEF PartitionInv, RunTypes
<1>3. Points' = Points
  BY <1>1 DEF Points, InjectionPartitions, Attempted, Wanted, Capped
<1>4. Points \in Seq(Labels)
  BY <1>1, PointsAre DEF PartitionInv
<1>5. PartitionsInOrder'
  BY <1>1, <1>3, <1>4 DEF PartitionInv, PartitionsInOrder
<1>6. LeaksWereSeen'
  BY <1>1 DEF PartitionInv, LeaksWereSeen, HasShown
<1>. QED
  BY <1>1, <1>2, <1>5, <1>6, WithinCase

LEMMA ProviderStep ==
  ASSUME PartitionInv, Responds \/ TransportFails
  PROVE  PartitionInv'
<1>1. /\ turn = "attempt" /\ point <= Len(Points) /\ ~tally.error /\ bodies' \in {bodies, bodies + 1}
      /\ UNCHANGED <<oracle, case, point, results, seen, turn>>
  BY DEF Responds, TransportFails, Trying, Run
<1>2. /\ tally' \in [leaked : Leaks, error : BOOLEAN, site : BOOLEAN, restored : BOOLEAN, answered : Nat]
      /\ tally'.leaked = tally.leaked /\ tally'.answered = tally.answered
  <2>1. tally \in [leaked : Leaks, error : BOOLEAN, site : BOOLEAN, restored : BOOLEAN, answered : Nat]
    BY DEF PartitionInv, RunTypes
  <2>2. CASE Responds
    <3>1. PICK site \in BOOLEAN : tally' = IF bodies = 0 THEN [tally EXCEPT !.site = site] ELSE tally
      BY <2>2 DEF Responds
    <3>. QED
      BY <2>1, <3>1
  <2>3. CASE TransportFails
    BY <2>1, <2>3 DEF TransportFails
  <2>. QED
    BY <2>2, <2>3
<1>3. RunTypes'
  BY <1>1, <1>2 DEF PartitionInv, RunTypes
<1>4. Points' = Points
  BY <1>1 DEF Points, InjectionPartitions, Attempted, Wanted, Capped
<1>5. PartitionsInOrder'
  BY <1>1, <1>2, <1>4 DEF PartitionInv, PartitionsInOrder
<1>6. LeaksWereSeen'
  BY <1>1, <1>2 DEF PartitionInv, LeaksWereSeen, HasShown
<1>. QED
  BY <1>1, <1>3, <1>5, <1>6, WithinCase

LEMMA AnswerStep ==
  ASSUME PartitionInv, AnswersAttempt
  PROVE  PartitionInv'
<1>1. PICK leaks \in BOOLEAN, echo \in BOOLEAN :
        /\ tally' = Scored(tally, leaks, echo)
        /\ seen' = IF leaks THEN seen \cup {<<case, point>>} ELSE seen
  BY DEF AnswersAttempt
<1>2. /\ turn = "attempt" /\ point <= Len(Points) /\ point' = point + 1
      /\ UNCHANGED <<oracle, case, bodies, results, turn>>
  BY DEF AnswersAttempt, Trying, Run
<1>3. /\ tally \in [leaked : Leaks, error : BOOLEAN, site : BOOLEAN, restored : BOOLEAN, answered : Nat]
      /\ case <= Len(Cases) /\ tally.answered = point - 1 /\ point \in Nat \ {0} /\ case \in Nat \ {0}
  BY <1>2 DEF PartitionInv, RunTypes, PartitionsInOrder
<1>4. Points \in Seq(Labels) /\ point \in 1 .. Len(Points) /\ Points[point] \in Labels
  <2>1. Points \in Seq(Labels)
    BY <1>3, PointsAre DEF PartitionInv
  <2>2. point \in 1 .. Len(Points)
    BY <1>2, <1>3, <2>1
  <2>. QED
    BY <2>1, <2>2, ElementOfSeq
<1>5. PICK here \in Labels, gain \in {0, 1}, restored \in BOOLEAN :
        /\ gain = IF leaks THEN 1 ELSE 0
        /\ tally' = [tally EXCEPT !.leaked[here] = @ + gain, !.restored = restored, !.answered = @ + 1]
  <2>1. CASE point = 1
    BY <1>1, <1>4, <2>1 DEF Scored
  <2>2. CASE point # 1
    <3>1. [tally EXCEPT !.leaked[Points[point]] = @ + (IF leaks THEN 1 ELSE 0),
                        !.restored = @, !.answered = @ + 1]
           = [tally EXCEPT !.leaked[Points[point]] = @ + (IF leaks THEN 1 ELSE 0),
                           !.restored = tally.restored, !.answered = @ + 1]
      BY <1>3
    <3>. QED
      BY <1>1, <1>3, <1>4, <2>2, <3>1 DEF Scored
  <2>. QED
    BY <2>1, <2>2
<1>6. /\ tally'.leaked = [tally.leaked EXCEPT ![here] = tally.leaked[here] + gain]
      /\ tally'.answered = tally.answered + 1
      /\ tally' = [leaked |-> tally'.leaked, error |-> tally.error, site |-> tally.site,
                   restored |-> restored, answered |-> tally'.answered]
  BY <1>3, <1>5
<1>7. tally.leaked \in Leaks /\ tally'.leaked \in Leaks
  BY <1>3, <1>5, <1>6 DEF Leaks
<1>8. tally' \in [leaked : Leaks, error : BOOLEAN, site : BOOLEAN, restored : BOOLEAN, answered : Nat]
  BY <1>3, <1>6, <1>7
<1>9. RunTypes'
  BY <1>2, <1>3, <1>8 DEF PartitionInv, RunTypes
<1>10. Points' = Points
  BY <1>2 DEF Points, InjectionPartitions, Attempted, Wanted, Capped
<1>11. PartitionsInOrder'
  BY <1>2, <1>3, <1>4, <1>6, <1>10 DEF PartitionsInOrder
<1>12. LeaksWereSeen'
  <2>1. (\E f \in Labels : tally.leaked[f] > 0) <=> HasShown(case)
    BY DEF PartitionInv, LeaksWereSeen
  <2>2. (\E f \in Labels : tally'.leaked[f] > 0) <=> HasShown(case)'
    <3>1. CASE leaks
      <4>1. tally'.leaked[here] > 0
        BY <1>5, <1>6, <1>7, <3>1 DEF Leaks
      <4>2. HasShown(case)'
        <5>1. <<case, point>> \in seen' /\ <<case, point>>[1] = case
          BY <1>1, <3>1
        <5>. QED
          BY <1>2, <5>1 DEF HasShown
      <4>. QED
        BY <4>1, <4>2
    <3>2. CASE ~leaks
      <4>1. \A f \in Labels : tally'.leaked[f] = tally.leaked[f]
        BY <1>5, <1>6, <1>7, <3>2 DEF Leaks
      <4>2. HasShown(case)' <=> HasShown(case)
        BY <1>1, <1>2, <3>2 DEF HasShown
      <4>. QED
        BY <2>1, <4>1, <4>2
    <3>. QED
      BY <3>1, <3>2
  <2>3. \A s \in seen' : s[1] \in 1 .. case
    BY <1>1, <1>3 DEF PartitionInv, LeaksWereSeen
  <2>. QED
    BY <1>2, <2>2, <2>3 DEF LeaksWereSeen
<1>13. UNCHANGED seen \/ seen' = seen \cup {<<case, point>>}
  BY <1>1
<1>. QED
  BY <1>2, <1>9, <1>11, <1>12, <1>13, WithinCase

LEMMA CaseStep ==
  ASSUME PartitionInv, CaseEnds
  PROVE  PartitionInv'
<1>1. /\ turn = "attempt" /\ (point > Len(Points) \/ tally.error)
      /\ results' = Append(results, RunResult)
      /\ case' = case + 1 /\ point' = 1 /\ tally' = NoTally
      /\ turn' = (IF case = Len(Cases) THEN "report" ELSE "probe")
      /\ UNCHANGED <<oracle, bodies, seen>>
  BY DEF CaseEnds, Run
<1>2. /\ tally \in [leaked : Leaks, error : BOOLEAN, site : BOOLEAN, restored : BOOLEAN, answered : Nat]
      /\ case <= Len(Cases) /\ tally.answered = point - 1 /\ point <= Len(Points) + 1
      /\ point \in Nat \ {0} /\ case \in Nat \ {0} /\ bodies \in Nat
      /\ results \in Seq(ResultTypes) /\ Len(results) = case - 1
  BY <1>1 DEF PartitionInv, RunTypes, PartitionsInOrder
<1>3. Cases[case] \in CaseOf /\ Points \in Seq(Labels) /\ Len(Points) \in Nat
  BY <1>2, PointsAre DEF PartitionInv
<1>. DEFINE r == RunResult
<1>4. /\ r.inconclusive = (tally.error \/ bodies = 0) /\ r.leaked = tally.leaked
      /\ r.injectionLeaked = (\E f \in Labels : tally.leaked[f] > 0)
      /\ r.attempted = {f \in Families : Attempted(Cases[case], f) > 0}
      /\ r.tried = Len(Points) /\ r.answered = tally.answered /\ r.recorded = bodies
  BY Zenon DEF RunResult, Inconclusive
<1>5. r \in ResultTypes
  <2>1. Cases[case].arm \in {"single_chunk", "adversarial"} /\ (tally.error \/ bodies = 0) \in BOOLEAN
        /\ tally.leaked \in Leaks /\ (\E f \in Labels : tally.leaked[f] > 0) \in BOOLEAN
        /\ (tally.site /\ ~tally.error) \in BOOLEAN /\ tally.restored \in BOOLEAN /\ tally.answered \in Nat
    BY <1>2, <1>3 DEF CaseOf
  <2>2. {f \in Families : Attempted(Cases[case], f) > 0} \in SUBSET Families
        /\ Capped(Cases[case]) \in SUBSET Families
    BY DEF Capped
  <2>. QED
    BY <1>2, <1>3, <2>1, <2>2, Zenon DEF RunResult, Inconclusive, ResultTypes
<1>. HIDE DEF r
<1>6. /\ results' \in Seq(ResultTypes) /\ Len(results') = case /\ results'[case] = r
      /\ \A k \in 1 .. Len(results) : results'[k] = results[k]
  BY <1>1, <1>2, <1>5, AppendProperties DEF r
<1>7. NoTally \in [leaked : Leaks, error : BOOLEAN, site : BOOLEAN, restored : BOOLEAN, answered : Nat]
      /\ NoTally.answered = 0 /\ \A f \in Labels : NoTally.leaked[f] = 0
  BY DEF NoTally, Leaks
<1>8. RunTypes'
  <2>1. case + 1 <= Len(Cases) + 1
    BY <1>2, PartitionAssumption
  <2>. QED
    BY <1>1, <1>2, <1>6, <1>7, <2>1 DEF PartitionInv, RunTypes
<1>9. PartitionsInOrder'
  BY <1>1, <1>7 DEF PartitionsInOrder
<1>10. LeaksWereSeen'
  <2>1. \A s \in seen : s[1] \in 1 .. case
    BY DEF PartitionInv, LeaksWereSeen
  <2>2. ~HasShown(case)'
    BY <1>1, <1>2, <2>1 DEF HasShown
  <2>3. \A f \in Labels : ~(NoTally.leaked[f] > 0)
    BY <1>7
  <2>. QED
    BY <1>1, <1>2, <2>1, <2>2, <2>3 DEF LeaksWereSeen
<1>11. /\ \A k : HasShown(k)' <=> HasShown(k)
       /\ \A k : (InjectionPartitions(Cases[k]))' = InjectionPartitions(Cases[k])
       /\ \A k : \A f : (Attempted(Cases[k], f))' = Attempted(Cases[k], f)
  BY <1>1 DEF HasShown, InjectionPartitions, Attempted, Wanted, Capped
<1>12. ASSUME NEW k \in 1 .. Len(results')
       PROVE  /\ ~results'[k].inconclusive => results'[k].answered = results'[k].tried /\ results'[k].recorded > 0
              /\ results'[k].injectionLeaked <=> \E f \in Labels : results'[k].leaked[f] > 0
              /\ results'[k].injectionLeaked <=> HasShown(k)
              /\ results'[k].tried = Len(InjectionPartitions(Cases[k]))
              /\ results'[k].attempted = {f \in Families : Attempted(Cases[k], f) > 0}
  <2>1. CASE k = case
    <3>1. results'[k] = r
      BY <1>6, <2>1
    <3>2. ~r.inconclusive => r.answered = r.tried /\ r.recorded > 0
      <4>. SUFFICES ASSUME ~tally.error, bodies # 0 PROVE r.answered = r.tried /\ r.recorded > 0
        BY <1>4
      <4>1. point = Len(Points) + 1
        BY <1>1, <1>2, <1>3
      <4>. QED
        BY <1>2, <1>3, <1>4, <4>1
    <3>3. r.injectionLeaked <=> HasShown(case)
      BY <1>4 DEF PartitionInv, LeaksWereSeen
    <3>. QED
      BY <1>4, <2>1, <3>1, <3>2, <3>3 DEF Points
  <2>2. CASE k # case
    <3>1. k \in 1 .. Len(results) /\ results'[k] = results[k]
      BY <1>2, <1>6, <2>2
    <3>. QED
      BY <3>1 DEF PartitionInv, ResultsAreTrue
  <2>. QED
    BY <2>1, <2>2
<1>13. ResultsAreTrue'
  <2>. SUFFICES ASSUME NEW k \in 1 .. Len(results')
                PROVE  /\ ~results'[k].inconclusive => results'[k].answered = results'[k].tried /\ results'[k].recorded > 0
                       /\ results'[k].injectionLeaked <=> \E f \in Labels : results'[k].leaked[f] > 0
                       /\ results'[k].injectionLeaked <=> HasShown(k)'
                       /\ results'[k].tried = Len(InjectionPartitions(Cases[k])')
                       /\ results'[k].attempted = {f \in Families : Attempted(Cases[k], f)' > 0}
    BY DEF ResultsAreTrue
  <2>1. {f \in Families : Attempted(Cases[k], f)' > 0} = {f \in Families : Attempted(Cases[k], f) > 0}
    BY <1>11
  <2>. QED
    BY <1>11, <1>12, <2>1, Zenon
<1>14. ReportIsOfResults'
  BY <1>1 DEF ReportIsOfResults
<1>. QED
  BY <1>8, <1>9, <1>10, <1>13, <1>14 DEF PartitionInv

LEMMA SameResults ==
  ASSUME ResultsAreTrue, UNCHANGED <<oracle, results, seen>>
  PROVE  ResultsAreTrue'
<1>1. \A k : HasShown(k)' <=> HasShown(k)
  BY DEF HasShown
<1>2. \A k : \A f : (Attempted(Cases[k], f))' = Attempted(Cases[k], f)
  BY DEF Attempted, Wanted, Capped
<1>3. \A k : (InjectionPartitions(Cases[k]))' = InjectionPartitions(Cases[k])
  BY <1>2 DEF InjectionPartitions
<1>4. \A k : {f \in Families : Attempted(Cases[k], f)' > 0} = {f \in Families : Attempted(Cases[k], f) > 0}
  BY <1>2
<1>. QED
  BY <1>1, <1>3, <1>4, Zenon DEF ResultsAreTrue

LEMMA ReportStep ==
  ASSUME PartitionInv, BuildReport
  PROVE  PartitionInv'
<1>1. /\ turn' = "done" /\ UNCHANGED <<oracle, separated, raw, case, point, bodies, tally, results, seen>>
      /\ report'.outcome = DeriveOutcome(\E k \in Applicable : results[k].injectionLeaked)
      /\ report'.worst = WorstCase
  BY DEF BuildReport, Run
<1>2. (Applicable' = Applicable) /\ WorstCase' = WorstCase
      /\ \A leak : DeriveOutcome(leak)' = DeriveOutcome(leak)
  BY <1>1 DEF Applicable, WorstCase, UnionRows, UnionFamilies, Adversarial, DeriveOutcome, Fidelity, Observable
<1>3. ReportIsOfResults'
  BY <1>1, <1>2 DEF ReportIsOfResults, DeriveOutcome, Applicable, Fidelity, Observable
<1>4. RunTypes' /\ PartitionsInOrder' /\ LeaksWereSeen'
  BY <1>1 DEF PartitionInv, RunTypes, PartitionsInOrder, LeaksWereSeen, HasShown
<1>5. ResultsAreTrue'
  BY <1>1, SameResults DEF PartitionInv
<1>. QED
  BY <1>3, <1>4, <1>5 DEF PartitionInv

LEMMA NothingMoves ==
  ASSUME PartitionInv, UNCHANGED pvars
  PROVE  PartitionInv'
<1>1. UNCHANGED <<oracle, separated, raw, case, point, bodies, tally, results, seen, report, turn>>
  BY DEF pvars
<1>2. RunTypes' /\ LeaksWereSeen'
  BY <1>1 DEF PartitionInv, RunTypes, LeaksWereSeen, HasShown
<1>3. PartitionsInOrder'
  BY <1>1 DEF PartitionInv, PartitionsInOrder, Points, InjectionPartitions, Attempted, Wanted, Capped
<1>4. ReportIsOfResults'
  BY <1>1 DEF PartitionInv, ReportIsOfResults, Applicable, WorstCase, UnionRows, UnionFamilies, Adversarial,
    DeriveOutcome, Fidelity, Observable
<1>5. ResultsAreTrue'
  BY <1>1, SameResults DEF PartitionInv
<1>. QED
  BY <1>2, <1>3, <1>4, <1>5 DEF PartitionInv

(* The worst case is of no fewer cases than any one family. *)
LEMMA WorstCaseIsWorst ==
  ASSUME PartitionInv, NEW f \in UnionFamilies
  PROVE  WorstCase.leaked >= WorstCase.of[f]
<1>. DEFINE A == {k \in UnionRows : results[k].leaked[f] > 0}
            B == {k \in UnionRows : results[k].injectionLeaked}
<1>1. UnionRows \subseteq 1 .. Len(results) /\ Len(results) \in Nat
  BY DEF UnionRows, Adversarial, Applicable, PartitionInv, RunTypes
<1>2. IsFiniteSet(B)
  <2>1. IsFiniteSet(1 .. Len(results))
    BY <1>1, FS_Interval
  <2>. QED
    BY <1>1, <2>1, FS_Subset
<1>3. f \in Labels
  BY DEF UnionFamilies, Labels
<1>4. A \subseteq B
  BY <1>1, <1>3 DEF PartitionInv, ResultsAreTrue
<1>5. Cardinality(A) <= Cardinality(B) /\ Cardinality(A) \in Nat /\ Cardinality(B) \in Nat
  BY <1>2, <1>4, FS_Subset, FS_CardinalityType
<1>6. WorstCase.leaked = Cardinality(B) /\ WorstCase.of[f] = Cardinality(A)
  BY DEF WorstCase
<1>. QED
  BY <1>5, <1>6

LEMMA PartitionInvSuffices == PartitionInv => VerdictIsFounded
<1>. SUFFICES ASSUME PartitionInv, turn = "done" PROVE VerdictIsFounded
  BY DEF VerdictIsFounded
<1>. DEFINE leak == \E k \in Applicable : results[k].injectionLeaked
<1>1. report.outcome = DeriveOutcome(leak) /\ report.worst = WorstCase
  BY DEF PartitionInv, ReportIsOfResults
<1>2. Applicable \subseteq 1 .. Len(results) /\ \A k \in Applicable : ~results[k].inconclusive
  BY DEF Applicable, PartitionInv, RunTypes
<1>3. leak <=> \E k \in Applicable : HasShown(k)
  BY <1>2 DEF PartitionInv, ResultsAreTrue
<1>4. \A k \in Applicable : results[k].answered = results[k].tried /\ results[k].recorded > 0
  BY <1>2 DEF PartitionInv, ResultsAreTrue
<1>. HIDE DEF leak
<1>5. report.outcome = "pass" => ~raw /\ \A k \in Applicable : ~HasShown(k)
  BY <1>1, <1>3 DEF DeriveOutcome
<1>6. report.outcome = "fail" => raw \/ \E k \in Applicable : HasShown(k)
  BY <1>1, <1>3 DEF DeriveOutcome
<1>7. \A f \in UnionFamilies : report.worst.leaked >= report.worst.of[f]
  BY <1>1, WorstCaseIsWorst
<1>8. ASSUME NEW k \in report.worst.rows, NEW f \in Families, f \in results[k].attempted
      PROVE  results[k].answered >= FamilySize(Cases[k], f)
  <2>1. k \in Applicable /\ k \in 1 .. Len(results)
    <3>1. report.worst.rows = UnionRows
      BY <1>1 DEF WorstCase
    <3>. QED
      BY <1>2, <3>1 DEF UnionRows, Adversarial
  <2>2. /\ results[k].tried = Len(InjectionPartitions(Cases[k])) /\ Attempted(Cases[k], f) > 0
        /\ results[k].answered = results[k].tried
    BY <1>4, <1>8, <2>1 DEF PartitionInv, ResultsAreTrue
  <2>3. Cases[k] \in CaseOf
    <3>1. Cases \in Seq(CaseOf) /\ Len(Cases) \in Nat
      BY PartitionAssumption DEF CaseOf
    <3>2. k \in 1 .. Len(Cases)
      BY <2>1, <3>1 DEF PartitionInv, RunTypes
    <3>. QED
      BY <3>1, <3>2, ElementOfSeq
  <2>. QED
    BY <2>2, <2>3, PartitionsAre
<1>. QED
  BY <1>4, <1>5, <1>6, <1>7, <1>8 DEF VerdictIsFounded

(* Whatever the gateway answers, repeats, refuses or keeps for itself, the *)
(* report of a run of the streaming profile rests on every partition of    *)
(* every case it scores.                                                   *)
THEOREM PartitionVerdictHolds == PRSpec => []VerdictIsFounded
<1>1. PartitionInv /\ [PRNext]_pvars => PartitionInv'
  BY ProbeStep, ProviderStep, AnswerStep, CaseStep, ReportStep, NothingMoves DEF PRNext
<1>. QED
  BY <1>1, PartitionsBegin, PartitionInvSuffices, PTL DEF PRSpec

-----------------------------------------------------------------------------
(***************************************************************************)
(* A run of the benchmark against a gateway (CaptureRun).  What was        *)
(* answered is on record, in an order that keeps what was sent after an    *)
(* answer behind what was answered; so two halves of a value with nothing  *)
(* between them lie side by side where the record is joined.               *)
(***************************************************************************)
Stages == {"sent", "recorded", "answered", "gone"}

CaptureTypes ==
  /\ session \in {"bound", "open", "ended"} /\ run \in {"idle", "running", "judged"}
  /\ reqs \in Seq([load : Loads, at : Stages, after : SUBSET Nat])
  /\ records \in Seq(Nat)

(* What was answered is on record, once, and what is on record was sent. *)
RecordIsWhole ==
  /\ \A k \in 1 .. Len(records) : records[k] \in Requests
  /\ \A k, l \in 1 .. Len(records) : records[k] = records[l] => k = l
  /\ \A i \in Requests : reqs[i].at \in {"recorded", "answered"} => \E k \in 1 .. Len(records) : records[k] = i
  /\ \A k \in 1 .. Len(records) : reqs[records[k]].at \in {"recorded", "answered"}

(* What was sent after an answer is on record after what was answered. *)
RecordIsOrdered ==
  /\ \A j \in Requests : reqs[j].after \subseteq Answered
  /\ \A k, l \in 1 .. Len(records) : SentAfter(records[l], records[k]) => k < l

AddressIsOurs ==
  /\ session = "open" \/ run # "idle" => address = "us" \/ reached = "no"
  /\ session = "bound" => run = "idle"

CaptureInv ==
  /\ CaptureTypes /\ RecordIsWhole /\ RecordIsOrdered /\ AddressIsOurs
  /\ run # "judged" => verdict = NoVerdict
  /\ BoundaryVerdictIsSound

LEMMA CaptureBegins == CInit => CaptureInv
<1>. SUFFICES ASSUME CInit PROVE CaptureInv
  OBVIOUS
<1>1. CaptureTypes /\ RecordIsWhole /\ RecordIsOrdered /\ AddressIsOurs
  BY DEF CInit, CaptureTypes, RecordIsWhole, RecordIsOrdered, AddressIsOurs, Requests, Answered
<1>2. BoundaryVerdictIsSound
  BY DEF CInit, BoundaryVerdictIsSound, NoVerdict
<1>. QED  BY <1>1, <1>2 DEF CaptureInv, CInit

(* A request as it is sent. *)
LEMMA RequestFields ==
  ASSUME CaptureTypes, NEW i \in Requests
  PROVE  /\ i \in 1 .. Len(reqs) /\ reqs[i] \in [load : Loads, at : Stages, after : SUBSET Nat]
         /\ reqs[i].load.head \in Seq(STRING) /\ reqs[i].load.body \in Seq(STRING)
         /\ reqs[i].load.hidden \in Seq(STRING)
         /\ \A ch \in Surfaces : reqs[i].load[ch] \in Seq(STRING)
<1>1. i \in 1 .. Len(reqs) /\ reqs[i] \in [load : Loads, at : Stages, after : SUBSET Nat]
  BY ElementOfSeq, LenProperties DEF CaptureTypes, Requests
<1>2. reqs[i].load \in RequestType
  BY <1>1, CaptureAssumption
<1>. QED  BY <1>1, <1>2 DEF RequestType, Surfaces

LEMMA SideBySide ==
  ASSUME NEW u \in Seq(STRING), NEW a \in Seq(STRING), NEW b \in Seq(STRING), NEW w \in Seq(STRING),
         a # <<>>, b # <<>>, a[Len(a)] = "h1", b[1] = "h2"
  PROVE  Adjacent((u \o (a \o b)) \o w)
<1>. DEFINE all == (u \o (a \o b)) \o w
            k == Len(u) + Len(a)
<1>1. /\ Len(u) \in Nat /\ Len(a) \in Nat \ {0} /\ Len(b) \in Nat \ {0} /\ Len(w) \in Nat
      /\ a \o b \in Seq(STRING) /\ u \o (a \o b) \in Seq(STRING) /\ all \in Seq(STRING)
  BY EmptySeq, ConcatProperties
<1>2. /\ Len(a \o b) = Len(a) + Len(b) /\ (a \o b)[Len(a)] = "h1" /\ (a \o b)[Len(a) + 1] = "h2"
  BY <1>1, ConcatProperties
<1>3. /\ Len(u \o (a \o b)) = Len(u) + (Len(a) + Len(b))
      /\ (u \o (a \o b))[k] = "h1" /\ (u \o (a \o b))[k + 1] = "h2"
  <2>1. /\ k \in 1 .. Len(u) + Len(a \o b) /\ k + 1 \in 1 .. Len(u) + Len(a \o b)
        /\ k > Len(u) /\ k + 1 > Len(u) /\ k - Len(u) = Len(a) /\ (k + 1) - Len(u) = Len(a) + 1
    BY <1>1, <1>2
  <2>. HIDE DEF k
  <2>2. /\ Len(u \o (a \o b)) = Len(u) + Len(a \o b)
        /\ (u \o (a \o b))[k] = (a \o b)[k - Len(u)]
        /\ (u \o (a \o b))[k + 1] = (a \o b)[(k + 1) - Len(u)]
    BY <1>1, <2>1, ConcatProperties
  <2>. QED  BY <1>2, <2>1, <2>2
<1>4. PICK v \in Seq(STRING) : v = u \o (a \o b)
  BY <1>1
<1>5. k \in 1 .. Len(v) /\ k + 1 \in 1 .. Len(v) /\ k \in 1 .. Len(v \o w) - 1 /\ v[k] = "h1" /\ v[k + 1] = "h2"
  BY <1>1, <1>3, <1>4, ConcatProperties
<1>6. (v \o w)[k] = "h1" /\ (v \o w)[k + 1] = "h2"
  <2>. HIDE DEF k
  <2>. QED  BY <1>5, ConcatProperties
<1>. QED  BY <1>4, <1>5, <1>6 DEF Adjacent

(* A value split over two requests shows where they are joined. *)
LEMMA SplitsAreJoined ==
  ASSUME CaptureInv, NEW i \in Answered, NEW j \in Answered, Attributed(i), Attributed(j),
         NEW ch \in Surfaces, SplitOver(i, j, ch)
  PROVE  Adjacent(Joined(Captured, ch))
<1>. DEFINE piece == [k \in DOMAIN Snapshot |->
                       LET n == Snapshot[k] IN IF n \in Captured THEN reqs[n].load[ch] ELSE <<>>]
<1>1. /\ CaptureTypes /\ RecordIsWhole /\ RecordIsOrdered /\ i \in Requests /\ j \in Requests
      /\ Snapshot = records /\ records \in Seq(Nat) /\ DOMAIN records = 1 .. Len(records) /\ Len(records) \in Nat
  BY LenProperties DEF CaptureInv, CaptureTypes, Answered, Snapshot
<1>2. PICK p \in 1 .. Len(records), q \in 1 .. Len(records) : records[p] = i /\ records[q] = j
  BY <1>1 DEF RecordIsWhole, Answered
<1>3. p < q
  BY <1>1, <1>2 DEF RecordIsOrdered, SplitOver
<1>4. piece \in Seq(Seq(STRING)) /\ Len(piece) = Len(records)
  <2>1. ASSUME NEW k \in 1 .. Len(records) PROVE piece[k] \in Seq(STRING)
    <3>1. records[k] \in Requests
      BY <1>1 DEF RecordIsWhole
    <3>2. reqs[records[k]].load[ch] \in Seq(STRING) /\ <<>> \in Seq(STRING)
      BY <1>1, <3>1, RequestFields
    <3>. QED  BY <1>1, <3>2
  <2>2. piece = [k \in 1 .. Len(records) |-> piece[k]]
    BY <1>1
  <2>. HIDE DEF piece
  <2>. QED  BY <1>1, <2>1, <2>2
<1>5. ASSUME NEW k \in 1 .. Len(records), Attributed(records[k])
      PROVE  piece[k] = reqs[records[k]].load[ch]
  BY <1>1, <1>5 DEF Captured, OnRecord
<1>6. piece[p] = reqs[i].load[ch] /\ piece[q] = reqs[j].load[ch]
  BY <1>2, <1>5
<1>7. ASSUME NEW k \in p + 1 .. q - 1 PROVE piece[k] = <<>>
  <2>1. k \in 1 .. Len(records) /\ k # p /\ k # q /\ p < k /\ k < q
    BY <1>1
  <2>2. records[k] \in Requests \ {i, j}
    BY <1>1, <1>2, <2>1 DEF RecordIsWhole
  <2>3. ~SentAfter(i, records[k]) /\ ~SentAfter(records[k], j)
    BY <1>1, <1>2, <2>1 DEF RecordIsOrdered
  <2>4. reqs[records[k]].load[ch] = <<>> \/ ~Attributed(records[k])
    BY <2>2, <2>3 DEF SplitOver
  <2>. QED  BY <1>1, <2>1, <2>4 DEF Captured, OnRecord
<1>8. Joined(Captured, ch) = FlattenSeq(piece)
  BY DEF Joined
<1>. HIDE DEF piece
<1>9. PICK u \in Seq(STRING), w \in Seq(STRING) : FlattenSeq(piece) = (u \o (piece[p] \o piece[q])) \o w
  <2>1. PICK ss \in Seq(Seq(STRING)) : ss = piece
    BY <1>4
  <2>2. p \in 1 .. Len(ss) /\ q \in 1 .. Len(ss) /\ p < q
    BY <1>3, <1>4, <2>1
  <2>3. NothingBetween(ss, p, q)
    BY <1>7, <2>1 DEF NothingBetween
  <2>4. HasPart(FlattenSeq(ss), ss[p] \o ss[q], STRING)
    BY <2>2, <2>3, FlattenAround
  <2>. QED  BY <2>1, <2>4 DEF HasPart
<1>10. /\ piece[p] \in Seq(STRING) /\ piece[q] \in Seq(STRING) /\ piece[p] # <<>> /\ piece[q] # <<>>
       /\ piece[p][Len(piece[p])] = "h1" /\ piece[q][1] = "h2"
  <2>1. piece[p] \in Seq(STRING) /\ piece[q] \in Seq(STRING)
    BY <1>4, ElementOfSeq
  <2>. QED  BY <1>6, <2>1 DEF SplitOver
<1>. QED  BY <1>8, <1>9, <1>10, SideBySide

LEMMA PassIsEarned ==
  ASSUME CaptureInv, Judge = "passed"
  PROVE  /\ \E i \in Requests : Attributed(i) /\ reqs[i].load.marked
         /\ \A i \in Answered : ~Whole(reqs[i].load) /\ (Attributed(i) => reqs[i].load.sound)
         /\ \A i, j \in {k \in Answered : Attributed(k)}, ch \in Surfaces : ~SplitOver(i, j, ch)
<1>1. /\ ~Leaked(Captured) /\ ~Leaked(OnRecord \ Captured)
      /\ \E i \in Captured : reqs[i].load.marked
      /\ \A i \in Captured : Readable(i)
  BY DEF Judge
<1>2. Snapshot = records /\ DOMAIN records = 1 .. Len(records) /\ RecordIsWhole
  BY LenProperties DEF CaptureInv, CaptureTypes, Snapshot
<1>3. OnRecord \subseteq Requests /\ Answered \subseteq OnRecord
  BY <1>2 DEF OnRecord, RecordIsWhole, Answered
<1>4. \E i \in Requests : Attributed(i) /\ reqs[i].load.marked
  BY <1>1, <1>3 DEF Captured
<1>5. ASSUME NEW i \in Answered PROVE ~Whole(reqs[i].load) /\ (Attributed(i) => reqs[i].load.sound)
  <2>1. i \in Captured \/ i \in OnRecord \ Captured
    BY <1>3
  <2>2. ~Whole(reqs[i].load)
    BY <1>1, <2>1 DEF Leaked, Whole, Verbatim, Decoded
  <2>3. Attributed(i) => reqs[i].load.sound
    BY <1>1, <1>3 DEF Captured, Readable
  <2>. QED  BY <2>2, <2>3
<1>6. \A i, j \in {k \in Answered : Attributed(k)}, ch \in Surfaces : ~SplitOver(i, j, ch)
  <2>. SUFFICES ASSUME NEW i \in Answered, NEW j \in Answered, Attributed(i), Attributed(j),
                       NEW ch \in Surfaces, SplitOver(i, j, ch)
                PROVE  FALSE
    OBVIOUS
  <2>1. Adjacent(Joined(Captured, ch))
    BY SplitsAreJoined
  <2>. QED  BY <1>1, <2>1 DEF Leaked
<1>. QED  BY <1>4, <1>5, <1>6

(* The verdict stays and what it is about. *)
LEMMA VerdictStays ==
  ASSUME CaptureInv, UNCHANGED <<mode, address, reqs, verdict>>, reached' = reached \/ run # "judged"
  PROVE  BoundaryVerdictIsSound'
<1>1. CASE run = "judged"
  BY <1>1 DEF CaptureInv, BoundaryVerdictIsSound, SplitOver, SentAfter, Attributed, Requests
<1>2. CASE run # "judged"
  BY <1>2 DEF CaptureInv, BoundaryVerdictIsSound, NoVerdict
<1>. QED  BY <1>1, <1>2

LEMMA NoVerdictYet ==
  ASSUME CaptureInv, run # "judged", verdict' = verdict
  PROVE  verdict' = NoVerdict /\ BoundaryVerdictIsSound'
BY DEF CaptureInv, BoundaryVerdictIsSound, NoVerdict

LEMMA SendsStep ==
  ASSUME CaptureInv, run # "judged", NEW load \in Loads, Sends(load)
  PROVE  CaptureInv'
<1>. DEFINE new == [load |-> load, at |-> "sent", after |-> Answered]
<1>1. /\ CaptureTypes /\ RecordIsWhole /\ RecordIsOrdered /\ AddressIsOurs
      /\ UNCHANGED <<mode, address, session, reached, records, run, left, verdict>>
  BY DEF CaptureInv, Sends
<1>2. /\ reqs' = Append(reqs, new) /\ Len(reqs) \in Nat /\ Requests = 1 .. Len(reqs)
      /\ reqs \in Seq([load : Loads, at : Stages, after : SUBSET Nat])
  BY <1>1 DEF Sends, CaptureTypes, Requests
<1>3. new \in [load : Loads, at : Stages, after : SUBSET Nat]
  BY <1>2 DEF Stages, Answered
<1>. HIDE DEF new
<1>4. /\ reqs' \in Seq([load : Loads, at : Stages, after : SUBSET Nat]) /\ Len(reqs') = Len(reqs) + 1
      /\ reqs'[Len(reqs) + 1] = new /\ \A i \in 1 .. Len(reqs) : reqs'[i] = reqs[i]
  BY <1>2, <1>3, AppendProperties
<1>5. Requests' = Requests \cup {Len(reqs) + 1} /\ Len(reqs) + 1 \notin Requests
  BY <1>2, <1>4 DEF Requests
<1>6. Answered' = Answered
  <2>1. new.at = "sent"
    BY DEF new
  <2>. QED  BY <1>2, <1>4, <1>5, <2>1 DEF Answered
<1>7. CaptureTypes'
  BY <1>1, <1>4 DEF CaptureTypes
<1>8. RecordIsWhole'
  <2>1. new.at = "sent"
    BY DEF new
  <2>. QED  BY <1>1, <1>2, <1>4, <1>5, <2>1 DEF RecordIsWhole
<1>9. RecordIsOrdered'
  <2>1. new.after = Answered
    BY DEF new
  <2>2. \A k \in 1 .. Len(records) : records[k] \in 1 .. Len(reqs)
    BY <1>1, <1>2 DEF RecordIsWhole
  <2>. QED  BY <1>1, <1>2, <1>4, <1>5, <1>6, <2>1, <2>2 DEF RecordIsOrdered, SentAfter
<1>10. AddressIsOurs'
  BY <1>1 DEF AddressIsOurs
<1>. QED  BY <1>1, <1>7, <1>8, <1>9, <1>10, NoVerdictYet DEF CaptureInv

(* A request moves on. *)
LEMMA RequestMoves ==
  ASSUME CaptureTypes, NEW i \in Requests, NEW at \in Stages, Moves(i, at)
  PROVE  /\ reqs' \in Seq([load : Loads, at : Stages, after : SUBSET Nat])
         /\ Requests' = Requests /\ i \in Nat
         /\ \A j \in Requests : /\ reqs'[j].load = reqs[j].load /\ reqs'[j].after = reqs[j].after
                                /\ reqs'[j].at = IF j = i THEN at ELSE reqs[j].at
<1>1. /\ reqs \in Seq([load : Loads, at : Stages, after : SUBSET Nat])
      /\ Requests = 1 .. Len(reqs) /\ DOMAIN reqs = 1 .. Len(reqs) /\ Len(reqs) \in Nat
  BY LenProperties DEF CaptureTypes, Requests
<1>2. reqs' = [j \in 1 .. Len(reqs) |-> IF j = i THEN [reqs[j] EXCEPT !.at = at] ELSE reqs[j]]
  BY <1>1 DEF Moves
<1>3. ASSUME NEW j \in 1 .. Len(reqs)
      PROVE  /\ reqs'[j] \in [load : Loads, at : Stages, after : SUBSET Nat]
             /\ reqs'[j].load = reqs[j].load /\ reqs'[j].after = reqs[j].after
             /\ reqs'[j].at = IF j = i THEN at ELSE reqs[j].at
  <2>1. reqs[j] \in [load : Loads, at : Stages, after : SUBSET Nat]
    BY <1>1, ElementOfSeq
  <2>. QED  BY <1>2, <2>1
<1>4. reqs' \in Seq([load : Loads, at : Stages, after : SUBSET Nat]) /\ Requests' = 1 .. Len(reqs)
  BY <1>1, <1>2, <1>3 DEF Requests
<1>. QED  BY <1>1, <1>3, <1>4

LEMMA RecordsStep ==
  ASSUME CaptureInv, run # "judged", NEW i \in Requests, Records(i)
  PROVE  CaptureInv'
<1>1. /\ CaptureTypes /\ RecordIsWhole /\ RecordIsOrdered /\ AddressIsOurs
      /\ UNCHANGED <<mode, address, session, reached, run, left, verdict>>
      /\ Moves(i, "recorded") /\ reqs[i].at = "sent" /\ records' = Append(records, i)
  BY DEF CaptureInv, Records
<1>2. /\ reqs' \in Seq([load : Loads, at : Stages, after : SUBSET Nat])
      /\ Requests' = Requests /\ i \in Nat
      /\ \A j \in Requests : /\ reqs'[j].load = reqs[j].load /\ reqs'[j].after = reqs[j].after
                             /\ reqs'[j].at = IF j = i THEN "recorded" ELSE reqs[j].at
  BY <1>1, RequestMoves DEF Stages
<1>3. /\ records \in Seq(Nat) /\ Len(records) \in Nat /\ records' \in Seq(Nat) /\ Len(records') = Len(records) + 1
      /\ records'[Len(records) + 1] = i /\ \A k \in 1 .. Len(records) : records'[k] = records[k]
  BY <1>1, <1>2, AppendProperties DEF CaptureTypes
<1>4. CaptureTypes'
  BY <1>1, <1>2, <1>3 DEF CaptureTypes
<1>5. \A k \in 1 .. Len(records) : records[k] # i
  BY <1>1 DEF RecordIsWhole
<1>6. RecordIsWhole'
  <2>1. \A k \in 1 .. Len(records') : records'[k] \in Requests /\ reqs'[records'[k]].at \in {"recorded", "answered"}
    <3>1. ASSUME NEW k \in 1 .. Len(records)
          PROVE  records'[k] \in Requests /\ reqs'[records'[k]].at \in {"recorded", "answered"}
      <4>1. records'[k] = records[k] /\ records[k] \in Requests /\ reqs[records[k]].at \in {"recorded", "answered"}
        BY <1>1, <1>3 DEF RecordIsWhole
      <4>. QED  BY <1>2, <4>1
    <3>2. records'[Len(records')] \in Requests /\ reqs'[records'[Len(records')]].at \in {"recorded", "answered"}
      BY <1>2, <1>3
    <3>. QED  BY <1>3, <3>1, <3>2
  <2>2. \A k, l \in 1 .. Len(records') : records'[k] = records'[l] => k = l
    BY <1>1, <1>3, <1>5 DEF RecordIsWhole
  <2>3. ASSUME NEW j \in Requests, reqs'[j].at \in {"recorded", "answered"}
        PROVE  \E k \in 1 .. Len(records') : records'[k] = j
    <3>1. CASE j = i
      BY <1>3, <3>1
    <3>2. CASE j # i
      <4>1. PICK k \in 1 .. Len(records) : records[k] = j
        BY <1>1, <1>2, <2>3, <3>2 DEF RecordIsWhole
      <4>. QED  BY <1>3, <4>1
    <3>. QED  BY <3>1, <3>2
  <2>. QED  BY <1>2, <2>1, <2>2, <2>3 DEF RecordIsWhole
<1>7. Answered' = Answered
  BY <1>1, <1>2 DEF Answered
<1>8. \A j \in Requests : i \notin reqs[j].after
  BY <1>1 DEF RecordIsOrdered, Answered
<1>9. \A k, l \in 1 .. Len(records') : records'[k] \in reqs'[records'[l]].after => k < l
  <2>. SUFFICES ASSUME NEW k \in 1 .. Len(records'), NEW l \in 1 .. Len(records'),
                       records'[k] \in reqs'[records'[l]].after
                PROVE  k < l
    OBVIOUS
  <2>1. records'[l] \in Requests
    BY <1>2, <1>6 DEF RecordIsWhole
  <2>2. records'[k] \in reqs[records'[l]].after /\ records'[k] # i
    BY <1>2, <1>8, <2>1
  <2>3. k \in 1 .. Len(records)
    BY <1>3, <2>2
  <2>4. CASE l = Len(records) + 1
    BY <1>3, <2>3, <2>4
  <2>5. CASE l \in 1 .. Len(records)
    BY <1>1, <1>3, <2>2, <2>3, <2>5 DEF RecordIsOrdered, SentAfter
  <2>. QED  BY <1>3, <2>4, <2>5
<1>10. RecordIsOrdered'
  BY <1>1, <1>2, <1>7, <1>9 DEF RecordIsOrdered, SentAfter
<1>. QED  BY <1>1, <1>4, <1>6, <1>10, NoVerdictYet DEF CaptureInv, AddressIsOurs

LEMMA MovesStep ==
  ASSUME CaptureInv, run # "judged", NEW i \in Requests, Resets(i) \/ Answers(i)
  PROVE  CaptureInv'
<1>1. /\ CaptureTypes /\ RecordIsWhole /\ RecordIsOrdered /\ AddressIsOurs
      /\ UNCHANGED <<mode, address, session, reached, records, run, left, verdict>>
  BY DEF CaptureInv, Resets, Answers
<1>2. PICK at \in {"gone", "answered"} :
        /\ Moves(i, at) /\ reqs[i].at = IF at = "gone" THEN "sent" ELSE "recorded"
  BY DEF Resets, Answers
<1>3. /\ reqs' \in Seq([load : Loads, at : Stages, after : SUBSET Nat])
      /\ Requests' = Requests /\ i \in Nat
      /\ \A j \in Requests : /\ reqs'[j].load = reqs[j].load /\ reqs'[j].after = reqs[j].after
                             /\ reqs'[j].at = IF j = i THEN at ELSE reqs[j].at
  <2>1. at \in Stages
    BY DEF Stages
  <2>. QED  BY <1>1, <1>2, <2>1, RequestMoves
<1>4. CaptureTypes'
  BY <1>1, <1>3 DEF CaptureTypes
<1>5. Answered \subseteq Answered'
  BY <1>2, <1>3 DEF Answered
<1>6. RecordIsWhole'
  <2>1. at = "answered" => \E k \in 1 .. Len(records) : records[k] = i
    BY <1>1, <1>2 DEF RecordIsWhole
  <2>2. at = "gone" => \A k \in 1 .. Len(records) : records[k] # i
    BY <1>1, <1>2 DEF RecordIsWhole
  <2>. QED  BY <1>1, <1>2, <1>3, <2>1, <2>2 DEF RecordIsWhole
<1>7. RecordIsOrdered'
  <2>1. \A k \in 1 .. Len(records) : records[k] \in Requests
    BY <1>1 DEF RecordIsWhole
  <2>. QED  BY <1>1, <1>3, <1>5, <2>1 DEF RecordIsOrdered, SentAfter
<1>. QED  BY <1>1, <1>4, <1>6, <1>7, NoVerdictYet DEF CaptureInv, AddressIsOurs

LEMMA RunStep ==
  ASSUME CaptureInv, ProbesItself \/ Claims \/ SessionEnds \/ IterationEnds \/ UNCHANGED cvars
  PROVE  CaptureInv'
<1>1. /\ CaptureTypes /\ RecordIsWhole /\ RecordIsOrdered /\ AddressIsOurs
      /\ UNCHANGED <<mode, address, reqs, records, verdict>>
  BY DEF CaptureInv, ProbesItself, Claims, SessionEnds, IterationEnds, cvars
<1>2. RecordIsWhole' /\ RecordIsOrdered'
  BY <1>1 DEF RecordIsWhole, RecordIsOrdered, Requests, Answered, SentAfter
<1>3. CaptureTypes' /\ AddressIsOurs'
  BY <1>1 DEF CaptureTypes, AddressIsOurs, ProbesItself, Claims, SessionEnds, IterationEnds, cvars
<1>4. reached' = reached \/ run # "judged"
  BY <1>1 DEF AddressIsOurs, ProbesItself, Claims, SessionEnds, IterationEnds, cvars
<1>5. run' # "judged" => verdict' = NoVerdict
  BY DEF CaptureInv, ProbesItself, Claims, SessionEnds, IterationEnds, cvars
<1>. QED  BY <1>1, <1>2, <1>3, <1>4, <1>5, VerdictStays DEF CaptureInv

LEMMA JudgesStep == CaptureInv /\ Judges => CaptureInv'
<1>. SUFFICES ASSUME CaptureInv, Judges PROVE CaptureInv'
  OBVIOUS
<1>1. /\ CaptureTypes /\ RecordIsWhole /\ RecordIsOrdered /\ AddressIsOurs
      /\ UNCHANGED <<mode, address, session, reached, reqs, records, left>>
      /\ run = "running" /\ run' = "judged" /\ verdict' = [is |-> Judge, seen |-> Answered]
  BY DEF CaptureInv, Judges
<1>2. RecordIsWhole' /\ RecordIsOrdered'
  BY <1>1 DEF RecordIsWhole, RecordIsOrdered, Requests, Answered, SentAfter
<1>3. CaptureTypes' /\ AddressIsOurs'
  BY <1>1 DEF CaptureTypes, AddressIsOurs
<1>4. verdict'.is = Judge /\ verdict'.seen = Answered
  BY <1>1
<1>5. (address = "us" \/ reached = "no")'
  BY <1>1 DEF AddressIsOurs
<1>6. BoundaryVerdictIsSound'
  <2>1. CASE Judge = "passed"
    BY <1>1, <1>4, <1>5, <2>1, PassIsEarned
       DEF BoundaryVerdictIsSound, SplitOver, SentAfter, Attributed, Requests
  <2>2. CASE Judge # "passed"
    BY <1>4, <1>5, <2>2 DEF BoundaryVerdictIsSound
  <2>. QED  BY <2>1, <2>2
<1>. QED  BY <1>1, <1>2, <1>3, <1>6 DEF CaptureInv

(* Whatever reaches the capture, a gateway passes only if it sent a        *)
(* request of the run there, and nothing that was answered by then held a  *)
(* value, in one request or split over two, or could not be read.          *)
THEOREM BoundaryVerdictHolds == CSpec => []BoundaryVerdictIsSound
<1>1. CaptureInv /\ [CNext]_cvars => CaptureInv'
  BY RunStep, JudgesStep, SendsStep, RecordsStep, MovesStep DEF CNext
<1>2. CaptureInv => BoundaryVerdictIsSound
  BY DEF CaptureInv
<1>. QED  BY <1>1, <1>2, CaptureBegins, PTL DEF CSpec

(* So what either profile says of a gateway is founded on what was seen.   *)
THEOREM BenchmarkVerdictsHold == CSpec /\ PRSpec => []BenchmarkVerdictsAreSound
<1>1. BoundaryVerdictIsSound /\ VerdictIsFounded => BenchmarkVerdictsAreSound
  BY DEF BenchmarkVerdictsAreSound
<1>. QED  BY <1>1, BoundaryVerdictHolds, PartitionVerdictHolds, PTL
====
